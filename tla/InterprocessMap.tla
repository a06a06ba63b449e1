--------------------------- MODULE InterprocessMap ---------------------------
(* container::stable_interprocess_map and what it is made of:                *)
(* stable_interprocess_container, interprocess_shared_memory and             *)
(* named_recursive_mutex, on Windows and on POSIX systems.                   *)
(*                                                                           *)
(* The users are processes with an instance each, or the threads of one      *)
(* process that share an instance.  A call takes the mutex, deserializes the *)
(* map, serializes the changed copy and releases the mutex, in a step each.  *)
EXTENDS Integers, FiniteSets, Functions, TLC

CONSTANTS
    Users, Keys, MaxValue,
    Capacity,       \* the entries that fit into the segment
    Platforms,      \* \subseteq {"windows", "posix"}
    Processes,      \* the platforms on which the users are processes
    MaxCrashes,     \* bound: how many processes die
    None

ASSUME InterprocessAssumption ==
    /\ IsFiniteSet(Users) /\ None \notin Users /\ Capacity \in Nat
    /\ Platforms \subseteq {"windows", "posix"}

VARIABLES
    platform,
    inst,           \* the state of each user's instance
    mutex,          \* the mutex m_<identifier>
    named,          \* the segment that s_<identifier> names, 0 if none
    seg,            \* the segment each instance has mapped, 0 if none
    mem,            \* the map in each segment
    pc, call,       \* each user's control point and call
    local,          \* local_instance
    held,           \* the users that keep a lock_guard between their calls
    current,        \* history: the map all completed calls have made
    crashes         \* history: how many processes have died

sharedVars == <<named, seg, mem, current>>
threadVars == <<pc, call, local, held>>
vars == <<platform, inst, mutex, sharedVars, threadVars, crashes>>

Empty == <<>>
Segments == 1 .. Cardinality(Users) + 1
Separate == platform \in Processes
NoMutex == [state |-> "none", owner |-> None, depth |-> 0]
Ready == [state |-> "ready", owner |-> None, depth |-> 0]

NoCall == [op |-> "none", key |-> None, value |-> 0]

Init ==
    /\ platform \in Platforms
    /\ inst = [u \in Users |-> "closed"]
    /\ mutex = NoMutex
    /\ named = 0 /\ seg = [u \in Users |-> 0]
    /\ mem = [s \in Segments |-> Empty]
    /\ pc = [u \in Users |-> "idle"]
    /\ call = [u \in Users |-> NoCall]
    /\ local = [u \in Users |-> Empty]
    /\ held = {} /\ current = Empty /\ crashes = 0

Goto(u, l) == pc' = [pc EXCEPT ![u] = l]
OthersClosed(u) == \A v \in Users \ {u} : inst[v] = "closed"

\* The instance a user works with: its own, or that of its process.
Instance(u) ==
    IF Separate THEN u ELSE CHOOSE v \in Users : inst[v] = "open"
Usable(u) ==
    IF Separate THEN inst[u] = "open" ELSE \E v \in Users : inst[v] = "open"

-----------------------------------------------------------------------------
(* named_recursive_mutex *)

\* Mutants: the mutex does not exclude; it is released although locked twice.
FaultyMayLock(u) == mutex.state # "destroyed"
FaultyReleased == [mutex EXCEPT !.depth = 0, !.owner = None]

MayLock(u) == mutex.state # "destroyed" /\ mutex.owner \in {None, u}
Released ==
    IF mutex.depth = 1 THEN [mutex EXCEPT !.depth = 0, !.owner = None]
    ELSE [mutex EXCEPT !.depth = @ - 1]

\* lock(), which a call enters at the first and leaves at the second control
\* point; a Windows mutex whose owner died is granted, and lock() throws.
LockTo(u, from, to, failed) ==
    /\ pc[u] = from
    /\ \/ /\ mutex.state = "destroyed"
          /\ Goto(u, failed) /\ UNCHANGED mutex
       \/ /\ MayLock(u)
          /\ mutex' = [state |-> "ready", owner |-> u, depth |-> mutex.depth + 1]
          /\ Goto(u, IF mutex.state = "abandoned" THEN failed ELSE to)

\* unlock().  It fails for a thread that is not the owner, and since destructors
\* call it the exception ends the process, which is the action Crash.
UnlockTo(u, from, to) ==
    /\ pc[u] = from /\ mutex.owner = u
    /\ mutex' = Released
    /\ Goto(u, to)

\* The constructor: POSIX initialises the mutex, also one that exists.
OpenMutex(u) ==
    /\ inst[u] = "closed" /\ pc[u] = "idle"
    /\ Separate \/ OthersClosed(u)
    /\ mutex' = IF platform = "windows" /\ mutex.state # "none" THEN mutex ELSE Ready
    /\ inst' = [inst EXCEPT ![u] = "opening"]
    /\ Goto(u, "open_lock")
    /\ UNCHANGED <<platform, sharedVars, call, local, held, crashes>>

\* The destructor: Windows drops the mutex with its last handle, POSIX destroys
\* it unless it is locked.
CloseMutex(u) ==
    /\ pc[u] = "close_mutex"
    /\ mutex' =
         IF platform = "windows" THEN IF OthersClosed(u) THEN NoMutex ELSE mutex
         ELSE IF mutex.owner = None THEN [mutex EXCEPT !.state = "destroyed"] ELSE mutex
    /\ inst' = [inst EXCEPT ![u] = "closed"]
    /\ Goto(u, "idle")
    /\ UNCHANGED <<platform, sharedVars, call, local, held, crashes>>

-----------------------------------------------------------------------------
(* interprocess_shared_memory *)

\* The constructor takes the mutex, creates or opens the segment, which is
\* zeroed when new, maps it and releases the mutex; without the mutex it throws.
OpenLock(u) ==
    /\ LockTo(u, "open_lock", "open_map", "close_mutex")
    /\ UNCHANGED <<platform, inst, sharedVars, call, local, held, crashes>>

OpenMap(u) ==
    LET fresh == CHOOSE s \in Segments : s \notin Range(seg) \cup {named} IN
    /\ pc[u] = "open_map"
    /\ IF named = 0
       THEN /\ named' = fresh /\ seg' = [seg EXCEPT ![u] = fresh]
            /\ mem' = [mem EXCEPT ![fresh] = Empty]
            /\ current' = Empty
       ELSE seg' = [seg EXCEPT ![u] = named] /\ UNCHANGED <<named, mem, current>>
    /\ Goto(u, "open_unlock")
    /\ UNCHANGED <<platform, inst, mutex, call, local, held, crashes>>

OpenUnlock(u) ==
    /\ UnlockTo(u, "open_unlock", "idle")
    /\ inst' = [inst EXCEPT ![u] = "open"]
    /\ UNCHANGED <<platform, sharedVars, call, local, held, crashes>>

\* The destructor, which no call of the same instance overlaps.
Close(u) ==
    /\ inst[u] = "open" /\ pc[u] = "idle" /\ u \notin held
    /\ Separate \/ (held = {} /\ \A v \in Users : pc[v] = "idle")
    /\ inst' = [inst EXCEPT ![u] = "closing"]
    /\ Goto(u, "close_lock")
    /\ UNCHANGED <<platform, mutex, sharedVars, call, local, held, crashes>>

CloseLock(u) ==
    /\ LockTo(u, "close_lock", "close_map", "close_mutex")
    /\ UNCHANGED <<platform, inst, sharedVars, call, local, held, crashes>>

\* Mutant: the name goes with any instance.
FaultyFreed(u) == TRUE

\* POSIX unlinks the name; Windows frees the segment with its last handle.
Freed(u) == platform = "posix" \/ \A v \in Users \ {u} : seg[v] = 0

CloseMap(u) ==
    /\ pc[u] = "close_map"
    /\ seg' = [seg EXCEPT ![u] = 0]
    /\ named' = IF Freed(u) THEN 0 ELSE named
    /\ mem' = [s \in Segments |-> IF s \in Range(seg') \cup {named'} THEN mem[s] ELSE Empty]
    /\ Goto(u, "close_unlock")
    /\ UNCHANGED <<platform, inst, mutex, call, local, held, current, crashes>>

CloseUnlock(u) ==
    /\ UnlockTo(u, "close_unlock", "close_mutex")
    /\ UNCHANGED <<platform, inst, sharedVars, call, local, held, crashes>>

\* A process dies: Windows closes its handles and marks a mutex it owned as
\* abandoned; POSIX leaves the mutex locked and both names behind.
Crash(u) ==
    LET dead == IF Separate THEN {u} ELSE Users
        alive == {v \in Users \ dead : inst[v] # "closed"}
    IN  /\ inst[u] # "closed" /\ crashes < MaxCrashes
        /\ crashes' = crashes + 1
        /\ inst' = [v \in Users |-> IF v \in dead THEN "closed" ELSE inst[v]]
        /\ pc' = [v \in Users |-> IF v \in dead THEN "idle" ELSE pc[v]]
        /\ call' = [v \in Users |-> IF v \in dead THEN NoCall ELSE call[v]]
        /\ local' = [v \in Users |-> IF v \in dead THEN Empty ELSE local[v]]
        /\ held' = held \ dead
        /\ seg' = [v \in Users |-> IF v \in dead THEN 0 ELSE seg[v]]
        /\ IF platform = "posix" THEN UNCHANGED <<mutex, named, mem>>
           ELSE /\ mutex' = IF alive = {} THEN NoMutex
                            ELSE IF mutex.owner \in dead
                            THEN [state |-> "abandoned", owner |-> None, depth |-> 0]
                            ELSE mutex
                /\ named' = IF Range(seg') = {0} THEN 0 ELSE named
                /\ mem' = [s \in Segments |-> IF s = named' THEN mem[s] ELSE Empty]
        /\ UNCHANGED <<platform, current>>

-----------------------------------------------------------------------------
(* stable_interprocess_container and stable_interprocess_map *)

\* at, at_or_default, count, empty and size differ only in what they return:
\* each deserializes the map and is the operation "read".
Calls ==
    [op : {"insert", "update_or_insert", "assign"}, key : Keys, value : 0 .. MaxValue]
    \cup [op : {"erase", "update"}, key : Keys, value : {0}]
    \cup [op : {"read", "foreach", "clear", "hold"}, key : {None}, value : {0}]
Blind == {"assign", "clear"}   \* these write without reading

Deserialized(u) == mem[seg[Instance(u)]]

\* Calls, and get_lock_guard() ("hold").
StartCall(u) ==
    /\ pc[u] = "idle" /\ Usable(u)
    /\ \E c \in Calls :
        /\ c.op = "hold" => u \notin held
        /\ call' = [call EXCEPT ![u] = c]
    /\ Goto(u, "lock")
    /\ UNCHANGED <<platform, inst, mutex, sharedVars, local, held, crashes>>

Lock(u) ==
    /\ LockTo(u, "lock", CASE call[u].op = "hold" -> "idle"
                           [] call[u].op \in Blind -> "write"
                           [] OTHER -> "read", "idle")
    /\ held' = IF call[u].op = "hold" /\ MayLock(u) /\ mutex.state # "abandoned"
               THEN held \cup {u} ELSE held
    /\ call' = IF pc'[u] = "idle" THEN [call EXCEPT ![u] = NoCall] ELSE call
    /\ UNCHANGED <<platform, inst, sharedVars, local, crashes>>

\* deserialize()
Read(u) ==
    /\ pc[u] = "read"
    /\ local' = [local EXCEPT ![u] = Deserialized(u)]
    /\ Goto(u, IF call[u].op \in {"read", "foreach"} THEN "unlock" ELSE "write")
    /\ UNCHANGED <<platform, inst, mutex, sharedVars, call, held, crashes>>

\* What the calls make of the map m; the updater is the user's function.
Updater(v) == (v + 1) % (MaxValue + 1)
Inserted(m, k, v) == (k :> v) @@ m
Erased(m, k) == Restrict(m, DOMAIN m \ {k})
Assigned(k, v) == (k :> v)
Cleared == Empty
Updated(m, k) == IF k \in DOMAIN m THEN [m EXCEPT ![k] = Updater(@)] ELSE m
UpdatedOrInserted(m, k, v) ==
    IF k \in DOMAIN m THEN Updated(m, k) ELSE Inserted(m, k, v)

Changed(c, m) ==
    CASE c.op = "insert" -> Inserted(m, c.key, c.value)
      [] c.op = "erase" -> Erased(m, c.key)
      [] c.op = "clear" -> Cleared
      [] c.op = "assign" -> Assigned(c.key, c.value)
      [] c.op = "update" -> Updated(m, c.key)
      [] c.op = "update_or_insert" -> UpdatedOrInserted(m, c.key, c.value)
Fits(m) == Cardinality(DOMAIN m) <= Capacity

\* Mutant: the exception of serialize() leaves the mutex locked.
FaultyAfterWrite(m) == IF Fits(m) THEN "unlock" ELSE "idle"
AfterWrite(m) == "unlock"

\* serialize(); update() of a missing key throws before, and a map that does
\* not fit is not written: lock_guard releases the mutex in any case.
Write(u) ==
    LET m == Changed(call[u], local[u]) IN
    /\ pc[u] = "write"
    /\ IF Fits(m)
       THEN /\ mem' = [mem EXCEPT ![seg[Instance(u)]] = m]
            /\ current' = Changed(call[u], current)
       ELSE UNCHANGED <<mem, current>>
    /\ Goto(u, AfterWrite(m))
    /\ UNCHANGED <<platform, inst, mutex, named, seg, call, local, held, crashes>>

Unlock(u) ==
    /\ call[u].op # "foreach"
    /\ UnlockTo(u, "unlock", "idle")
    /\ local' = [local EXCEPT ![u] = Empty]
    /\ call' = [call EXCEPT ![u] = NoCall]
    /\ UNCHANGED <<platform, inst, sharedVars, held, crashes>>

\* foreach() gives the mutex up and then hands the items of its copy to the
\* user's function, one after the other, until that says to stop.
foreach(u) ==
    /\ call[u].op = "foreach"
    /\ \/ UnlockTo(u, "unlock", "each") /\ UNCHANGED <<call, local>>
       \/ /\ pc[u] = "each"
          /\ \E k \in DOMAIN local[u] : local' = [local EXCEPT ![u] = Erased(@, k)]
          /\ UNCHANGED <<pc, call, mutex>>
       \/ /\ pc[u] = "each"
          /\ Goto(u, "idle")
          /\ local' = [local EXCEPT ![u] = Empty]
          /\ call' = [call EXCEPT ![u] = NoCall]
          /\ UNCHANGED mutex
    /\ UNCHANGED <<platform, inst, sharedVars, held, crashes>>

\* The lock_guard of get_lock_guard() is destroyed.
Release(u) ==
    /\ u \in held /\ pc[u] = "idle"
    /\ UnlockTo(u, "idle", "idle")
    /\ held' = held \ {u}
    /\ UNCHANGED <<platform, inst, sharedVars, call, local, crashes>>

Proceed(u) ==
    \/ OpenLock(u) \/ OpenMap(u) \/ OpenUnlock(u)
    \/ CloseLock(u) \/ CloseMap(u) \/ CloseUnlock(u) \/ CloseMutex(u)
    \/ Lock(u) \/ Read(u) \/ Write(u) \/ Unlock(u) \/ foreach(u)

Next ==
    \E u \in Users : OpenMutex(u) \/ Close(u) \/ StartCall(u) \/ Crash(u)
                 \/ Release(u) \/ Proceed(u)

Spec == Init /\ [][Next]_vars

\* Every user keeps running, gives up its lock_guard eventually, and a mutex
\* that is free again and again is granted.
FairSpec == Spec /\ \A u \in Users : SF_vars(Proceed(u)) /\ SF_vars(Release(u))
-----------------------------------------------------------------------------
\* The calls of all users take effect one after the other: every mapped segment
\* holds the map that the completed calls have made, no update is lost, and a
\* map that does not fit leaves the old one untouched.
CallsAreAtomic ==
    \A u \in Users : seg[u] # 0 => mem[seg[u]] = current /\ Fits(current)

\* A user that keeps a lock_guard across several calls, as
\* stable_reference_buffer does, sees no change but its own.
GuardExcludesOthers ==
    [][\A u \in held :
          named # 0 /\ named' = named /\ mem'[named] # mem[named]
             => pc[u] = "write"]_vars

\* Every call, constructor and destructor returns unless a process has died.
CallsReturn ==
    \A u \in Users : pc[u] # "idle" ~> pc[u] = "idle" \/ crashes > 0

\* "The shared memory is destroyed when the last processes that uses it exits":
\* while an instance has it mapped, the name leads to it.
SegmentLivesWhileUsed == \A u \in Users : seg[u] # 0 => named = seg[u]
=============================================================================
