------------------------- MODULE ThreadSafeContainer -------------------------
(* container::thread_safe_container, thread_safe_map and thread_safe_set, and *)
(* the lifecycle::scoped_set that marks a container as being modified.        *)
(*                                                                            *)
(* The mutex is recursive and the element type is the user's: what it does in *)
(* a constructor, comparison or destructor may call the same container again. *)
(* A call enters (mutex, test, mark), is inside, where such code runs, and    *)
(* leaves (change, unmark, mutex).  Only the owner of the mutex reads or      *)
(* writes the rest, except that get_lock_guard tests the mark without it.     *)
EXTENDS Integers, Sequences, FiniteSets, Functions

CONSTANTS
    Threads, Keys, Values,
    Default,        \* \in Values: Value{}
    Nesting,        \* bound: calls of one thread inside each other
    None

\* No thread and no key is None, a Value{} is a value, and a call without a key
\* is written with any key.
ASSUME ContainerAssumption ==
    None \notin Threads \cup Keys /\ Default \in Values /\ Keys # {}

VARIABLES
    kind,           \* "map" or "set"
    container,      \* _container; a set maps its elements to Default
    modified,       \* _is_being_modified
    owner, depth,   \* _mutex
    frames,         \* the calls each thread is in, the innermost last
    guard,          \* the threads that hold a lock_guard
    position        \* an iterator that each such thread has got, or None

containerVars == <<kind, container, modified, owner, depth, frames, guard, position>>

ContainerInit ==
    /\ kind \in {"map", "set"} /\ container = <<>> /\ modified = FALSE
    /\ owner = None /\ depth = 0
    /\ frames = [t \in Threads |-> <<>>]
    /\ guard = {} /\ position = [t \in Threads |-> None]

-----------------------------------------------------------------------------
\* The calls that test the mark, those that keep it while they run, and those
\* that only look.  erase(key) of both, and insert of the set, make a temporary
\* scoped_set, which takes the mark back before the container is changed.
Keeping == IF kind = "map" THEN {"insert", "erase_at", "clear"}
           ELSE {"emplace", "clear"}
Momentary == IF kind = "map" THEN {"erase"} ELSE {"set_insert", "set_erase"}
Marked == IF kind = "map" THEN {"at", "index"} ELSE {}
Looking == IF kind = "map" THEN {"size", "count"} ELSE {"size", "contains"}
Testing == Keeping \cup Momentary \cup Marked

Inserted(k, v) ==
    IF k \in DOMAIN container THEN container
    ELSE [x \in DOMAIN container \cup {k} |-> IF x = k THEN v ELSE container[x]]
Indexed(k) == Inserted(k, Default)
Erased(k) == Restrict(container, DOMAIN container \ {k})
Cleared == <<>>

\* A set is a map whose values do not matter.
SetEmplaced(v) == Inserted(v, Default)
SetInserted(v) == Inserted(v, Default)
SetErased(v) == Erased(v)

\* _container after the call f; at, size, count and contains change nothing.
Changed(f) ==
    CASE f.op = "insert" -> Inserted(f.key, f.value)
      [] f.op = "emplace" -> SetEmplaced(f.key)
      [] f.op = "set_insert" -> SetInserted(f.key)
      [] f.op = "set_erase" -> SetErased(f.key)
      [] f.op = "index" -> Indexed(f.key)
      [] f.op \in {"erase", "erase_at"} -> Erased(f.key)
      [] f.op = "clear" -> Cleared
      [] OTHER -> container

Top(t) == frames[t][Len(frames[t])]
Below(t) == SubSeq(frames[t], 1, Len(frames[t]) - 1)
At(t, at) == frames[t] # <<>> /\ Top(t).at = at
Goto(t, f) == frames' = [frames EXCEPT ![t] = Append(Below(t), f)]
Pop(t) == frames' = [frames EXCEPT ![t] = Below(t)]

MayLock(t) == owner \in {None, t}
Locked(t) == owner' = t /\ depth' = depth + 1
Unlocked ==
    /\ depth' = depth - 1
    /\ owner' = IF depth = 1 THEN None ELSE owner

\* A thread calls, from its own code or from that of an element.
Call(t) ==
    /\ frames[t] = <<>> \/ (At(t, "inside") /\ Len(frames[t]) < Nesting)
    /\ \E op \in (Testing \ {"erase_at"}) \cup Looking, k \in Keys, v \in Values :
        /\ op # "insert" => v = Default
        /\ op \in {"clear", "size"} => k = CHOOSE x \in Keys : TRUE
        /\ frames' = [frames EXCEPT ![t] =
              Append(@, [op |-> op, key |-> k, value |-> v, at |-> "call", old |-> FALSE])]
    /\ UNCHANGED <<kind, container, modified, owner, depth, guard, position>>

\* erase(position) with an iterator that was got under the same lock_guard.
CallErase(t) ==
    /\ frames[t] = <<>> /\ t \in guard /\ position[t] # None
    /\ frames' = [frames EXCEPT ![t] = <<[op |-> "erase_at", key |-> position[t],
                     value |-> Default, at |-> "call", old |-> FALSE]>>]
    /\ UNCHANGED <<kind, container, modified, owner, depth, guard, position>>

\* Mutants: the test comes before the mutex; the mutex does not exclude; the
\* mark stays; the exception leaves the mutex locked (as often as it takes to
\* see it, so that the depth stays bounded).
FaultyRefused(t) == modified /\ Top(t).op \in Testing
FaultyMayEnter(t) == At(t, "call")
FaultyRestored(f) == TRUE
FaultyAfterThrow ==
    UNCHANGED owner /\ depth' = IF depth > Nesting THEN depth ELSE depth + 1

\* What the mutex waits for; whether the call throws once it has it.
MayEnter(t) == At(t, "call") /\ MayLock(t)
Refused(t) == MayEnter(t) /\ modified /\ Top(t).op \in Testing
Restored(f) == f.old
AfterThrow == UNCHANGED <<owner, depth>>

Throw(t) ==
    /\ At(t, "call") /\ Refused(t)
    /\ AfterThrow /\ Pop(t)
    /\ UNCHANGED <<kind, container, modified, guard, position>>

Enter(t) ==
    /\ MayEnter(t) /\ ~Refused(t)
    /\ Locked(t)
    /\ modified' = (modified \/ Top(t).op \in Keeping)
    /\ Goto(t, [Top(t) EXCEPT !.at = "inside", !.old = modified])
    /\ UNCHANGED <<kind, container, guard, position>>

\* ~scoped_set, then the mutex; an erased element takes its iterators with it.
Leave(t) ==
    /\ At(t, "inside")
    /\ container' = Changed(Top(t))
    /\ modified' = IF Top(t).op \in Keeping THEN Restored(Top(t)) ELSE modified
    /\ Unlocked /\ Pop(t)
    /\ position' = IF t \in guard /\ position[t] # None
                      /\ position[t] \notin DOMAIN container'
                   THEN [position EXCEPT ![t] = None] ELSE position
    /\ UNCHANGED <<kind, guard>>

-----------------------------------------------------------------------------
\* get_lock_guard: the mark is tested, and then the mutex taken; if the test
\* fails it throws and nothing changes.
CallGuard(t) ==
    /\ frames[t] = <<>> /\ t \notin guard /\ ~modified
    /\ frames' = [frames EXCEPT ![t] = <<[op |-> "guard", key |-> None,
                     value |-> None, at |-> "guard", old |-> FALSE]>>]
    /\ UNCHANGED <<kind, container, modified, owner, depth, guard, position>>

LockGuard(t) ==
    /\ At(t, "guard") /\ MayLock(t)
    /\ Locked(t) /\ Pop(t)
    /\ guard' = guard \cup {t}
    /\ UNCHANGED <<kind, container, modified, position>>

\* find(), or begin(), of the map and ++ on what it returns.
Find(t) ==
    /\ kind = "map" /\ t \in guard /\ frames[t] = <<>> /\ ~modified
    /\ \E k \in DOMAIN container : position' = [position EXCEPT ![t] = k]
    /\ UNCHANGED <<kind, container, modified, owner, depth, frames, guard>>

UnlockGuard(t) ==
    /\ t \in guard /\ frames[t] = <<>>
    /\ Unlocked
    /\ guard' = guard \ {t}
    /\ position' = [position EXCEPT ![t] = None]
    /\ UNCHANGED <<kind, container, modified, frames>>

Proceed(t) == Throw(t) \/ Enter(t) \/ LockGuard(t)
ContainerNext ==
    \E t \in Threads : Call(t) \/ CallErase(t) \/ CallGuard(t) \/ Find(t)
                   \/ UnlockGuard(t) \/ Proceed(t) \/ Leave(t)

\* Threads keep running, a mutex that is free again and again is granted, a
\* lock_guard is given up, and the element code of a call, at every level of
\* nesting, comes to an end.
ContainerFairness ==
    \A t \in Threads :
        /\ SF_containerVars(Proceed(t)) /\ SF_containerVars(UnlockGuard(t))
        /\ \A n \in 1 .. Nesting : SF_containerVars(Leave(t) /\ Len(frames[t]) = n)
-----------------------------------------------------------------------------
Inside(t) == {i \in DOMAIN frames[t] : frames[t][i].at = "inside"}

\* The container is marked exactly while a call that keeps the mark is inside,
\* however calls nest and throw, and only one thread is ever inside.
MarkIsExact ==
    /\ modified = \E t \in Threads : \E i \in Inside(t) : frames[t][i].op \in Keeping
    /\ Cardinality({t \in Threads : Inside(t) # {}}) <= 1

\* "This method is thread-safe and will block if another thread is currently
\* writing to the map": a call is refused only if its own thread, further out,
\* is modifying the container.
OnlyNestedCallsThrow ==
    [][\A t \in Threads :
          At(t, "call") /\ Len(frames'[t]) < Len(frames[t]) => Inside(t) # {}]_containerVars

\* "No other thread can modify the set while the lock is held": under a
\* lock_guard an iterator stays valid and no other thread changes anything.
GuardKeepsIterators ==
    [][\A t \in guard :
          /\ position[t] # None => position[t] \in DOMAIN container
          /\ container' # container => At(t, "inside")]_containerVars

\* Every call comes to an end, by a result or an exception.
ContainerCallsReturn == \A t \in Threads : frames[t] # <<>> ~> frames[t] = <<>>
=============================================================================
