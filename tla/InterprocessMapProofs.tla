------------------------ MODULE InterprocessMapProofs ------------------------
(* What is proved of stable_interprocess_map for any number of users, keys,   *)
(* crashes and any capacity, where processes that share a map run on Windows  *)
(* and the threads of a process on either system.                             *)
EXTENDS InterprocessMap, FiniteSetTheorems, TLAPS

\* The steps that need arithmetic, or many equalities, name SMT.
USE Zenon

(* The inductive invariant *)

\* The control points inside a call, those of the constructor and those of the
\* destructor, and those at which the mutex is locked.
InCall == {"lock", "read", "write", "unlock", "each"}
Opening == {"open_lock", "open_map", "open_unlock"}
Closing == {"close_lock", "close_map", "close_unlock"}
InMutex == {"open_map", "open_unlock", "close_map", "close_unlock",
            "read", "write", "unlock"}

Mutexes == [state : {"none", "ready", "abandoned", "destroyed"},
            owner : Users \cup {None}, depth : Nat]

TypeOK ==
    /\ platform \in {"windows", "posix"}
    /\ inst \in [Users -> {"closed", "opening", "open", "closing"}]
    /\ mutex \in Mutexes
    /\ named \in Segments \cup {0} /\ seg \in [Users -> Segments \cup {0}]
    /\ DOMAIN mem = Segments /\ DOMAIN local = Users /\ DOMAIN call = Users
    /\ pc \in [Users -> {"idle", "close_mutex"} \cup InCall \cup Opening \cup Closing]
    /\ held \subseteq Users

\* The state of an instance at the control points of its constructor and its
\* destructor.  A call, and a lock_guard, has an open instance to work with; an
\* open instance has mapped the segment.
InstanceInv ==
    \A u \in Users :
        /\ pc[u] \in Opening => inst[u] = "opening"
        /\ pc[u] \in Closing => inst[u] = "closing"
        /\ pc[u] = "close_mutex" => inst[u] \in {"opening", "closing"}
        /\ pc[u] \in InCall \/ u \in held => Usable(u)
        /\ inst[u] = "open" \/ pc[u] \in {"open_unlock", "close_lock", "close_map"}
              => seg[u] # 0

\* The threads of a process have one instance, a closed instance of theirs has
\* mapped nothing, and its mutex is neither abandoned nor, on Windows or while
\* there is an instance, destroyed: their lock() never fails.
SharedInv ==
    ~Separate =>
        /\ \A u, v \in Users : inst[u] # "closed" /\ inst[v] # "closed" => u = v
        /\ \A u \in Users : inst[u] = "closed" => seg[u] = 0
        /\ \A u \in Users : pc[u] \in {"close_unlock", "close_mutex"} => seg[u] = 0
        /\ mutex.state # "abandoned"
        /\ mutex.state = "destroyed"
              => platform = "posix" /\ \A u \in Users : inst[u] = "closed"

\* How often u has locked the mutex and will unlock it.
Locks(u) == (IF pc[u] \in InMutex THEN 1 ELSE 0) + (IF u \in held THEN 1 ELSE 0)

\* Only the owner of the mutex has locked it.  It may own it more often than it
\* will unlock it: lock() throws after an abandoned mutex was granted.
MutexInv ==
    /\ mutex.state = "none" => mutex.owner = None
    /\ \A u \in Users : IF mutex.owner = u THEN mutex.depth >= Locks(u) ELSE Locks(u) = 0

\* The name leads to the segment of all users, which holds the current map.
SegmentInv ==
    /\ \A u \in Users : seg[u] # 0 => named = seg[u]
    /\ named # 0 => mem[named] = current /\ Fits(current)

\* What a call has deserialized is still current when it serializes.
CopyInv ==
    \A u \in Users : pc[u] = "write" => call[u].op \in Blind \/ local[u] = current

IInv == TypeOK /\ InstanceInv /\ SharedInv /\ MutexInv /\ SegmentInv /\ CopyInv

-----------------------------------------------------------------------------
(* Facts the steps keep needing *)

\* A user that has locked the mutex owns it.
LEMMA LockedMeansOwner ==
    ASSUME TypeOK, MutexInv, NEW u \in Users, pc[u] \in InMutex \/ u \in held
    PROVE  /\ mutex.owner = u /\ mutex.owner # None /\ mutex.depth \in Nat \ {0}
           /\ \A v \in Users \ {u} : pc[v] \notin InMutex /\ v \notin held
<1>1. mutex.depth \in Nat
  BY DEF TypeOK, Mutexes
<1>2. Locks(u) \in {1, 2}
  BY SMT DEF Locks
<1>3. mutex.owner = u /\ mutex.depth >= Locks(u)
  BY <1>2, SMT DEF MutexInv
<1>4. ASSUME NEW v \in Users \ {u}
      PROVE  pc[v] \notin InMutex /\ v \notin held
  BY <1>3, SMT DEF MutexInv, Locks
<1> QED
  BY <1>1, <1>2, <1>3, <1>4, InterprocessAssumption, SMT

\* Nobody has locked a mutex without an owner.
LEMMA FreeMeansUnlocked ==
    ASSUME MutexInv, mutex.owner = None, NEW u \in Users
    PROVE  pc[u] \notin InMutex /\ u \notin held
BY InterprocessAssumption, SMT DEF MutexInv, Locks

\* What unlock() leaves of a mutex that is locked.
LEMMA ReleasedMutex ==
    ASSUME TypeOK, mutex.depth \in Nat \ {0}
    PROVE  /\ Released \in Mutexes /\ Released.state = mutex.state
           /\ Released.depth = mutex.depth - 1
           /\ Released.owner = IF mutex.depth = 1 THEN None ELSE mutex.owner
<1>1. mutex \in Mutexes
  BY DEF TypeOK
<1>2. CASE mutex.depth = 1
  <2>1. Released = [mutex EXCEPT !.depth = 0, !.owner = None]
    BY <1>2 DEF Released
  <2>2. /\ Released = [state |-> mutex.state, owner |-> None, depth |-> 0]
        /\ mutex.state \in {"none", "ready", "abandoned", "destroyed"}
    BY <1>1, <2>1 DEF Mutexes
  <2> QED
    BY <1>2, <2>2, SMT DEF Mutexes
<1>3. CASE mutex.depth # 1
  BY <1>1, <1>3, SMT DEF Released, Mutexes
<1> QED
  BY <1>2, <1>3

\* A constructor opens the named segment, or creates one: there is one left.
LEMMA OpenMapEffect ==
    ASSUME TypeOK, SegmentInv, NEW u \in Users, OpenMap(u)
    PROVE  /\ pc[u] = "open_map" /\ pc' = [pc EXCEPT ![u] = "open_unlock"]
           /\ UNCHANGED <<platform, inst, mutex, call, local, held, crashes>>
           /\ named # 0 => /\ seg' = [seg EXCEPT ![u] = named]
                           /\ UNCHANGED <<named, mem, current>>
           /\ named = 0 => \E s \in Segments :
                              /\ s # 0 /\ named' = s /\ seg' = [seg EXCEPT ![u] = s]
                              /\ mem' = [mem EXCEPT ![s] = Empty] /\ current' = Empty
<1> DEFINE fresh == CHOOSE s \in Segments : s \notin Range(seg) \cup {named}
<1>1. named = 0 => fresh \in Segments /\ fresh # 0
  <2> SUFFICES ASSUME named = 0
               PROVE  fresh \in Segments /\ fresh # 0
    OBVIOUS
  <2>1. Cardinality(Users) \in Nat
    BY FS_CardinalityType, InterprocessAssumption
  <2>2. 1 \in Segments /\ 0 \notin Segments
    BY <2>1, SMT DEF Segments
  <2>3. \A v \in Users : seg[v] = 0
    BY DEF SegmentInv
  <2>4. 1 \notin Range(seg) \cup {named}
    BY <2>3, SMT DEF Range, TypeOK
  <2> QED
    BY <2>2, <2>4
<1>2. /\ pc[u] = "open_map" /\ pc' = [pc EXCEPT ![u] = "open_unlock"]
      /\ UNCHANGED <<platform, inst, mutex, call, local, held, crashes>>
      /\ named # 0 => seg' = [seg EXCEPT ![u] = named] /\ UNCHANGED <<named, mem, current>>
      /\ named = 0 => /\ named' = fresh /\ seg' = [seg EXCEPT ![u] = fresh]
                      /\ mem' = [mem EXCEPT ![fresh] = Empty] /\ current' = Empty
  BY DEF OpenMap, Goto
<1> HIDE DEF fresh
<1> QED
  BY <1>1, <1>2

\* The instance a call works with has mapped the named segment.
LEMMA CallsFindSegment ==
    ASSUME TypeOK, InstanceInv, SegmentInv, NEW u \in Users, pc[u] \in InCall
    PROVE  seg[Instance(u)] = named /\ named # 0 /\ named \in Segments
<1>1. Instance(u) \in Users /\ inst[Instance(u)] = "open"
  BY DEF InstanceInv, Usable, Instance
<1> QED
  BY <1>1 DEF TypeOK, InstanceInv, SegmentInv

-----------------------------------------------------------------------------
(* Every step preserves each part of the invariant *)

\* Types.
LEMMA TypeOKStep ==
    ASSUME IInv, "posix" \notin Processes, [Next]_vars
    PROVE  TypeOK'
<1>0. TypeOK /\ MutexInv /\ SegmentInv
  BY DEF IInv
<1> USE InterprocessAssumption DEF TypeOK, Mutexes, InCall, Opening, Closing, InMutex
<1>1. CASE UNCHANGED vars  BY <1>0, <1>1 DEF vars, sharedVars, threadVars
<1>2. ASSUME NEW u \in Users, OpenMutex(u)
      PROVE  TypeOK'
  BY <1>2, <1>0 DEF OpenMutex, Goto, OthersClosed, Ready, sharedVars
<1>3. ASSUME NEW u \in Users, Close(u)
      PROVE  TypeOK'
  BY <1>3, <1>0 DEF Close, Goto, sharedVars
<1>4. ASSUME NEW u \in Users, StartCall(u)
      PROVE  TypeOK'
  BY <1>4, <1>0 DEF StartCall, Goto, sharedVars
<1>5. ASSUME NEW u \in Users, Crash(u)
      PROVE  TypeOK'
  BY <1>5, <1>0, SMT DEF Crash, NoMutex
<1>6. ASSUME NEW u \in Users, Release(u)
      PROVE  TypeOK'
  <2>1. mutex.depth \in Nat \ {0}
    BY <1>6, <1>0, LockedMeansOwner DEF Release, UnlockTo
  <2>2. mutex' \in Mutexes
    BY <1>6, <1>0, <2>1, ReleasedMutex DEF Release, UnlockTo
  <2> QED
    BY <1>6, <1>0, <2>2 DEF Release, UnlockTo, Goto, sharedVars
<1>7. ASSUME NEW u \in Users, OpenLock(u)
      PROVE  TypeOK'
  BY <1>7, <1>0, SMT DEF OpenLock, LockTo, MayLock, Goto, sharedVars
<1>8. ASSUME NEW u \in Users, OpenMap(u)
      PROVE  TypeOK'
  BY <1>8, <1>0, OpenMapEffect, SMT
<1>9. ASSUME NEW u \in Users, OpenUnlock(u)
      PROVE  TypeOK'
  <2>1. mutex.depth \in Nat \ {0}
    BY <1>9, <1>0, LockedMeansOwner DEF OpenUnlock, UnlockTo
  <2>2. mutex' \in Mutexes
    BY <1>9, <1>0, <2>1, ReleasedMutex DEF OpenUnlock, UnlockTo
  <2> QED
    BY <1>9, <1>0, <2>2 DEF OpenUnlock, UnlockTo, Goto, sharedVars
<1>10. ASSUME NEW u \in Users, CloseLock(u)
      PROVE  TypeOK'
  BY <1>10, <1>0, SMT DEF CloseLock, LockTo, MayLock, Goto, sharedVars
<1>11. ASSUME NEW u \in Users, CloseMap(u)
      PROVE  TypeOK'
  BY <1>11, <1>0 DEF CloseMap, Freed, Goto
<1>12. ASSUME NEW u \in Users, CloseUnlock(u)
      PROVE  TypeOK'
  <2>1. mutex.depth \in Nat \ {0}
    BY <1>12, <1>0, LockedMeansOwner DEF CloseUnlock, UnlockTo
  <2>2. mutex' \in Mutexes
    BY <1>12, <1>0, <2>1, ReleasedMutex DEF CloseUnlock, UnlockTo
  <2> QED
    BY <1>12, <1>0, <2>2 DEF CloseUnlock, UnlockTo, Goto, sharedVars
<1>13. ASSUME NEW u \in Users, CloseMutex(u)
      PROVE  TypeOK'
  BY <1>13, <1>0 DEF CloseMutex, NoMutex, OthersClosed, Goto, sharedVars
<1>14. ASSUME NEW u \in Users, Lock(u)
      PROVE  TypeOK'
  BY <1>14, <1>0, SMT DEF Lock, LockTo, MayLock, Goto, sharedVars
<1>15. ASSUME NEW u \in Users, Read(u)
      PROVE  TypeOK'
  BY <1>15, <1>0 DEF Read, Goto, sharedVars
<1>16. ASSUME NEW u \in Users, Write(u)
      PROVE  TypeOK'
  BY <1>16, <1>0 DEF Write, AfterWrite, Goto
<1>17. ASSUME NEW u \in Users, Unlock(u)
      PROVE  TypeOK'
  <2>1. mutex.depth \in Nat \ {0}
    BY <1>17, <1>0, LockedMeansOwner DEF Unlock, UnlockTo
  <2>2. mutex' \in Mutexes
    BY <1>17, <1>0, <2>1, ReleasedMutex DEF Unlock, UnlockTo
  <2> QED
    BY <1>17, <1>0, <2>2 DEF Unlock, UnlockTo, Goto, sharedVars
<1>18. ASSUME NEW u \in Users, foreach(u)
      PROVE  TypeOK'
  <2>1. mutex' = mutex \/ (mutex.depth \in Nat \ {0} /\ mutex' = Released)
    BY <1>18, <1>0, LockedMeansOwner DEF foreach, UnlockTo
  <2>2. mutex' \in Mutexes
    BY <1>0, <2>1, ReleasedMutex
  <2> QED
    BY <1>18, <1>0, <2>2 DEF foreach, UnlockTo, Goto, sharedVars
<1> QED
  BY <1>1, <1>2, <1>3, <1>4, <1>5, <1>6, <1>7, <1>8, <1>9, <1>10, <1>11, <1>12,
     <1>13, <1>14, <1>15, <1>16, <1>17, <1>18 DEF Next, Proceed

\* Constructors, destructors and calls follow their control points; nobody closes
\* an instance that a call works with.
LEMMA InstanceInvStep ==
    ASSUME IInv, "posix" \notin Processes, [Next]_vars
    PROVE  InstanceInv'
<1>0. TypeOK /\ InstanceInv /\ SharedInv /\ SegmentInv
  BY DEF IInv
<1> USE InterprocessAssumption DEF TypeOK, InCall, Opening, Closing, InMutex,
            InstanceInv, Usable, Separate
<1>1. CASE UNCHANGED vars  BY <1>0, <1>1 DEF vars, sharedVars, threadVars
<1>2. ASSUME NEW u \in Users, OpenMutex(u)
      PROVE  InstanceInv'
  BY <1>2, <1>0 DEF OpenMutex, Goto, OthersClosed, Ready, sharedVars
<1>3. ASSUME NEW u \in Users, Close(u)
      PROVE  InstanceInv'
  BY <1>3, <1>0 DEF Close, Goto, sharedVars
<1>4. ASSUME NEW u \in Users, StartCall(u)
      PROVE  InstanceInv'
  BY <1>4, <1>0 DEF StartCall, Goto, sharedVars
<1>5. ASSUME NEW u \in Users, Crash(u)
      PROVE  InstanceInv'
  BY <1>5, <1>0 DEF Crash, NoMutex
<1>6. ASSUME NEW u \in Users, Release(u)
      PROVE  InstanceInv'
  BY <1>6, <1>0 DEF Release, UnlockTo, Released, Goto, sharedVars
<1>7. ASSUME NEW u \in Users, OpenLock(u)
      PROVE  InstanceInv'
  BY <1>7, <1>0, SMT DEF OpenLock, LockTo, MayLock, Goto, sharedVars
<1>8. ASSUME NEW u \in Users, OpenMap(u)
      PROVE  InstanceInv'
  <2>1. /\ pc[u] = "open_map" /\ pc' = [pc EXCEPT ![u] = "open_unlock"]
        /\ UNCHANGED <<platform, inst, held>>
        /\ \E s \in Segments \cup {0} : s # 0 /\ seg' = [seg EXCEPT ![u] = s]
    BY <1>8, <1>0, OpenMapEffect, SMT
  <2> QED
    BY <1>0, <2>1
<1>9. ASSUME NEW u \in Users, OpenUnlock(u)
      PROVE  InstanceInv'
  BY <1>9, <1>0 DEF OpenUnlock, UnlockTo, Released, Goto, sharedVars
<1>10. ASSUME NEW u \in Users, CloseLock(u)
      PROVE  InstanceInv'
  BY <1>10, <1>0, SMT DEF CloseLock, LockTo, MayLock, Goto, sharedVars
<1>11. ASSUME NEW u \in Users, CloseMap(u)
      PROVE  InstanceInv'
  BY <1>11, <1>0 DEF CloseMap, Freed, Goto
<1>12. ASSUME NEW u \in Users, CloseUnlock(u)
      PROVE  InstanceInv'
  BY <1>12, <1>0 DEF CloseUnlock, UnlockTo, Released, Goto, sharedVars
<1>13. ASSUME NEW u \in Users, CloseMutex(u)
      PROVE  InstanceInv'
  BY <1>13, <1>0 DEF CloseMutex, NoMutex, OthersClosed, Goto, sharedVars
<1>14. ASSUME NEW u \in Users, Lock(u)
      PROVE  InstanceInv'
  BY <1>14, <1>0, SMT DEF Lock, LockTo, MayLock, Goto, sharedVars
<1>15. ASSUME NEW u \in Users, Read(u)
      PROVE  InstanceInv'
  BY <1>15, <1>0 DEF Read, Goto, sharedVars
<1>16. ASSUME NEW u \in Users, Write(u)
      PROVE  InstanceInv'
  BY <1>16, <1>0 DEF Write, AfterWrite, Goto
<1>17. ASSUME NEW u \in Users, Unlock(u)
      PROVE  InstanceInv'
  BY <1>17, <1>0 DEF Unlock, UnlockTo, Released, Goto, sharedVars
<1>18. ASSUME NEW u \in Users, foreach(u)
      PROVE  InstanceInv'
  BY <1>18, <1>0, SMT DEF foreach, UnlockTo, Released, Goto, sharedVars
<1> QED
  BY <1>1, <1>2, <1>3, <1>4, <1>5, <1>6, <1>7, <1>8, <1>9, <1>10, <1>11, <1>12,
     <1>13, <1>14, <1>15, <1>16, <1>17, <1>18 DEF Next, Proceed

\* The threads of a process.
LEMMA SharedInvStep ==
    ASSUME IInv, "posix" \notin Processes, [Next]_vars
    PROVE  SharedInv'
<1>0. TypeOK /\ InstanceInv /\ SharedInv /\ SegmentInv /\ MutexInv
  BY DEF IInv
<1> USE InterprocessAssumption DEF TypeOK, InCall, Opening, Closing, InMutex,
            InstanceInv, SharedInv, Usable, Separate
<1>1. CASE UNCHANGED vars  BY <1>0, <1>1 DEF vars, sharedVars, threadVars
<1>2. ASSUME NEW u \in Users, OpenMutex(u)
      PROVE  SharedInv'
  BY <1>2, <1>0, SMT DEF OpenMutex, Goto, OthersClosed, Ready, sharedVars
<1>3. ASSUME NEW u \in Users, Close(u)
      PROVE  SharedInv'
  <2>1. /\ inst[u] = "open" /\ inst' = [inst EXCEPT ![u] = "closing"]
        /\ pc' = [pc EXCEPT ![u] = "close_lock"] /\ UNCHANGED <<platform, mutex, seg>>
    BY <1>3 DEF Close, Goto, sharedVars
  <2> QED
    BY <1>0, <2>1
<1>4. ASSUME NEW u \in Users, StartCall(u)
      PROVE  SharedInv'
  BY <1>4, <1>0 DEF StartCall, Goto, sharedVars
<1>5. ASSUME NEW u \in Users, Crash(u)
      PROVE  SharedInv'
  BY <1>5, <1>0, SMT DEF Crash, NoMutex
<1>6. ASSUME NEW u \in Users, Release(u)
      PROVE  SharedInv'
  BY <1>6, <1>0, SMT DEF Release, UnlockTo, Released, Goto, sharedVars
<1>7. ASSUME NEW u \in Users, OpenLock(u)
      PROVE  SharedInv'
  BY <1>7, <1>0, SMT DEF OpenLock, LockTo, MayLock, Goto, sharedVars
<1>8. ASSUME NEW u \in Users, OpenMap(u)
      PROVE  SharedInv'
  <2>1. /\ pc[u] = "open_map" /\ pc' = [pc EXCEPT ![u] = "open_unlock"]
        /\ UNCHANGED <<platform, inst, mutex>>
        /\ \E s \in Segments \cup {0} : seg' = [seg EXCEPT ![u] = s]
    BY <1>8, <1>0, OpenMapEffect, SMT
  <2> QED
    BY <1>0, <2>1, SMT
<1>9. ASSUME NEW u \in Users, OpenUnlock(u)
      PROVE  SharedInv'
  BY <1>9, <1>0, SMT DEF OpenUnlock, UnlockTo, Released, Goto, sharedVars
<1>10. ASSUME NEW u \in Users, CloseLock(u)
      PROVE  SharedInv'
  BY <1>10, <1>0, SMT DEF CloseLock, LockTo, MayLock, Goto, sharedVars
<1>11. ASSUME NEW u \in Users, CloseMap(u)
      PROVE  SharedInv'
  BY <1>11, <1>0 DEF CloseMap, Freed, Goto
<1>12. ASSUME NEW u \in Users, CloseUnlock(u)
      PROVE  SharedInv'
  BY <1>12, <1>0, SMT DEF CloseUnlock, UnlockTo, Released, Goto, sharedVars
<1>13. ASSUME NEW u \in Users, CloseMutex(u)
      PROVE  SharedInv'
  <2>1. /\ pc[u] = "close_mutex" /\ inst' = [inst EXCEPT ![u] = "closed"]
        /\ pc' = [pc EXCEPT ![u] = "idle"] /\ UNCHANGED <<platform, seg>>
    BY <1>13 DEF CloseMutex, Goto, sharedVars
  <2>2. /\ mutex'.state \in {mutex.state, "none", "destroyed"}
        /\ platform = "windows" => mutex'.state \in {mutex.state, "none"}
    BY <1>13, <1>0 DEF CloseMutex, NoMutex, Mutexes
  <2> QED
    BY <1>0, <2>1, <2>2
<1>14. ASSUME NEW u \in Users, Lock(u)
      PROVE  SharedInv'
  BY <1>14, <1>0, SMT DEF Lock, LockTo, MayLock, Goto, sharedVars
<1>15. ASSUME NEW u \in Users, Read(u)
      PROVE  SharedInv'
  BY <1>15, <1>0 DEF Read, Goto, sharedVars
<1>16. ASSUME NEW u \in Users, Write(u)
      PROVE  SharedInv'
  BY <1>16, <1>0 DEF Write, AfterWrite, Goto
<1>17. ASSUME NEW u \in Users, Unlock(u)
      PROVE  SharedInv'
  BY <1>17, <1>0, SMT DEF Unlock, UnlockTo, Released, Goto, sharedVars
<1>18. ASSUME NEW u \in Users, foreach(u)
      PROVE  SharedInv'
  <2>1. mutex'.state = mutex.state
    BY <1>18, <1>0 DEF foreach, UnlockTo, Released, Mutexes
  <2>2. /\ pc' = pc \/ pc' = [pc EXCEPT ![u] = "each"] \/ pc' = [pc EXCEPT ![u] = "idle"]
        /\ UNCHANGED <<platform, inst, seg>>
    BY <1>18 DEF foreach, UnlockTo, Goto, sharedVars
  <2> QED
    BY <1>0, <2>1, <2>2, SMT
<1> QED
  BY <1>1, <1>2, <1>3, <1>4, <1>5, <1>6, <1>7, <1>8, <1>9, <1>10, <1>11, <1>12,
     <1>13, <1>14, <1>15, <1>16, <1>17, <1>18 DEF Next, Proceed

\* Only the owner has locked the mutex.
LEMMA MutexInvStep ==
    ASSUME IInv, "posix" \notin Processes, [Next]_vars
    PROVE  MutexInv'
<1>0. TypeOK /\ InstanceInv /\ SharedInv /\ MutexInv /\ SegmentInv
  BY DEF IInv
<1> USE InterprocessAssumption DEF TypeOK, Mutexes, InCall, Opening, Closing,
            InMutex, MutexInv, Locks, Separate
<1>1. CASE UNCHANGED vars  BY <1>0, <1>1 DEF vars, sharedVars, threadVars
<1>2. ASSUME NEW u \in Users, OpenMutex(u)
      PROVE  MutexInv'
  BY <1>2, <1>0, SMT DEF OpenMutex, InstanceInv, Usable, Goto, OthersClosed, Ready, sharedVars
<1>3. ASSUME NEW u \in Users, Close(u)
      PROVE  MutexInv'
  BY <1>3, <1>0 DEF Close, Goto, sharedVars
<1>4. ASSUME NEW u \in Users, StartCall(u)
      PROVE  MutexInv'
  BY <1>4, <1>0 DEF StartCall, Goto, sharedVars
<1>5. ASSUME NEW u \in Users, Crash(u)
      PROVE  MutexInv'
  <2>1. CASE ~Separate
    <3>1. \A v \in Users : pc'[v] = "idle" /\ v \notin held'
      BY <1>5, <1>0, <2>1 DEF Crash
    <3>2. /\ mutex'.depth >= 0
          /\ mutex'.state = "none" => mutex'.owner = None
      BY <1>5, <1>0, <2>1, SMT DEF Crash, NoMutex
    <3> QED
      BY <3>1, <3>2, SMT
  <2>2. CASE Separate
    <3>1. /\ pc' = [pc EXCEPT ![u] = "idle"] /\ held' = held \ {u}
          /\ \/ mutex' = NoMutex /\ \A v \in Users \ {u} : inst[v] = "closed"
             \/ mutex' = [state |-> "abandoned", owner |-> None, depth |-> 0] /\ mutex.owner = u
             \/ mutex' = mutex /\ mutex.owner # u
      BY <1>5, <1>0, <2>2 DEF Crash
    <3> QED
      BY <1>0, <2>2, <3>1, SMT DEF NoMutex, InstanceInv, Usable
  <2> QED
    BY <2>1, <2>2
<1>6. ASSUME NEW u \in Users, Release(u)
      PROVE  MutexInv'
  BY <1>6, <1>0, SMT DEF Release, UnlockTo, Released, Goto, sharedVars
<1>7. ASSUME NEW u \in Users, OpenLock(u)
      PROVE  MutexInv'
  BY <1>7, <1>0, SMT DEF OpenLock, LockTo, MayLock, Goto, sharedVars
<1>8. ASSUME NEW u \in Users, OpenMap(u)
      PROVE  MutexInv'
  BY <1>8, <1>0, OpenMapEffect, SMT
<1>9. ASSUME NEW u \in Users, OpenUnlock(u)
      PROVE  MutexInv'
  BY <1>9, <1>0, SMT DEF OpenUnlock, UnlockTo, Released, Goto, sharedVars
<1>10. ASSUME NEW u \in Users, CloseLock(u)
      PROVE  MutexInv'
  BY <1>10, <1>0, SMT DEF CloseLock, LockTo, MayLock, Goto, sharedVars
<1>11. ASSUME NEW u \in Users, CloseMap(u)
      PROVE  MutexInv'
  BY <1>11, <1>0 DEF CloseMap, Freed, Goto
<1>12. ASSUME NEW u \in Users, CloseUnlock(u)
      PROVE  MutexInv'
  BY <1>12, <1>0, SMT DEF CloseUnlock, UnlockTo, Released, Goto, sharedVars
<1>13. ASSUME NEW u \in Users, CloseMutex(u)
      PROVE  MutexInv'
  BY <1>13, <1>0, SMT DEF CloseMutex, InstanceInv, Usable, Goto, OthersClosed, NoMutex, sharedVars
<1>14. ASSUME NEW u \in Users, Lock(u)
      PROVE  MutexInv'
  <2>1. /\ pc[u] = "lock"
        /\ \A v \in Users \ {u} : pc'[v] = pc[v] /\ (v \in held' <=> v \in held)
    BY <1>14, <1>0 DEF Lock, LockTo, Goto
  <2>2. CASE mutex.state = "destroyed"
    <3>1. mutex' = mutex /\ pc' = [pc EXCEPT ![u] = "idle"] /\ held' = held
      BY <1>14, <2>2 DEF Lock, LockTo, MayLock, Goto
    <3> QED
      BY <1>0, <2>1, <3>1
  <2>3. CASE mutex.state # "destroyed"
    <3>1. /\ mutex.owner \in {None, u}
          /\ mutex' = [state |-> "ready", owner |-> u, depth |-> mutex.depth + 1]
      BY <1>14, <2>3 DEF Lock, LockTo, MayLock
    <3>2. ASSUME call[u].op = "hold"
          PROVE  Locks(u)' <= mutex.depth + 1
      <4>1. pc'[u] = "idle"
        BY <1>14, <1>0, <2>3, <3>2 DEF Lock, LockTo, Blind, Goto
      <4> QED
        BY <1>0, <4>1, SMT
    <3>3. ASSUME call[u].op # "hold"
          PROVE  Locks(u)' <= mutex.depth + 1
      <4>1. held' = held
        BY <1>14, <3>3 DEF Lock
      <4> QED
        BY <1>0, <2>1, <4>1, SMT
    <3>4. Locks(u)' <= mutex.depth + 1
      BY <3>2, <3>3
    <3>5. \A v \in Users \ {u} : Locks(v)' = 0
      BY <1>0, <2>1, <3>1, SMT
    <3> HIDE DEF Locks
    <3> QED
      BY <3>1, <3>4, <3>5
  <2> QED
    BY <2>2, <2>3
<1>15. ASSUME NEW u \in Users, Read(u)
      PROVE  MutexInv'
  BY <1>15, <1>0 DEF Read, Goto, sharedVars
<1>16. ASSUME NEW u \in Users, Write(u)
      PROVE  MutexInv'
  BY <1>16, <1>0 DEF Write, AfterWrite, Goto
<1>17. ASSUME NEW u \in Users, Unlock(u)
      PROVE  MutexInv'
  BY <1>17, <1>0, SMT DEF Unlock, UnlockTo, Released, Goto, sharedVars
<1>18. ASSUME NEW u \in Users, foreach(u)
      PROVE  MutexInv'
  <2>1. CASE UnlockTo(u, "unlock", "each")
    BY <1>18, <1>0, <2>1, SMT DEF foreach, UnlockTo, Released, Goto
  <2>2. CASE pc[u] = "each"
    <3>1. /\ mutex' = mutex /\ held' = held
          /\ pc' = pc \/ pc' = [pc EXCEPT ![u] = "idle"]
      BY <1>18, <2>2 DEF foreach, UnlockTo, Goto
    <3> QED
      BY <1>0, <2>2, <3>1, SMT
  <2> QED
    BY <1>18, <2>1, <2>2 DEF foreach
<1> QED
  BY <1>1, <1>2, <1>3, <1>4, <1>5, <1>6, <1>7, <1>8, <1>9, <1>10, <1>11, <1>12,
     <1>13, <1>14, <1>15, <1>16, <1>17, <1>18 DEF Next, Proceed

\* The name leads to the segment that is in use and holds the current map.
LEMMA SegmentInvStep ==
    ASSUME IInv, "posix" \notin Processes, [Next]_vars
    PROVE  SegmentInv'
<1>0. TypeOK /\ InstanceInv /\ SharedInv /\ MutexInv /\ SegmentInv /\ CopyInv
  BY DEF IInv
<1> USE DEF TypeOK, SegmentInv, Separate
<1>1. CASE UNCHANGED vars  BY <1>0, <1>1 DEF vars, sharedVars, threadVars
<1>2. ASSUME NEW u \in Users, OpenMutex(u)
      PROVE  SegmentInv'
  BY <1>2, <1>0 DEF OpenMutex, Goto, OthersClosed, Ready, sharedVars
<1>3. ASSUME NEW u \in Users, Close(u)
      PROVE  SegmentInv'
  BY <1>3, <1>0 DEF Close, Goto, sharedVars
<1>4. ASSUME NEW u \in Users, StartCall(u)
      PROVE  SegmentInv'
  BY <1>4, <1>0 DEF StartCall, Goto, sharedVars
<1>5. ASSUME NEW u \in Users, Crash(u)
      PROVE  SegmentInv'
  <2>1. CASE ~Separate
    <3>1. \A v \in Users : seg'[v] = 0
      BY <1>5, <1>0, <2>1 DEF Crash
    <3>2. platform = "posix" => UNCHANGED <<named, mem, current>>
      BY <1>5 DEF Crash
    <3>3. platform # "posix" => named' = 0
      <4> SUFFICES ASSUME platform # "posix"
                   PROVE  named' = 0
        OBVIOUS
      <4>1. Range(seg') = {0}
        BY <1>5, <3>1, <1>0 DEF Crash, Range
      <4> QED
        BY <1>5, <4>1 DEF Crash
    <3> QED
      BY <1>0, <3>1, <3>2, <3>3
  <2>2. CASE Separate
    <3>1. /\ seg' = [seg EXCEPT ![u] = 0] /\ UNCHANGED current
          /\ named' = (IF Range(seg') = {0} THEN 0 ELSE named)
          /\ mem' = [s \in Segments |-> IF s = named' THEN mem[s] ELSE Empty]
      BY <1>5, <1>0, <2>2 DEF Crash
    <3>2. \A v \in Users : seg'[v] # 0 => named' = named /\ seg'[v] = seg[v]
      BY <1>0, <3>1, SMT DEF Range
    <3>3. named' # 0 => named' = named /\ mem'[named'] = mem[named]
      BY <1>0, <3>1
    <3> QED
      BY <1>0, <3>1, <3>2, <3>3
  <2> QED
    BY <2>1, <2>2
<1>6. ASSUME NEW u \in Users, Release(u)
      PROVE  SegmentInv'
  BY <1>6, <1>0 DEF Release, UnlockTo, Released, Goto, sharedVars
<1>7. ASSUME NEW u \in Users, OpenLock(u)
      PROVE  SegmentInv'
  BY <1>7, <1>0 DEF OpenLock, LockTo, MayLock, Goto, sharedVars
<1>8. ASSUME NEW u \in Users, OpenMap(u)
      PROVE  SegmentInv'
  <2>1. Fits(Empty)
    BY InterprocessAssumption, FS_EmptySet, SMT DEF Fits, Empty
  <2> HIDE DEF Segments, Fits
  <2> QED
    BY <1>8, <1>0, <2>1, OpenMapEffect, SMT
<1>9. ASSUME NEW u \in Users, OpenUnlock(u)
      PROVE  SegmentInv'
  BY <1>9, <1>0 DEF OpenUnlock, UnlockTo, Released, Goto, sharedVars
<1>10. ASSUME NEW u \in Users, CloseLock(u)
      PROVE  SegmentInv'
  BY <1>10, <1>0 DEF CloseLock, LockTo, MayLock, Goto, sharedVars
<1>11. ASSUME NEW u \in Users, CloseMap(u)
      PROVE  SegmentInv'
  <2>1. /\ seg' = [seg EXCEPT ![u] = 0] /\ named' = (IF Freed(u) THEN 0 ELSE named)
        /\ mem' = [s \in Segments |-> IF s \in Range(seg') \cup {named'} THEN mem[s] ELSE Empty]
        /\ pc[u] = "close_map" /\ UNCHANGED <<platform, current>>
    BY <1>11 DEF CloseMap
  <2>2. named' # 0 => named' = named /\ mem'[named'] = mem[named]
    BY <1>0, <2>1
  <2>3. \A v \in Users \ {u} : seg[v] # 0 => ~Freed(u)
    <3>1. CASE platform = "windows"
      BY <3>1 DEF Freed
    <3>2. CASE platform = "posix"
      <4>1. \A v \in Users \ {u} : inst[v] = "closed"
        BY <1>0, <2>1, <3>2 DEF InstanceInv, SharedInv, Closing
      <4> QED
        BY <1>0, <3>2, <4>1 DEF SharedInv
    <3> QED
      BY <1>0, <3>1, <3>2
  <2> QED
    BY <1>0, <2>1, <2>2, <2>3
<1>12. ASSUME NEW u \in Users, CloseUnlock(u)
      PROVE  SegmentInv'
  BY <1>12, <1>0 DEF CloseUnlock, UnlockTo, Released, Goto, sharedVars
<1>13. ASSUME NEW u \in Users, CloseMutex(u)
      PROVE  SegmentInv'
  BY <1>13, <1>0 DEF CloseMutex, NoMutex, OthersClosed, Goto, sharedVars
<1>14. ASSUME NEW u \in Users, Lock(u)
      PROVE  SegmentInv'
  BY <1>14, <1>0 DEF Lock, LockTo, MayLock, Goto, sharedVars
<1>15. ASSUME NEW u \in Users, Read(u)
      PROVE  SegmentInv'
  BY <1>15, <1>0 DEF Read, Goto, sharedVars
<1>16. ASSUME NEW u \in Users, Write(u)
      PROVE  SegmentInv'
  <2> DEFINE m == Changed(call[u], local[u])
  <2>1. /\ pc[u] = "write" /\ UNCHANGED <<named, seg>>
        /\ Fits(m) => /\ mem' = [mem EXCEPT ![seg[Instance(u)]] = m]
                      /\ current' = Changed(call[u], current)
        /\ ~Fits(m) => UNCHANGED <<mem, current>>
    BY <1>16 DEF Write
  <2>2. m = Changed(call[u], current)
    BY <1>0, <2>1 DEF CopyInv, Changed, Blind
  <2>3. seg[Instance(u)] = named /\ named # 0 /\ named \in Segments
    BY <1>0, <2>1, CallsFindSegment DEF InCall
  <2> HIDE DEF m
  <2> QED
    BY <1>0, <2>1, <2>2, <2>3
<1>17. ASSUME NEW u \in Users, Unlock(u)
      PROVE  SegmentInv'
  BY <1>17, <1>0 DEF Unlock, UnlockTo, Released, Goto, sharedVars
<1>18. ASSUME NEW u \in Users, foreach(u)
      PROVE  SegmentInv'
  BY <1>18, <1>0 DEF foreach, UnlockTo, Released, Goto, sharedVars
<1> QED
  BY <1>1, <1>2, <1>3, <1>4, <1>5, <1>6, <1>7, <1>8, <1>9, <1>10, <1>11, <1>12,
     <1>13, <1>14, <1>15, <1>16, <1>17, <1>18 DEF Next, Proceed

\* Nobody changes the map between deserialize() and serialize() of another.
LEMMA CopyInvStep ==
    ASSUME IInv, "posix" \notin Processes, [Next]_vars
    PROVE  CopyInv'
<1>0. TypeOK /\ InstanceInv /\ SharedInv /\ MutexInv /\ SegmentInv /\ CopyInv
  BY DEF IInv
<1> USE DEF TypeOK, CopyInv, InMutex
<1>1. CASE UNCHANGED vars  BY <1>0, <1>1 DEF vars, sharedVars, threadVars
<1>2. ASSUME NEW u \in Users, OpenMutex(u)
      PROVE  CopyInv'
  BY <1>2, <1>0 DEF OpenMutex, Goto, OthersClosed, Ready, sharedVars
<1>3. ASSUME NEW u \in Users, Close(u)
      PROVE  CopyInv'
  BY <1>3, <1>0 DEF Close, Goto, sharedVars
<1>4. ASSUME NEW u \in Users, StartCall(u)
      PROVE  CopyInv'
  BY <1>4, <1>0 DEF StartCall, Goto, sharedVars
<1>5. ASSUME NEW u \in Users, Crash(u)
      PROVE  CopyInv'
  BY <1>5, <1>0 DEF Crash, NoMutex
<1>6. ASSUME NEW u \in Users, Release(u)
      PROVE  CopyInv'
  BY <1>6, <1>0 DEF Release, UnlockTo, Released, Goto, sharedVars
<1>7. ASSUME NEW u \in Users, OpenLock(u)
      PROVE  CopyInv'
  BY <1>7, <1>0 DEF OpenLock, LockTo, MayLock, Goto, sharedVars
<1>8. ASSUME NEW u \in Users, OpenMap(u)
      PROVE  CopyInv'
  <2>1. pc[u] = "open_map"
    BY <1>8, <1>0, OpenMapEffect
  <2>2. \A v \in Users : pc[v] # "write"
    BY <1>0, <2>1, LockedMeansOwner
  <2> QED
    BY <1>8, <1>0, <2>2, OpenMapEffect
<1>9. ASSUME NEW u \in Users, OpenUnlock(u)
      PROVE  CopyInv'
  BY <1>9, <1>0 DEF OpenUnlock, UnlockTo, Released, Goto, sharedVars
<1>10. ASSUME NEW u \in Users, CloseLock(u)
      PROVE  CopyInv'
  BY <1>10, <1>0 DEF CloseLock, LockTo, MayLock, Goto, sharedVars
<1>11. ASSUME NEW u \in Users, CloseMap(u)
      PROVE  CopyInv'
  BY <1>11, <1>0 DEF CloseMap, Freed, Goto
<1>12. ASSUME NEW u \in Users, CloseUnlock(u)
      PROVE  CopyInv'
  BY <1>12, <1>0 DEF CloseUnlock, UnlockTo, Released, Goto, sharedVars
<1>13. ASSUME NEW u \in Users, CloseMutex(u)
      PROVE  CopyInv'
  BY <1>13, <1>0 DEF CloseMutex, NoMutex, OthersClosed, Goto, sharedVars
<1>14. ASSUME NEW u \in Users, Lock(u)
      PROVE  CopyInv'
  <2>1. /\ \A v \in Users \ {u} : pc'[v] = pc[v] /\ call'[v] = call[v]
        /\ local' = local /\ current' = current
    BY <1>14, <1>0 DEF Lock, LockTo, Goto, sharedVars
  <2>2. pc'[u] = "write" => call' = call /\ call[u].op \in Blind
    BY <1>14, <1>0 DEF Lock, LockTo, Blind, Goto
  <2> QED
    BY <1>0, <2>1, <2>2
<1>15. ASSUME NEW u \in Users, Read(u)
      PROVE  CopyInv'
  <2>1. /\ pc[u] = "read" /\ local' = [local EXCEPT ![u] = mem[seg[Instance(u)]]]
        /\ \A v \in Users \ {u} : pc'[v] = pc[v]
        /\ UNCHANGED <<call, current>>
    BY <1>15, <1>0 DEF Read, Deserialized, Goto, sharedVars
  <2>2. mem[seg[Instance(u)]] = current
    BY <1>0, <2>1, CallsFindSegment DEF InCall, SegmentInv
  <2> QED
    BY <1>0, <2>1, <2>2
<1>16. ASSUME NEW u \in Users, Write(u)
      PROVE  CopyInv'
  <2>1. /\ pc[u] = "write" /\ pc' = [pc EXCEPT ![u] = "unlock"]
        /\ UNCHANGED <<call, local>>
    BY <1>16 DEF Write, AfterWrite, Goto
  <2>2. \A v \in Users \ {u} : pc[v] # "write"
    BY <1>0, <2>1, LockedMeansOwner
  <2> QED
    BY <1>0, <2>1, <2>2
<1>17. ASSUME NEW u \in Users, Unlock(u)
      PROVE  CopyInv'
  BY <1>17, <1>0 DEF Unlock, UnlockTo, Released, Goto, sharedVars
<1>18. ASSUME NEW u \in Users, foreach(u)
      PROVE  CopyInv'
  BY <1>18, <1>0 DEF foreach, UnlockTo, Released, Goto, sharedVars
<1> QED
  BY <1>1, <1>2, <1>3, <1>4, <1>5, <1>6, <1>7, <1>8, <1>9, <1>10, <1>11, <1>12,
     <1>13, <1>14, <1>15, <1>16, <1>17, <1>18 DEF Next, Proceed

-----------------------------------------------------------------------------
(* The theorems *)

\* Processes do not share a map on POSIX systems.
WindowsProcesses == "posix" \notin Processes

LEMMA InvInit ==
    ASSUME Init
    PROVE  IInv
<1> USE InterprocessAssumption DEF Init
<1>1. TypeOK
  BY DEF TypeOK, Mutexes, NoMutex, InCall, Opening, Closing
<1>2. InstanceInv
  BY DEF InstanceInv, InCall, Opening, Closing
<1>3. SharedInv
  BY DEF SharedInv, NoMutex
<1>4. MutexInv
  BY SMT DEF MutexInv, NoMutex, Locks, InMutex
<1>5. SegmentInv /\ CopyInv
  BY DEF SegmentInv, CopyInv
<1> QED
  BY <1>1, <1>2, <1>3, <1>4, <1>5 DEF IInv

\* The invariant of all users, instances, the mutex and the shared memory.
THEOREM Invariant == WindowsProcesses /\ Spec => []IInv
<1> SUFFICES ASSUME WindowsProcesses
             PROVE  Spec => []IInv
  OBVIOUS
<1>1. Init => IInv
  BY InvInit
<1>2. IInv /\ [Next]_vars => IInv'
  BY TypeOKStep, InstanceInvStep, SharedInvStep, MutexInvStep, SegmentInvStep,
     CopyInvStep DEF IInv, WindowsProcesses
<1> QED
  BY <1>1, <1>2, PTL DEF Spec

\* CallsAreAtomic: a call takes the mutex, deserializes, serializes and releases
\* the mutex, and no other user's call, constructor or destructor comes between:
\* the mapped segments hold what the completed calls have made of the map.
THEOREM CallsAtomic == WindowsProcesses /\ Spec => []CallsAreAtomic
<1>1. IInv => CallsAreAtomic
  BY DEF IInv, SegmentInv, CallsAreAtomic
<1> QED
  BY <1>1, Invariant, PTL

\* SegmentLivesWhileUsed: the name is not removed, by a destructor or the end of a
\* process, while another instance has the shared memory mapped.
THEOREM SegmentLives == WindowsProcesses /\ Spec => []SegmentLivesWhileUsed
<1>1. IInv => SegmentLivesWhileUsed
  BY DEF IInv, SegmentInv, SegmentLivesWhileUsed
<1> QED
  BY <1>1, Invariant, PTL

\* What GuardExcludesOthers says of a step.
GuardStep ==
    \A u \in held :
        named # 0 /\ named' = named /\ mem'[named] # mem[named] => pc[u] = "write"

\* A step that changes the map behind the name is a Write, and its user owns the
\* mutex: a user with a lock_guard is that user.
LEMMA GuardStepHolds ==
    ASSUME IInv, [Next]_vars
    PROVE  GuardStep
<1>0. TypeOK /\ MutexInv /\ SegmentInv
  BY DEF IInv
<1>1. CASE UNCHANGED mem
  BY <1>1 DEF GuardStep
<1>2. ASSUME NEW u \in Users, Crash(u)
      PROVE  GuardStep
  BY <1>0, <1>2 DEF Crash, GuardStep, TypeOK
<1>3. ASSUME NEW u \in Users, OpenMap(u)
      PROVE  GuardStep
  BY <1>0, <1>3, OpenMapEffect DEF GuardStep
<1>4. ASSUME NEW u \in Users, CloseMap(u)
      PROVE  GuardStep
  BY <1>0, <1>4 DEF CloseMap, GuardStep, TypeOK
<1>5. ASSUME NEW u \in Users, Write(u)
      PROVE  GuardStep
  <2>1. pc[u] = "write"
    BY <1>5 DEF Write
  <2>2. \A v \in held : v = u
    BY <1>0, <2>1, LockedMeansOwner DEF TypeOK, InMutex
  <2> QED
    BY <2>1, <2>2 DEF GuardStep
<1>6. ASSUME NEW u \in Users,
             \/ OpenMutex(u) \/ Close(u) \/ StartCall(u) \/ Release(u)
             \/ OpenLock(u) \/ OpenUnlock(u) \/ CloseLock(u) \/ CloseUnlock(u)
             \/ CloseMutex(u) \/ Lock(u) \/ Read(u) \/ Unlock(u) \/ foreach(u)
      PROVE  UNCHANGED mem
  BY <1>6 DEF OpenMutex, Close, StartCall, Release, OpenLock, OpenUnlock, CloseLock,
              CloseUnlock, CloseMutex, Lock, Read, Unlock, foreach, sharedVars
<1>7. CASE UNCHANGED vars
  BY <1>1, <1>7 DEF vars, sharedVars
<1> QED
  BY <1>1, <1>2, <1>3, <1>4, <1>5, <1>6, <1>7 DEF Next, Proceed

\* GuardExcludesOthers: while a user keeps the lock_guard of get_lock_guard()
\* across its calls, the map changes by its own calls only.
THEOREM GuardExcludes == WindowsProcesses /\ Spec => GuardExcludesOthers
<1>1. IInv /\ [Next]_vars => [GuardStep]_vars
  BY GuardStepHolds
<1> QED
  BY <1>1, Invariant, PTL DEF Spec, GuardExcludesOthers, GuardStep

=============================================================================
