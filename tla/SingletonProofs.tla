--------------------------- MODULE SingletonProofs ---------------------------
(* What is proved of singleton and singleton_control for any threads, names,  *)
(* types and operations.                                                      *)
EXTENDS Singleton, FiniteSetTheorems, TLAPS

(* The inductive invariant *)

Arguments == [name : Names \cup {None}, type : Types \cup {None}]

TypeOK ==
    /\ mutex \in Threads \cup {None}
    /\ instances \in [Names -> Made \cup {Null, None}]
    /\ \E k \in Nat : Made = 1 .. k
    /\ pc \in [Threads -> {"idle", "get", "construct", "nested", "release", "reset",
                           "resetting"}]
    /\ want \in [Threads -> Arguments]
    /\ DOMAIN refs = Threads /\ DOMAIN found = Threads
    /\ epoch \in [Names -> Nat]

\* The threads that construct or destroy have the mutex, and the one that
\* constructs has an empty entry in the map.
MutexInv ==
    \A t \in Threads :
        /\ pc[t] \in {"construct", "nested", "resetting"} => mutex = t
        /\ pc[t] \in {"get", "construct", "release"} => want[t].name \in Names
        /\ pc[t] = "construct" => instances[want[t].name] = Null

\* What get() has returned was in the map when the name had been removed
\* `epoch' times.
FoundInv ==
    \A t \in Threads :
        LET f == found[t] IN
        f.object # None =>
            /\ f.object \in Made /\ typeOf[f.object] = f.type
            /\ f.name \in Names /\ f.epoch \in Nat /\ f.epoch <= epoch[f.name]
            /\ f.epoch = epoch[f.name] => instances[f.name] = f.object

\* Two calls of get() between the same removals have returned the same object.
AgreeInv ==
    \A t, u \in Threads :
        LET f == found[t]  g == found[u] IN
        f.object # None /\ g.object # None /\ f.name = g.name /\ f.epoch = g.epoch
            => f.object = g.object

IInv == TypeOK /\ MutexInv /\ FoundInv /\ AgreeInv

-----------------------------------------------------------------------------
(* Facts the steps keep needing *)

\* The object that get() is about to make is a new one.
LEMMA FreshObject ==
    ASSUME TypeOK
    PROVE  /\ Cardinality(Made) + 1 \in Nat /\ Cardinality(Made) + 1 \notin Made
           /\ \E k \in Nat : Made \cup {Cardinality(Made) + 1} = 1 .. k
<1>1. PICK k \in Nat : Made = 1 .. k
  BY DEF TypeOK
<1>2. Cardinality(1 .. k) = k
  BY FS_Interval
<1>3. Made \cup {k + 1} = 1 .. k + 1 /\ k + 1 \notin Made /\ k + 1 \in Nat
  BY <1>1
<1> QED
  BY <1>1, <1>2, <1>3

\* What the constructor's success changes, for the new object.
LEMMA ConstructEffect ==
    ASSUME TypeOK, MutexInv, NEW t \in Threads, Construct(t)
    PROVE  \E o \in Nat :
             /\ o \notin Made /\ Made' = Made \cup {o} /\ (\E k \in Nat : Made' = 1 .. k)
             /\ typeOf'[o] = want[t].type /\ \A p \in Made : typeOf'[p] = typeOf[p]
             /\ instances' = [instances EXCEPT ![want[t].name] = o]
             /\ pc[t] = "construct" /\ pc' = [pc EXCEPT ![t] = "idle"]
             /\ want[t].name \in Names /\ instances[want[t].name] = Null
             /\ refs' = [refs EXCEPT ![t] = @ \cup {o}]
             /\ found' = [found EXCEPT ![t] =
                   [object |-> o, name |-> want[t].name, type |-> want[t].type,
                    epoch |-> epoch[want[t].name]]]
             /\ mutex = t /\ mutex' = None /\ UNCHANGED <<want, epoch>>
<1> DEFINE o == Cardinality(Made) + 1
<1>1. o \in Nat /\ o \notin Made /\ \E k \in Nat : Made \cup {o} = 1 .. k
  BY FreshObject
<1>2. /\ pc[t] = "construct" /\ pc' = [pc EXCEPT ![t] = "idle"]
      /\ instances' = [instances EXCEPT ![want[t].name] = o]
      /\ typeOf' = [p \in Made \cup {o} |-> IF p = o THEN want[t].type ELSE typeOf[p]]
      /\ refs' = [refs EXCEPT ![t] = @ \cup {o}]
      /\ found' = [found EXCEPT ![t] =
            [object |-> o, name |-> want[t].name, type |-> want[t].type,
             epoch |-> epoch[want[t].name]]]
      /\ mutex' = None /\ UNCHANGED <<want, epoch>>
  BY DEF Construct, Return, Goto
<1>3. mutex = t /\ want[t].name \in Names /\ instances[want[t].name] = Null
  BY <1>2 DEF MutexInv
<1> HIDE DEF o
<1>4. /\ Made' = Made \cup {o} /\ typeOf'[o] = want[t].type
      /\ \A p \in Made : typeOf'[p] = typeOf[p]
  BY <1>1, <1>2 DEF Made
<1> QED
  BY <1>1, <1>2, <1>3, <1>4, Zenon

\* release() and reset() remove a name: an object removed counts.
LEMMA EraseKeepsInv ==
    ASSUME TypeOK, FoundInv, AgreeInv, NEW n \in Names, Erase(n),
           UNCHANGED <<typeOf, found>>
    PROVE  FoundInv' /\ AgreeInv'
<1>1. \A m \in Names : epoch[m] \in Nat
  BY DEF TypeOK
<1>2. /\ \A m \in Names \ {n} : epoch'[m] = epoch[m] /\ instances'[m] = instances[m]
      /\ epoch'[n] = IF instances[n] \in Made THEN epoch[n] + 1 ELSE epoch[n]
  BY DEF Erase, TypeOK
<1>3. ASSUME NEW t \in Threads, found[t].object # None
      PROVE  LET f == found[t] IN
             /\ f.object \in Made /\ typeOf[f.object] = f.type
             /\ f.name \in Names /\ f.epoch \in Nat /\ f.epoch <= epoch'[f.name]
             /\ f.epoch = epoch'[f.name] => instances'[f.name] = f.object
  BY <1>1, <1>2, <1>3 DEF FoundInv
<1>4. FoundInv'
  BY <1>3 DEF FoundInv, Made
<1> QED
  BY <1>4 DEF AgreeInv

LEMMA EraseTypes ==
    ASSUME TypeOK, NEW n \in Names, Erase(n)
    PROVE  instances' \in [Names -> Made \cup {Null, None}] /\ epoch' \in [Names -> Nat]
<1>1. epoch[n] + 1 \in Nat
  BY DEF TypeOK
<1> QED
  BY <1>1 DEF Erase, TypeOK

\* get() of thread t has returned nothing, or what the map has for a name.
LEMMA ReturnKeepsInv ==
    ASSUME FoundInv, AgreeInv, NEW t \in Threads, UNCHANGED <<typeOf, instances, epoch>>,
           \A u \in Threads \ {t} : found'[u] = found[u],
           \/ found'[t].object = None
           \/ /\ found'[t].object \in Made /\ typeOf[found'[t].object] = found'[t].type
              /\ found'[t].name \in Names /\ found'[t].epoch = epoch[found'[t].name]
              /\ found'[t].epoch \in Nat /\ found'[t].object = instances[found'[t].name]
    PROVE  FoundInv' /\ AgreeInv'
<1>1. ASSUME NEW u \in Threads, found'[u].object # None
      PROVE  /\ found'[u].object \in Made /\ typeOf[found'[u].object] = found'[u].type
             /\ found'[u].name \in Names /\ found'[u].epoch \in Nat
             /\ found'[u].epoch <= epoch[found'[u].name]
             /\ found'[u].epoch = epoch[found'[u].name]
                   => instances[found'[u].name] = found'[u].object
  <2>1. CASE u = t
    BY <1>1, <2>1
  <2>2. CASE u # t
    BY <1>1, <2>2 DEF FoundInv
  <2> QED
    BY <2>1, <2>2
<1>2. FoundInv'
  BY <1>1 DEF FoundInv, Made
<1>3. ASSUME NEW u \in Threads, NEW v \in Threads,
             found'[u].object # None, found'[v].object # None,
             found'[u].name = found'[v].name, found'[u].epoch = found'[v].epoch
      PROVE  found'[u].object = found'[v].object
  <2>1. CASE u = t \/ v = t
    BY <1>1, <1>3, <2>1
  <2>2. CASE u # t /\ v # t
    BY <1>3, <2>2 DEF AgreeInv
  <2> QED
    BY <2>1, <2>2
<1>4. AgreeInv'
  BY <1>3 DEF AgreeInv
<1> QED
  BY <1>2, <1>4

-----------------------------------------------------------------------------
(* Every step preserves each part of the invariant *)

\* Types.
LEMMA TypeOKStep ==
    ASSUME IInv, [Next]_vars
    PROVE  TypeOK'
<1>0. TypeOK /\ MutexInv
  BY DEF IInv
<1> USE SingletonAssumption DEF TypeOK, Arguments, Made
<1>1. CASE UNCHANGED vars  BY <1>0, <1>1 DEF vars
<1>2. ASSUME NEW t \in Threads, StartGet(t)
      PROVE  TypeOK'
  <2>1. PICK n \in Names, ty \in Types :
           want' = [want EXCEPT ![t] = [name |-> n, type |-> ty]]
    BY <1>2, Zenon DEF StartGet
  <2>2. want' \in [Threads -> Arguments]
    BY <1>0, <2>1
  <2> QED
    BY <1>2, <1>0, <2>2, Zenon DEF StartGet, Goto
<1>3. ASSUME NEW t \in Threads, StartRelease(t)
      PROVE  TypeOK'
  <2>1. PICK n \in Names : want' = [want EXCEPT ![t] = [name |-> n, type |-> None]]
    BY <1>3, Zenon DEF StartRelease
  <2>2. want' \in [Threads -> Arguments]
    BY <1>0, <2>1
  <2> QED
    BY <1>3, <1>0, <2>2, Zenon DEF StartRelease, Goto
<1>4. ASSUME NEW t \in Threads, StartReset(t)
      PROVE  TypeOK'
  BY <1>4, <1>0, Zenon DEF StartReset, Goto
<1>5. ASSUME NEW t \in Threads, set_operational(t)
      PROVE  TypeOK'
  BY <1>5, <1>0, Zenon DEF set_operational, threadVars
<1>6. ASSUME NEW t \in Threads, Drop(t)
      PROVE  TypeOK'
  BY <1>6, <1>0, Zenon DEF Drop
<1>7. ASSUME NEW t \in Threads, GetExisting(t)
      PROVE  TypeOK'
  BY <1>7, <1>0, Zenon DEF GetExisting, Return, RightType, Missing, Goto
<1>8. ASSUME NEW t \in Threads, GetMissing(t)
      PROVE  TypeOK'
  BY <1>8, <1>0, Zenon DEF GetMissing, Missing, Free, Goto
<1>9. ASSUME NEW t \in Threads, Construct(t)
      PROVE  TypeOK'
  BY <1>9, <1>0, ConstructEffect, Zenon
<1>10. ASSUME NEW t \in Threads, ConstructThrows(t)
      PROVE  TypeOK'
  BY <1>10, <1>0 DEF ConstructThrows, Goto
<1>11. ASSUME NEW t \in Threads, Release(t)
      PROVE  TypeOK'
  <2>1. UNCHANGED <<instances, epoch>> \/ \E n \in Names : Erase(n)
    BY <1>11, <1>0 DEF Release, MutexInv
  <2>2. UNCHANGED typeOf
    BY <1>11 DEF Release
  <2>3. instances' \in [Names -> Made' \cup {Null, None}] /\ epoch' \in [Names -> Nat]
    BY <1>0, <2>1, <2>2, EraseTypes, Zenon
  <2> QED
    BY <1>11, <1>0, <2>3, Zenon DEF Release, Goto
<1>12. ASSUME NEW t \in Threads, Reset(t)
      PROVE  TypeOK'
  BY <1>12, <1>0, Zenon DEF Reset, Free, Goto
<1>13. ASSUME NEW t \in Threads, ResetEntry(t)
      PROVE  TypeOK'
  <2>1. UNCHANGED <<instances, epoch>> \/ \E n \in Names : Erase(n)
    BY <1>13 DEF ResetEntry
  <2>2. UNCHANGED typeOf
    BY <1>13 DEF ResetEntry
  <2>3. instances' \in [Names -> Made' \cup {Null, None}] /\ epoch' \in [Names -> Nat]
    BY <1>0, <2>1, <2>2, EraseTypes, Zenon
  <2> QED
    BY <1>13, <1>0, <2>3, Zenon DEF ResetEntry, Goto
<1>14. ASSUME NEW t \in Threads, ResetDone(t)
      PROVE  TypeOK'
  BY <1>14, <1>0 DEF ResetDone, Goto
<1> QED
  BY <1>1, <1>2, <1>3, <1>4, <1>5, <1>6, <1>7, <1>8, <1>9, <1>10, <1>11, <1>12,
     <1>13, <1>14 DEF Next, Finish

\* A thread that takes the mutex finds it free, and nobody else changes the map.
LEMMA MutexInvStep ==
    ASSUME IInv, [Next]_vars
    PROVE  MutexInv'
<1>0. TypeOK /\ MutexInv
  BY DEF IInv
<1> USE SingletonAssumption DEF TypeOK, Arguments, MutexInv
<1>1. CASE UNCHANGED vars  BY <1>0, <1>1 DEF vars
<1>2. ASSUME NEW t \in Threads, StartGet(t)
      PROVE  MutexInv'
  BY <1>2, <1>0 DEF StartGet, Goto
<1>3. ASSUME NEW t \in Threads, StartRelease(t)
      PROVE  MutexInv'
  BY <1>3, <1>0 DEF StartRelease, Goto
<1>4. ASSUME NEW t \in Threads, StartReset(t)
      PROVE  MutexInv'
  BY <1>4, <1>0 DEF StartReset, Goto
<1>5. ASSUME NEW t \in Threads, set_operational(t)
      PROVE  MutexInv'
  BY <1>5, <1>0 DEF set_operational, threadVars
<1>6. ASSUME NEW t \in Threads, Drop(t)
      PROVE  MutexInv'
  BY <1>6, <1>0 DEF Drop
<1>7. ASSUME NEW t \in Threads, GetExisting(t)
      PROVE  MutexInv'
  BY <1>7, <1>0 DEF GetExisting, Return, RightType, Missing, Goto
<1>8. ASSUME NEW t \in Threads, GetMissing(t)
      PROVE  MutexInv'
  BY <1>8, <1>0 DEF GetMissing, Missing, Free, Goto
<1>9. ASSUME NEW t \in Threads, Construct(t)
      PROVE  MutexInv'
  <2>1. /\ mutex = t /\ pc' = [pc EXCEPT ![t] = "idle"] /\ UNCHANGED want
    BY <1>9, <1>0, ConstructEffect, Zenon
  <2> QED
    BY <1>0, <2>1
<1>10. ASSUME NEW t \in Threads, ConstructThrows(t)
      PROVE  MutexInv'
  BY <1>10, <1>0 DEF ConstructThrows, Goto
<1>11. ASSUME NEW t \in Threads, Release(t)
      PROVE  MutexInv'
  BY <1>11, <1>0 DEF Release, Erase, Free, Goto
<1>12. ASSUME NEW t \in Threads, Reset(t)
      PROVE  MutexInv'
  BY <1>12, <1>0 DEF Reset, Free, Goto
<1>13. ASSUME NEW t \in Threads, ResetEntry(t)
      PROVE  MutexInv'
  BY <1>13, <1>0 DEF ResetEntry, Erase, Goto
<1>14. ASSUME NEW t \in Threads, ResetDone(t)
      PROVE  MutexInv'
  BY <1>14, <1>0 DEF ResetDone, Goto
<1> QED
  BY <1>1, <1>2, <1>3, <1>4, <1>5, <1>6, <1>7, <1>8, <1>9, <1>10, <1>11, <1>12,
     <1>13, <1>14 DEF Next, Finish

\* What get() has returned.
LEMMA FoundInvStep ==
    ASSUME IInv, [Next]_vars
    PROVE  (FoundInv /\ AgreeInv)'
<1>0. TypeOK /\ MutexInv /\ FoundInv /\ AgreeInv
  BY DEF IInv
<1> USE SingletonAssumption DEF TypeOK, FoundInv, AgreeInv, Made
<1>1. CASE UNCHANGED vars  BY <1>0, <1>1 DEF vars
<1>2. ASSUME NEW t \in Threads, StartGet(t)
      PROVE  (FoundInv /\ AgreeInv)'
  <2>1. /\ found'[t].object = None /\ \A u \in Threads \ {t} : found'[u] = found[u]
        /\ UNCHANGED <<typeOf, instances, epoch>>
    BY <1>2, <1>0 DEF StartGet, NotFound
  <2> QED
    BY <1>0, <2>1, ReturnKeepsInv
<1>3. ASSUME NEW t \in Threads, StartRelease(t)
      PROVE  (FoundInv /\ AgreeInv)'
  BY <1>3, <1>0 DEF StartRelease, Goto
<1>4. ASSUME NEW t \in Threads, StartReset(t)
      PROVE  (FoundInv /\ AgreeInv)'
  BY <1>4, <1>0 DEF StartReset, Goto
<1>5. ASSUME NEW t \in Threads, set_operational(t)
      PROVE  (FoundInv /\ AgreeInv)'
  BY <1>5, <1>0 DEF set_operational, threadVars
<1>6. ASSUME NEW t \in Threads, Drop(t)
      PROVE  (FoundInv /\ AgreeInv)'
  BY <1>6, <1>0 DEF Drop
<1>7. ASSUME NEW t \in Threads, GetExisting(t)
      PROVE  (FoundInv /\ AgreeInv)'
  <2> DEFINE n == want[t].name
             o == instances[n]
  <2>1. /\ n \in Names /\ o \notin {None, Null} /\ UNCHANGED <<typeOf, instances, epoch>>
        /\ \A u \in Threads \ {t} : found'[u] = found[u]
    BY <1>7, <1>0 DEF GetExisting, Missing, Return, MutexInv
  <2>2. \/ found' = found
        \/ /\ typeOf[o] = want[t].type
           /\ found'[t] = [object |-> o, name |-> n, type |-> want[t].type, epoch |-> epoch[n]]
    BY <1>7, <1>0 DEF GetExisting, Return, RightType
  <2>3. o \in Made /\ epoch[n] \in Nat
    BY <1>0, <2>1
  <2> HIDE DEF n, o
  <2>4. o = instances[n]
    BY DEF n, o
  <2> QED
    BY <1>0, <2>1, <2>2, <2>3, <2>4, ReturnKeepsInv
<1>8. ASSUME NEW t \in Threads, GetMissing(t)
      PROVE  (FoundInv /\ AgreeInv)'
  BY <1>8, <1>0 DEF GetMissing, Missing, Free, Goto
<1>9. ASSUME NEW t \in Threads, Construct(t)
      PROVE  (FoundInv /\ AgreeInv)'
  <2>1. PICK o \in Nat :
             /\ o \notin Made /\ Made' = Made \cup {o}
             /\ typeOf'[o] = want[t].type /\ \A p \in Made : typeOf'[p] = typeOf[p]
             /\ instances' = [instances EXCEPT ![want[t].name] = o]
             /\ want[t].name \in Names /\ instances[want[t].name] = Null
             /\ found' = [found EXCEPT ![t] =
                   [object |-> o, name |-> want[t].name, type |-> want[t].type,
                    epoch |-> epoch[want[t].name]]]
             /\ UNCHANGED epoch
    BY <1>9, <1>0, ConstructEffect, Zenon
  <2> DEFINE n == want[t].name
  <2>2. /\ n \in Names /\ epoch[n] \in Nat /\ instances'[n] = o
        /\ \A m \in Names \ {n} : instances'[m] = instances[m]
        /\ found'[t] = [object |-> o, name |-> n, type |-> want[t].type, epoch |-> epoch[n]]
        /\ \A u \in Threads \ {t} : found'[u] = found[u]
    BY <1>0, <2>1
  <2>3. ASSUME NEW u \in Threads, found[u].object # None
        PROVE  ~(found[u].name = n /\ found[u].epoch = epoch[n])
    <3>1. Null \notin Made
      BY <1>0
    <3> QED
      BY <1>0, <2>1, <2>3, <3>1
  <2> HIDE DEF n
  <2>4. \A u \in Threads : found'[u].object # None =>
            /\ found'[u].object \in Made' /\ typeOf'[found'[u].object] = found'[u].type
            /\ found'[u].name \in Names /\ found'[u].epoch \in Nat
            /\ found'[u].epoch <= epoch[found'[u].name]
            /\ found'[u].epoch = epoch[found'[u].name]
                  => instances'[found'[u].name] = found'[u].object
    <3> USE DEF FoundInv
    <3>1. ASSUME NEW u \in Threads \ {t}, found[u].object # None
          PROVE  /\ found[u].object \in Made /\ typeOf'[found[u].object] = found[u].type
                 /\ found[u].name \in Names /\ found[u].epoch \in Nat
                 /\ found[u].epoch <= epoch[found[u].name]
                 /\ found[u].epoch = epoch[found[u].name]
                       => instances'[found[u].name] = found[u].object
      BY <1>0, <2>1, <2>2, <2>3, <3>1
    <3>2. typeOf'[o] = want[t].type /\ o \in Made' /\ epoch[n] <= epoch[n]
      BY <2>1, <2>2
    <3> QED
      BY <2>1, <2>2, <3>1, <3>2
  <2>5. FoundInv'
    BY <2>1, <2>4
  <2>6. AgreeInv'
    BY <1>0, <2>2, <2>3
  <2> QED
    BY <2>5, <2>6
<1>10. ASSUME NEW t \in Threads, ConstructThrows(t)
      PROVE  (FoundInv /\ AgreeInv)'
  BY <1>10, <1>0 DEF ConstructThrows, Goto
<1>11. ASSUME NEW t \in Threads, Release(t)
      PROVE  (FoundInv /\ AgreeInv)'
  <2>1. /\ UNCHANGED <<typeOf, found>>
        /\ UNCHANGED <<instances, epoch>> \/ \E n \in Names : Erase(n)
    BY <1>11, <1>0 DEF Release, MutexInv
  <2> QED
    BY <1>0, <2>1, EraseKeepsInv, Zenon
<1>12. ASSUME NEW t \in Threads, Reset(t)
      PROVE  (FoundInv /\ AgreeInv)'
  BY <1>12, <1>0 DEF Reset, Free, Goto
<1>13. ASSUME NEW t \in Threads, ResetEntry(t)
      PROVE  (FoundInv /\ AgreeInv)'
  <2>1. /\ UNCHANGED <<typeOf, found>>
        /\ UNCHANGED <<instances, epoch>> \/ \E n \in Names : Erase(n)
    BY <1>13, <1>0 DEF ResetEntry
  <2> QED
    BY <1>0, <2>1, EraseKeepsInv, Zenon
<1>14. ASSUME NEW t \in Threads, ResetDone(t)
      PROVE  (FoundInv /\ AgreeInv)'
  BY <1>14, <1>0, Zenon DEF ResetDone, Goto
<1> QED
  BY Zenon, <1>1, <1>2, <1>3, <1>4, <1>5, <1>6, <1>7, <1>8, <1>9, <1>10, <1>11, <1>12,
     <1>13, <1>14 DEF Next, Finish

-----------------------------------------------------------------------------
(* The theorems *)

LEMMA InvInit ==
    ASSUME Init
    PROVE  IInv
<1> USE SingletonAssumption DEF Init
<1>1. Made = 1 .. 0
  BY DEF Made
<1>2. \A t \in Threads : found[t].object = None
  BY DEF NotFound
<1> QED
  BY <1>1, <1>2 DEF IInv, TypeOK, Arguments, MutexInv, FoundInv, AgreeInv

\* The invariant of the map, the mutex and what the threads have been given.
THEOREM Invariant == Spec => []IInv
<1>1. Init => IInv
  BY InvInit
<1>2. IInv /\ [Next]_vars => IInv'
  BY TypeOKStep, MutexInvStep, FoundInvStep DEF IInv
<1> QED
  BY <1>1, <1>2, PTL DEF Spec

\* LookupsAgree: get() tests, inserts and constructs under one lock, so all calls
\* for a name return one object, of the type they ask for, until it is removed.
THEOREM OneObjectPerName == Spec => []LookupsAgree
<1>1. IInv => LookupsAgree
  BY DEF IInv, FoundInv, AgreeInv, LookupsAgree
<1> QED
  BY <1>1, Invariant, PTL

=============================================================================
