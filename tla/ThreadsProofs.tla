---------------------------- MODULE ThreadsProofs ----------------------------
(* What is proved of the thread-safe containers and of the logging, for any   *)
(* number of threads, keys and values and any depth of nested calls.          *)
EXTENDS MCThreads, SequenceTheorems, FiniteSetTheorems, TLAPS

\* The steps that need arithmetic, or many equalities, name SMT.
USE Zenon

(* Sequences *)

\* The calls of a thread are a stack: what a push leaves.
LEMMA Pushed ==
    ASSUME NEW S, NEW s \in Seq(S), NEW f \in S
    PROVE  /\ Append(s, f) \in Seq(S)
           /\ Len(Append(s, f)) = Len(s) + 1
           /\ Append(s, f)[Len(s) + 1] = f
           /\ \A i \in 1 .. Len(s) : Append(s, f)[i] = s[i]
BY SMT

\* What a pop leaves.
LEMMA Popped ==
    ASSUME NEW S, NEW s \in Seq(S), s # <<>>
    PROVE  LET r == SubSeq(s, 1, Len(s) - 1) IN
           /\ r \in Seq(S)
           /\ Len(s) \in Nat \ {0}
           /\ Len(r) = Len(s) - 1
           /\ \A i \in 1 .. Len(s) - 1 : r[i] = s[i]
<1> DEFINE r == SubSeq(s, 1, Len(s) - 1)
<1>1. Len(s) \in Nat \ {0}
  BY EmptySeq
<1>2. PICK n \in Nat : Len(s) = n + 1
  <2>1. Len(s) - 1 \in Nat /\ Len(s) = (Len(s) - 1) + 1
    BY <1>1, SMT
  <2> QED
    BY <2>1
<1>3. Len(s) - 1 = n /\ \A i \in 1 .. n : s[i] \in S
  BY <1>2, SMT
<1>4. /\ SubSeq(s, 1, n) \in Seq(S)
      /\ Len(SubSeq(s, 1, n)) = IF 1 <= n THEN n - 1 + 1 ELSE 0
      /\ \A i \in 1 .. n - 1 + 1 : SubSeq(s, 1, n)[i] = s[1 + i - 1]
  BY <1>3, SubSeqProperties, SMT
<1>5. /\ n - 1 + 1 = n /\ (IF 1 <= n THEN n - 1 + 1 ELSE 0) = n
      /\ \A i \in 1 .. n : 1 + i - 1 = i
  BY SMT
<1>6. /\ SubSeq(s, 1, n) \in Seq(S) /\ Len(SubSeq(s, 1, n)) = n
      /\ \A i \in 1 .. n : SubSeq(s, 1, n)[i] = s[i]
  BY <1>4, <1>5
<1> QED
  BY <1>1, <1>3, <1>6

-----------------------------------------------------------------------------
(* The inductive invariant of the containers *)

Ops == {"insert", "emplace", "set_insert", "erase", "set_erase", "erase_at", "clear",
        "at", "index", "size", "count", "contains", "guard"}
Frame == [op : Ops, key : Keys \cup {None}, value : Values \cup {None},
          at : {"call", "inside", "guard"}, old : BOOLEAN]

ContainerTypeOK ==
    /\ DOMAIN container \subseteq Keys
    /\ modified \in BOOLEAN
    /\ owner \in Threads \cup {None} /\ depth \in Nat
    /\ frames \in [Threads -> Seq(Frame)]
    /\ guard \subseteq Threads
    /\ position \in [Threads -> Keys \cup {None}]

\* A call that keeps the mark is among the first n of the stack s.
KeptBelow(s, n) == \E j \in 1 .. n : s[j].op \in Keeping

\* Only the innermost call of a thread is not inside, a thread that waits in
\* get_lock_guard is in no other call, every other call has a key, and each
\* remembers whether one further out keeps the mark: that is what ~scoped_set
\* puts back.
StackInv ==
    \A t \in Threads : \A i \in 1 .. Len(frames[t]) :
        /\ i < Len(frames[t]) => frames[t][i].at = "inside"
        /\ IF frames[t][i].at = "guard" THEN Len(frames[t]) = 1 /\ t \notin guard
           ELSE frames[t][i].key \in Keys
        /\ frames[t][i].at = "inside"
              => frames[t][i].old = KeptBelow(frames[t], i - 1)

\* How often thread t has locked the mutex: once per call that is inside, and
\* once for its lock_guard.
CallsInside(t) ==
    IF frames[t] = <<>> \/ Top(t).at = "inside" THEN Len(frames[t])
    ELSE Len(frames[t]) - 1
Locks(t) == CallsInside(t) + IF t \in guard THEN 1 ELSE 0

\* The recursive mutex counts them, and no other thread has any.
MutexInv ==
    /\ owner = None => depth = 0
    /\ \A t \in Threads : IF owner = t THEN depth = Locks(t) /\ depth > 0
                          ELSE Locks(t) = 0

\* The mark is set exactly if the owner is in a call that keeps it.
MarkInv ==
    IF owner = None THEN modified = FALSE
    ELSE modified = KeptBelow(frames[owner], CallsInside(owner))

\* Iterators are got, and kept, under a lock_guard only, and point to elements.
PositionInv ==
    \A t \in Threads : position[t] # None
        => t \in guard /\ position[t] \in DOMAIN container

ContainerInv ==
    ContainerTypeOK /\ StackInv /\ MutexInv /\ MarkInv /\ PositionInv

\* The top of a stack, and what is below it.
LEMMA TopIsLast ==
    ASSUME ContainerTypeOK, NEW t \in Threads, frames[t] # <<>>
    PROVE  /\ Top(t) \in Frame /\ Top(t) = frames[t][Len(frames[t])]
           /\ Below(t) \in Seq(Frame)
           /\ Len(frames[t]) \in Nat \ {0}
           /\ Len(Below(t)) = Len(frames[t]) - 1
           /\ \A i \in 1 .. Len(frames[t]) - 1 : Below(t)[i] = frames[t][i]
<1>1. frames[t] \in Seq(Frame)
  BY DEF ContainerTypeOK
<1> QED
  BY <1>1, Popped, SMT DEF Top, Below

\* A thread that is about to call, or to wait for a lock_guard, changes its
\* own stack only (Call, CallErase and CallGuard).
LEMMA PushKeepsInv ==
    ASSUME ContainerInv, NEW t \in Threads, NEW f \in Frame,
           (f.at = "call" /\ f.key \in Keys) \/ (f.at = "guard" /\ frames[t] = <<>> /\ t \notin guard),
           frames[t] = <<>> \/ At(t, "inside"),
           frames' = [frames EXCEPT ![t] = Append(frames[t], f)],
           UNCHANGED <<kind, container, modified, owner, depth, guard, position>>
    PROVE  ContainerInv'
<1> DEFINE s == frames[t]
<1>1. /\ s \in Seq(Frame) /\ Len(s) \in Nat
      /\ frames \in [Threads -> Seq(Frame)]
  BY SMT DEF ContainerInv, ContainerTypeOK
<1>2. /\ frames' \in [Threads -> Seq(Frame)]
      /\ Len(frames'[t]) = Len(s) + 1 /\ frames'[t][Len(s) + 1] = f
      /\ \A i \in 1 .. Len(s) : frames'[t][i] = s[i]
      /\ \A u \in Threads \ {t} : frames'[u] = frames[u]
  BY <1>1, Pushed, SMT
<1>3. Keeping' = Keeping
  BY DEF Keeping
<1>4. s # <<>> => Len(s) # 0 /\ s[Len(s)].at = "inside"
  BY <1>1, EmptySeq DEF At, Top
<1>5. \A n \in 0 .. Len(s) : KeptBelow(s, n)' = KeptBelow(s, n)
  <2> TAKE n \in 0 .. Len(s)
  <2>1. \A j \in 1 .. n : frames'[t][j].op = s[j].op
    <3>1. \A j \in 1 .. n : j \in 1 .. Len(s)
      BY <1>1, SMT
    <3> QED
      BY <1>2, <3>1
  <2> DEFINE K == Keeping
  <2>2. KeptBelow(s, n)' <=> \E j \in 1 .. n : frames'[t][j].op \in K
    BY <1>3 DEF KeptBelow
  <2>3. KeptBelow(s, n) <=> \E j \in 1 .. n : s[j].op \in K
    BY DEF KeptBelow
  <2>4. KeptBelow(s, n)' <=> KeptBelow(s, n)
    BY <2>1, <2>2, <2>3
  <2> QED
    BY <2>4 DEF KeptBelow
<1>6. ContainerTypeOK'
  BY <1>2 DEF ContainerInv, ContainerTypeOK
<1>7. \A u \in Threads : CallsInside(u)' = CallsInside(u)
  <2>1. frames'[t] # <<>> /\ Top(t)' = f
    BY <1>1, <1>2, SMT DEF Top
  <2>2. CallsInside(t)' = Len(s)
    BY <1>1, <1>2, <2>1, SMT DEF CallsInside
  <2>3. CallsInside(t) = Len(s)
    BY <1>4 DEF CallsInside, Top
  <2>4. ASSUME NEW u \in Threads \ {t}
        PROVE  CallsInside(u)' = CallsInside(u)
    BY <1>2, SMT DEF CallsInside, Top
  <2> QED
    BY <2>2, <2>3, <2>4
<1>8. StackInv'
  <2> SUFFICES ASSUME NEW u \in Threads, NEW i \in 1 .. Len(frames'[u])
               PROVE  /\ i < Len(frames'[u]) => frames'[u][i].at = "inside"
                      /\ IF frames'[u][i].at = "guard"
                         THEN Len(frames'[u]) = 1 /\ u \notin guard
                         ELSE frames'[u][i].key \in Keys
                      /\ frames'[u][i].at = "inside"
                            => frames'[u][i].old = KeptBelow(frames[u], i - 1)'
    BY DEF StackInv
  <2>1. CASE u # t
    <3>1. KeptBelow(frames[u], i - 1)' = KeptBelow(frames[u], i - 1)
      BY <1>2, <1>3, <2>1 DEF KeptBelow
    <3> QED
      BY <1>2, <2>1, <3>1 DEF ContainerInv, StackInv
  <2>2. CASE u = t /\ i = Len(s) + 1
    <3>1. f.at = "guard" => Len(s) = 0
      BY EmptySeq
    <3> QED
      BY <1>1, <1>2, <2>2, <3>1, SMT
  <2>3. CASE u = t /\ i # Len(s) + 1
    <3>1. i \in 1 .. Len(s) /\ frames'[u][i] = s[i]
      BY <1>1, <1>2, <2>3, SMT
    <3>2. s # <<>> /\ s[i].at = "inside" /\ s[i].key \in Keys
      BY <1>1, <1>4, <3>1, EmptySeq, SMT DEF ContainerInv, StackInv
    <3>3. s[i].old = KeptBelow(s, i - 1)
      BY <3>1, <3>2 DEF ContainerInv, StackInv
    <3>4. KeptBelow(s, i - 1)' = KeptBelow(s, i - 1)
      BY <1>1, <1>5, <3>1, SMT
    <3> QED
      BY <2>3, <3>1, <3>2, <3>3, <3>4
  <2> QED
    BY <2>1, <2>2, <2>3
<1>9. MutexInv'
  BY <1>7 DEF ContainerInv, MutexInv, Locks
<1>10. MarkInv'
  <2>1. CASE owner = None
    BY <2>1 DEF ContainerInv, MarkInv
  <2>2. CASE owner = t
    <3>1. CallsInside(t) = Len(s)
      BY <1>4 DEF CallsInside, Top
    <3> QED
      BY <1>1, <1>5, <1>7, <2>2, <3>1, ContainerAssumption, SMT DEF ContainerInv, MarkInv
  <2>3. CASE owner # None /\ owner # t
    <3>1. owner \in Threads \ {t}
      BY <2>3 DEF ContainerInv, ContainerTypeOK
    <3> QED
      BY <1>2, <1>3, <1>7, <2>3, <3>1 DEF ContainerInv, MarkInv, KeptBelow
  <2> QED
    BY <2>1, <2>2, <2>3
<1>11. PositionInv'
  BY DEF ContainerInv, PositionInv
<1> QED
  BY <1>6, <1>8, <1>9, <1>10, <1>11 DEF ContainerInv

\* Whether a call of the lowest n keeps the mark depends on their operations.
LEMMA KeptBelowFrame ==
    ASSUME NEW t, NEW n, UNCHANGED kind,
           \A j \in 1 .. n : frames'[t][j].op = frames[t][j].op
    PROVE  KeptBelow(frames[t], n)' = KeptBelow(frames[t], n)
BY DEF KeptBelow, Keeping

\* No call keeps the mark if there is none.
LEMMA NothingKept == \A s : KeptBelow(s, 0) = FALSE
BY SMT DEF KeptBelow

\* One more call keeps the mark, or not.
LEMMA KeptBelowNext ==
    ASSUME NEW s, NEW n \in Nat \ {0}
    PROVE  KeptBelow(s, n) = (KeptBelow(s, n - 1) \/ s[n].op \in Keeping)
<1>1. \A j : j \in 1 .. n <=> j \in 1 .. n - 1 \/ j = n
  BY SMT
<1> QED
  BY <1>1 DEF KeptBelow

\* The locks of a thread are counted in natural numbers; a thread that has one
\* owns the mutex.
LEMMA LocksOwn ==
    ASSUME ContainerInv, NEW t \in Threads
    PROVE  /\ CallsInside(t) \in 0 .. Len(frames[t]) /\ Locks(t) \in Nat
           /\ Locks(t) = IF t \in guard THEN CallsInside(t) + 1 ELSE CallsInside(t)
           /\ At(t, "inside") => CallsInside(t) = Len(frames[t]) /\ CallsInside(t) > 0
           /\ At(t, "inside") \/ t \in guard => owner = t
<1>1. frames[t] \in Seq(Frame) /\ Len(frames[t]) \in Nat
  BY SMT DEF ContainerInv, ContainerTypeOK
<1>2. frames[t] # <<>> => Len(frames[t]) \in Nat \ {0}
  BY <1>1, EmptySeq
<1>3. CallsInside(t) \in 0 .. Len(frames[t])
  BY <1>1, <1>2, SMT DEF CallsInside
<1>4. At(t, "inside") => CallsInside(t) = Len(frames[t]) /\ CallsInside(t) > 0
  BY <1>1, <1>2, SMT DEF CallsInside, At
<1>5. Locks(t) = IF t \in guard THEN CallsInside(t) + 1 ELSE CallsInside(t)
  BY <1>1, <1>3, SMT DEF Locks
<1>6. Locks(t) \in Nat
  BY <1>1, <1>3, <1>5, SMT
<1>7. At(t, "inside") \/ t \in guard => Locks(t) # 0
  BY <1>1, <1>3, <1>4, <1>5, SMT
<1> QED
  BY <1>3, <1>4, <1>5, <1>6, <1>7 DEF ContainerInv, MutexInv

\* A step of thread t that leaves the other stacks alone, and the mutex to t if
\* it gets it, preserves what the invariant says of the other threads.
LEMMA OthersKeepInv ==
    ASSUME ContainerInv, NEW t \in Threads, UNCHANGED kind,
           \A u \in Threads \ {t} :
              frames'[u] = frames[u] /\ (u \in guard' <=> u \in guard),
           owner \in {None, t}, owner' \in {None, t}
    PROVE  /\ \A u \in Threads \ {t} : Locks(u)' = 0 /\ Locks(u) = 0
           /\ \A u \in Threads \ {t} : \A i \in 1 .. Len(frames'[u]) :
                /\ i < Len(frames'[u]) => frames'[u][i].at = "inside"
                /\ IF frames'[u][i].at = "guard"
                   THEN Len(frames'[u]) = 1 /\ u \notin guard' ELSE frames'[u][i].key \in Keys
                /\ frames'[u][i].at = "inside"
                      => frames'[u][i].old = KeptBelow(frames[u], i - 1)'
<1>1. ASSUME NEW u \in Threads \ {t}
      PROVE  Locks(u)' = 0 /\ Locks(u) = 0
  <2>1. Locks(u) = 0
    BY ContainerAssumption DEF ContainerInv, MutexInv
  <2>2. CallsInside(u)' = CallsInside(u)
    BY DEF CallsInside, Top
  <2> QED
    BY <2>1, <2>2 DEF Locks
<1>2. ASSUME NEW u \in Threads \ {t}, NEW i \in 1 .. Len(frames'[u])
      PROVE  /\ i < Len(frames'[u]) => frames'[u][i].at = "inside"
             /\ IF frames'[u][i].at = "guard"
                THEN Len(frames'[u]) = 1 /\ u \notin guard' ELSE frames'[u][i].key \in Keys
             /\ frames'[u][i].at = "inside"
                   => frames'[u][i].old = KeptBelow(frames[u], i - 1)'
  <2>1. KeptBelow(frames[u], i - 1)' = KeptBelow(frames[u], i - 1)
    BY DEF KeptBelow, Keeping
  <2> QED
    BY <2>1 DEF ContainerInv, StackInv
<1> QED
  BY <1>1, <1>2

\* A call that finds the mark throws, and leaves the container as it was.
LEMMA ThrowKeepsInv ==
    ASSUME ContainerInv, NEW t \in Threads, Throw(t)
    PROVE  ContainerInv'
<1> DEFINE s == frames[t]
<1>1. /\ s # <<>> /\ Top(t).at = "call" /\ owner \in {None, t}
      /\ frames' = [frames EXCEPT ![t] = Below(t)]
      /\ UNCHANGED <<kind, container, modified, owner, depth, guard, position>>
  BY DEF Throw, At, Refused, MayEnter, MayLock, AfterThrow, Pop
<1>2. frames \in [Threads -> Seq(Frame)] /\ ContainerTypeOK
  BY DEF ContainerInv, ContainerTypeOK
<1>3. /\ Len(s) \in Nat \ {0} /\ Len(frames'[t]) = Len(s) - 1
      /\ frames' \in [Threads -> Seq(Frame)]
      /\ \A i \in 1 .. Len(s) - 1 : frames'[t][i] = s[i]
      /\ \A u \in Threads \ {t} : frames'[u] = frames[u]
  BY <1>1, <1>2, TopIsLast
<1>5. ASSUME NEW n \in 0 .. Len(s) - 1
      PROVE  KeptBelow(s, n)' = KeptBelow(s, n)
  <2>1. \A j \in 1 .. n : j \in 1 .. Len(s) - 1
    BY <1>3, SMT
  <2> QED
    BY <1>1, <1>3, <2>1, KeptBelowFrame
<1>6. \A i \in 1 .. Len(s) - 1 : s[i].at = "inside"
  BY <1>3, SMT DEF ContainerInv, StackInv
<1>7. CallsInside(t) = Len(s) - 1
  BY <1>1, <1>3 DEF CallsInside
<1>8. CallsInside(t)' = Len(s) - 1
  <2>1. CASE frames'[t] = <<>>
    BY <1>3, <2>1, EmptySeq DEF CallsInside
  <2>2. CASE frames'[t] # <<>>
    <3>1. Len(s) - 1 \in 1 .. Len(s) - 1
      BY <1>3, <2>2, EmptySeq, SMT
    <3>2. Top(t)'.at = "inside"
      BY <1>3, <1>6, <3>1 DEF Top
    <3> QED
      BY <1>3, <3>2 DEF CallsInside
  <2> QED
    BY <2>1, <2>2
<1>9. ContainerTypeOK'
  BY <1>1, <1>2, <1>3 DEF ContainerTypeOK
<1>10. StackInv'
  <2>1. ASSUME NEW i \in 1 .. Len(frames'[t])
        PROVE  /\ frames'[t][i].at = "inside" /\ frames'[t][i].key \in Keys
               /\ frames'[t][i].old = KeptBelow(s, i - 1)'
    <3>1. i \in 1 .. Len(s) /\ i - 1 \in 0 .. Len(s) - 1 /\ i \in 1 .. Len(s) - 1
      BY <1>3, SMT
    <3>2. s[i].at = "inside" /\ s[i].key \in Keys /\ s[i].old = KeptBelow(s, i - 1)
      BY <1>6, <3>1 DEF ContainerInv, StackInv
    <3> QED
      BY <1>3, <1>5, <3>1, <3>2
  <2> QED
    BY <1>1, <1>3, <2>1, OthersKeepInv, SMT DEF StackInv
<1>11. Locks(t)' = Locks(t)
  BY <1>1, <1>7, <1>8 DEF Locks
<1>12. MutexInv'
  BY <1>1, <1>3, <1>11, OthersKeepInv, SMT DEF ContainerInv, MutexInv
<1>13. MarkInv'
  BY <1>1, <1>3, <1>5, <1>7, <1>8, ContainerAssumption, SMT DEF ContainerInv, MarkInv
<1> QED
  BY <1>1, <1>9, <1>10, <1>12, <1>13 DEF ContainerInv, PositionInv

\* A call gets the mutex, tests the mark and sets it.
LEMMA EnterKeepsInv ==
    ASSUME ContainerInv, NEW t \in Threads, Enter(t)
    PROVE  ContainerInv'
<1> DEFINE s == frames[t]
           f == [Top(t) EXCEPT !.at = "inside", !.old = modified]
<1>n. PICK n : n = Len(s)
  OBVIOUS
<1>1. /\ s # <<>> /\ Top(t).at = "call" /\ owner \in {None, t}
      /\ frames' = [frames EXCEPT ![t] = Append(Below(t), f)]
      /\ owner' = t /\ depth' = depth + 1
      /\ modified' = (modified \/ Top(t).op \in Keeping)
      /\ UNCHANGED <<kind, container, guard, position>>
  BY DEF Enter, At, MayEnter, MayLock, Locked, Goto
<1>2. /\ frames \in [Threads -> Seq(Frame)] /\ ContainerTypeOK
      /\ depth \in Nat /\ modified \in BOOLEAN
  BY DEF ContainerInv, ContainerTypeOK
<1>3. n \in Nat \ {0} /\ Top(t) \in Frame /\ Top(t) = s[n]
  BY <1>n, <1>1, <1>2, TopIsLast
<1>4. /\ f \in Frame /\ f.at = "inside" /\ f.old = modified
      /\ f.op = s[n].op /\ f.key = s[n].key
  BY <1>2, <1>3 DEF Frame
<1>5. /\ frames' \in [Threads -> Seq(Frame)] /\ Len(frames'[t]) = n
      /\ frames'[t][n] = f
      /\ \A i \in 1 .. n - 1 : frames'[t][i] = s[i]
      /\ \A u \in Threads \ {t} : frames'[u] = frames[u]
  <2> HIDE DEF f
  <2>1. /\ Below(t) \in Seq(Frame) /\ Len(Below(t)) = n - 1
        /\ \A i \in 1 .. n - 1 : Below(t)[i] = s[i]
    BY <1>n, <1>1, <1>2, TopIsLast
  <2>2. /\ Append(Below(t), f) \in Seq(Frame)
        /\ Len(Append(Below(t), f)) = n
        /\ Append(Below(t), f)[n] = f
        /\ \A i \in 1 .. n - 1 : Append(Below(t), f)[i] = s[i]
    BY <1>3, <1>4, <2>1, Pushed, SMT
  <2> QED
    BY <1>1, <1>2, <2>2
<1> HIDE DEF f
<1>6. ASSUME NEW k \in 0 .. n
      PROVE  KeptBelow(s, k)' = KeptBelow(s, k)
  <2>1. \A j \in 1 .. k : frames'[t][j].op = s[j].op
    BY <1>3, <1>4, <1>5, SMT
  <2> QED
    BY <1>1, <2>1, KeptBelowFrame
<1>7. CallsInside(t) = n - 1 /\ CallsInside(t)' = n
  <2>1. CallsInside(t) = n - 1
    BY <1>n, <1>1, <1>3 DEF CallsInside
  <2>2. frames'[t] # <<>> /\ Top(t)'.at = "inside"
    BY <1>3, <1>4, <1>5, EmptySeq DEF Top
  <2> QED
    BY <1>5, <2>1, <2>2 DEF CallsInside
<1>8. depth = Locks(t) /\ Locks(t)' = depth + 1
  <2>1. owner = None => Locks(t) = 0
    BY ContainerAssumption DEF ContainerInv, MutexInv
  <2>2. depth = Locks(t)
    BY <1>1, <2>1 DEF ContainerInv, MutexInv
  <2> QED
    BY <1>1, <1>2, <1>3, <1>7, <2>2, SMT DEF Locks
<1>9. modified = KeptBelow(s, n - 1)
  <2>1. CASE owner = t
    BY <1>7, <2>1, ContainerAssumption DEF ContainerInv, MarkInv
  <2>2. CASE owner = None
    <3>1. Locks(t) = 0
      BY <2>2, ContainerAssumption DEF ContainerInv, MutexInv
    <3>2. Locks(t) = IF t \in guard THEN (n - 1) + 1 ELSE n - 1
      BY <1>7, LocksOwn
    <3>3. n - 1 = 0
      BY <1>3, <3>1, <3>2, SMT
    <3>4. modified = FALSE /\ KeptBelow(s, n - 1) = FALSE
      BY <2>2, <3>3, SMT DEF ContainerInv, MarkInv, KeptBelow
    <3> QED
      BY <3>4
  <2> QED
    BY <1>1, <2>1, <2>2
<1>10. modified' = KeptBelow(s, n)'
  <2>1. KeptBelow(s, n) = (KeptBelow(s, n - 1) \/ s[n].op \in Keeping)
    BY <1>3, KeptBelowNext
  <2> QED
    BY <1>1, <1>3, <1>6, <1>9, <2>1, SMT
<1>11. ContainerTypeOK'
  BY <1>1, <1>2, <1>5, SMT DEF ContainerTypeOK
<1>12. StackInv'
  <2>1. ASSUME NEW i \in 1 .. Len(frames'[t])
        PROVE  /\ frames'[t][i].at = "inside" /\ frames'[t][i].key \in Keys
               /\ frames'[t][i].old = KeptBelow(s, i - 1)'
    <3>1. s[i].key \in Keys
      BY <1>n, <1>1, <1>3, <1>5, SMT DEF ContainerInv, StackInv
    <3>2. KeptBelow(s, i - 1)' = KeptBelow(s, i - 1)
      BY <1>3, <1>5, <1>6, SMT
    <3>3. CASE i = n
      BY <1>4, <1>5, <1>9, <3>1, <3>2, <3>3
    <3>4. CASE i # n
      <4>1. i \in 1 .. n - 1 /\ i \in 1 .. n /\ i < n
        BY <1>3, <1>5, <3>4, SMT
      <4>2. s[i].at = "inside" /\ s[i].old = KeptBelow(s, i - 1)
        BY <1>n, <4>1 DEF ContainerInv, StackInv
      <4> QED
        BY <1>5, <3>1, <3>2, <4>1, <4>2
    <3> QED
      BY <3>3, <3>4
  <2> QED
    BY <1>1, <1>5, <2>1, OthersKeepInv, SMT DEF StackInv
<1>13. MutexInv'
  BY <1>1, <1>2, <1>5, <1>8, OthersKeepInv, ContainerAssumption, SMT DEF MutexInv
<1>14. MarkInv'
  BY <1>1, <1>7, <1>10, ContainerAssumption DEF MarkInv
<1> QED
  BY <1>1, <1>11, <1>12, <1>13, <1>14 DEF ContainerInv, PositionInv

\* Every operation leaves keys of Keys in the container.
LEMMA ChangedKeys ==
    ASSUME DOMAIN container \subseteq Keys, NEW f \in Frame, f.key \in Keys
    PROVE  DOMAIN Changed(f) \subseteq Keys
<1>1. \A k \in Keys : \A v : DOMAIN Inserted(k, v) \subseteq Keys
  BY DEF Inserted
<1>2. \A k : DOMAIN Erased(k) \subseteq Keys
  BY DEF Erased, Restrict
<1>3. DOMAIN Cleared \subseteq Keys
  BY SMT DEF Cleared
<1> QED
  BY <1>1, <1>2, <1>3 DEF Changed, SetEmplaced, SetInserted, SetErased, Indexed

\* A call changes the container, puts the mark back and releases the mutex.
LEMMA LeaveKeepsInv ==
    ASSUME ContainerInv, NEW t \in Threads, Leave(t)
    PROVE  ContainerInv'
<1> DEFINE s == frames[t]
<1>n. PICK n : n = Len(s)
  OBVIOUS
<1>1. /\ s # <<>> /\ Top(t).at = "inside" /\ At(t, "inside")
      /\ frames' = [frames EXCEPT ![t] = Below(t)]
      /\ container' = Changed(Top(t))
      /\ modified' = IF Top(t).op \in Keeping THEN Top(t).old ELSE modified
      /\ depth' = depth - 1 /\ owner' = IF depth = 1 THEN None ELSE owner
      /\ position' = IF t \in guard /\ position[t] # None
                        /\ position[t] \notin DOMAIN container'
                     THEN [position EXCEPT ![t] = None] ELSE position
      /\ UNCHANGED <<kind, guard>>
  BY DEF Leave, At, Restored, Unlocked, Pop
<1>2. /\ frames \in [Threads -> Seq(Frame)] /\ ContainerTypeOK
      /\ depth \in Nat /\ modified \in BOOLEAN
  BY DEF ContainerInv, ContainerTypeOK
<1>3. /\ n \in Nat \ {0} /\ Top(t) \in Frame /\ Top(t) = s[n]
      /\ Len(frames'[t]) = n - 1 /\ frames' \in [Threads -> Seq(Frame)]
      /\ \A i \in 1 .. n - 1 : frames'[t][i] = s[i]
      /\ \A u \in Threads \ {t} : frames'[u] = frames[u]
  BY <1>n, <1>1, <1>2, TopIsLast
<1>4. owner = t /\ CallsInside(t) = n /\ depth = Locks(t) /\ owner # None
  BY <1>n, <1>1, LocksOwn, ContainerAssumption DEF ContainerInv, MutexInv
<1>5. ASSUME NEW k \in 0 .. n - 1
      PROVE  KeptBelow(s, k)' = KeptBelow(s, k)
  <2>1. \A j \in 1 .. k : j \in 1 .. n - 1
    BY <1>3, SMT
  <2> QED
    BY <1>1, <1>3, <2>1, KeptBelowFrame
<1>6. ASSUME NEW i \in 1 .. n
      PROVE  s[i].at = "inside" /\ s[i].key \in Keys /\ s[i].old = KeptBelow(s, i - 1)
  <2>1. s[i].at = "inside"
    BY <1>n, <1>1, <1>3, SMT DEF ContainerInv, StackInv
  <2> QED
    BY <1>n, <2>1 DEF ContainerInv, StackInv
<1>7. CallsInside(t)' = n - 1
  <2>1. CASE frames'[t] = <<>>
    BY <1>3, <2>1, EmptySeq DEF CallsInside
  <2>2. CASE frames'[t] # <<>>
    <3>1. n - 1 \in 1 .. n - 1 /\ n - 1 \in 1 .. n
      BY <1>3, <2>2, EmptySeq, SMT
    <3>2. Top(t)'.at = "inside"
      BY <1>3, <1>6, <3>1 DEF Top
    <3> QED
      BY <1>3, <3>2 DEF CallsInside
  <2> QED
    BY <2>1, <2>2
<1>8. Locks(t) = (IF t \in guard THEN n + 1 ELSE n) /\ Locks(t)' = depth - 1
  <2>1. Locks(t) = (IF t \in guard THEN n + 1 ELSE n)
    BY <1>4, LocksOwn
  <2> QED
    BY <1>1, <1>3, <1>4, <1>7, <2>1, SMT DEF Locks
<1>9. modified' = KeptBelow(s, n - 1)
  <2>1. modified = KeptBelow(s, n)
    BY <1>4 DEF ContainerInv, MarkInv
  <2>2. modified = (KeptBelow(s, n - 1) \/ s[n].op \in Keeping)
    BY <1>3, <2>1, KeptBelowNext
  <2>3. s[n].old = KeptBelow(s, n - 1)
    BY <1>3, <1>6, SMT
  <2>4. KeptBelow(s, n - 1) \in BOOLEAN
    BY DEF KeptBelow
  <2> QED
    BY <1>1, <1>3, <2>2, <2>3, <2>4
<1>10. ContainerTypeOK'
  <2>1. DOMAIN container' \subseteq Keys
    <3>1. Top(t).key \in Keys
      BY <1>3, <1>6, SMT
    <3> QED
      BY <1>1, <1>2, <1>3, <3>1, ChangedKeys DEF ContainerTypeOK
  <2>2. depth' \in Nat /\ owner' \in Threads \cup {None}
    BY <1>1, <1>2, <1>3, <1>4, <1>8, SMT
  <2>4. modified' \in BOOLEAN
    BY <1>9 DEF KeptBelow
  <2>3. position' \in [Threads -> Keys \cup {None}]
    BY <1>1, <1>2 DEF ContainerTypeOK
  <2> QED
    BY <1>1, <1>2, <1>3, <2>1, <2>2, <2>3, <2>4 DEF ContainerTypeOK
<1>11. StackInv'
  <2>1. ASSUME NEW i \in 1 .. Len(frames'[t])
        PROVE  /\ frames'[t][i].at = "inside" /\ frames'[t][i].key \in Keys
               /\ frames'[t][i].old = KeptBelow(s, i - 1)'
    <3>1. i \in 1 .. n - 1 /\ i \in 1 .. n /\ i - 1 \in 0 .. n - 1
      BY <1>3, SMT
    <3> QED
      BY <1>3, <1>5, <1>6, <3>1
  <2> QED
    BY <1>1, <1>3, <1>4, <2>1, OthersKeepInv, SMT DEF StackInv
<1>12. MutexInv'
  BY <1>1, <1>2, <1>3, <1>4, <1>8, OthersKeepInv, ContainerAssumption, SMT DEF MutexInv
<1>13. MarkInv'
  <2>1. CASE depth = 1
    <3>1. n - 1 = 0
      BY <1>3, <1>4, <1>8, <2>1, SMT
    <3>2. KeptBelow(s, n - 1) = FALSE
      BY <3>1, SMT DEF KeptBelow
    <3> QED
      BY <1>1, <1>9, <2>1, <3>2 DEF MarkInv
  <2>2. CASE depth # 1
    <3>1. n - 1 \in 0 .. n - 1
      BY <1>3, SMT
    <3> QED
      BY <1>1, <1>4, <1>5, <1>7, <1>9, <2>2, <3>1 DEF MarkInv
  <2> QED
    BY <2>1, <2>2
<1>14. PositionInv'
  <2> SUFFICES ASSUME NEW u \in Threads, position'[u] # None
               PROVE  u \in guard' /\ position'[u] \in DOMAIN container'
    BY DEF PositionInv
  <2>1. position \in [Threads -> Keys \cup {None}]
    BY <1>2 DEF ContainerTypeOK
  <2>2. position[u] # None /\ position'[u] = position[u]
    BY <1>1, <2>1
  <2>3. u \in guard
    BY <2>2 DEF ContainerInv, PositionInv
  <2>4. u = t
    BY <1>4, <2>3, LocksOwn
  <2> QED
    BY <1>1, <2>1, <2>2, <2>3, <2>4
<1> QED
  BY <1>10, <1>11, <1>12, <1>13, <1>14 DEF ContainerInv

\* get_lock_guard gets the mutex.
LEMMA LockGuardKeepsInv ==
    ASSUME ContainerInv, NEW t \in Threads, LockGuard(t)
    PROVE  ContainerInv'
<1> DEFINE s == frames[t]
<1>1. /\ s # <<>> /\ Top(t).at = "guard" /\ owner \in {None, t}
      /\ frames' = [frames EXCEPT ![t] = Below(t)]
      /\ owner' = t /\ depth' = depth + 1 /\ guard' = guard \cup {t}
      /\ UNCHANGED <<kind, container, modified, position>>
  BY DEF LockGuard, At, MayLock, Locked, Pop
<1>2. frames \in [Threads -> Seq(Frame)] /\ ContainerTypeOK
  BY DEF ContainerInv, ContainerTypeOK
<1>3. /\ Len(s) \in Nat \ {0} /\ Top(t) = s[Len(s)]
      /\ Len(frames'[t]) = Len(s) - 1 /\ frames' \in [Threads -> Seq(Frame)]
      /\ \A u \in Threads \ {t} : frames'[u] = frames[u]
  BY <1>1, <1>2, TopIsLast
<1>4. Len(s) = 1 /\ t \notin guard
  BY <1>1, <1>3, SMT DEF ContainerInv, StackInv
<1>5. frames'[t] = <<>>
  BY <1>3, <1>4, EmptySeq, SMT
<1>6. Locks(t) = 0 /\ Locks(t)' = 1 /\ CallsInside(t)' = 0
  <2>1. CallsInside(t) = 0
    BY <1>1, <1>3, <1>4, SMT DEF CallsInside
  <2>2. CallsInside(t)' = 0
    BY <1>3, <1>4, <1>5 DEF CallsInside
  <2> QED
    BY <1>1, <1>4, <2>1, <2>2, SMT DEF Locks
<1>7. owner = None /\ depth = 0 /\ modified = FALSE
  BY <1>1, <1>6, SMT DEF ContainerInv, MutexInv, MarkInv
<1>8. ContainerTypeOK'
  BY <1>1, <1>2, <1>3, <1>7, SMT DEF ContainerTypeOK
<1>9. StackInv'
  BY <1>1, <1>3, <1>4, OthersKeepInv, SMT DEF StackInv
<1>10. MutexInv'
  BY <1>1, <1>3, <1>6, <1>7, OthersKeepInv, ContainerAssumption, SMT DEF MutexInv
<1>11. MarkInv'
  <2>1. KeptBelow(s, 0)' = FALSE
    BY SMT DEF KeptBelow
  <2> QED
    BY <1>1, <1>6, <1>7, <2>1, ContainerAssumption DEF MarkInv
<1> QED
  BY <1>1, <1>8, <1>9, <1>10, <1>11 DEF ContainerInv, PositionInv

\* The lock_guard is given up, and with it the iterator.
LEMMA UnlockGuardKeepsInv ==
    ASSUME ContainerInv, NEW t \in Threads, UnlockGuard(t)
    PROVE  ContainerInv'
<1>1. /\ t \in guard /\ frames[t] = <<>>
      /\ depth' = depth - 1 /\ owner' = IF depth = 1 THEN None ELSE owner
      /\ guard' = guard \ {t} /\ position' = [position EXCEPT ![t] = None]
      /\ UNCHANGED <<kind, container, modified, frames>>
  BY DEF UnlockGuard, Unlocked
<1>2. ContainerTypeOK
  BY DEF ContainerInv
<1>3. CallsInside(t) = 0 /\ Locks(t) = 1 /\ Locks(t)' = 0
  BY <1>1, SMT DEF CallsInside, Locks
<1>4. owner = t /\ depth = 1
  BY <1>1, <1>3, LocksOwn DEF ContainerInv, MutexInv
<1>5. owner' = None /\ depth' = 0
  BY <1>1, <1>4, SMT
<1>6. modified = FALSE
  BY <1>3, <1>4, ContainerAssumption, NothingKept DEF ContainerInv, MarkInv
<1>7. ContainerTypeOK'
  BY <1>1, <1>2, <1>5, SMT DEF ContainerTypeOK
<1>8. StackInv'
  BY <1>1, <1>4, <1>5, OthersKeepInv, SMT DEF StackInv
<1>9. MutexInv'
  BY <1>1, <1>3, <1>4, <1>5, OthersKeepInv, ContainerAssumption DEF MutexInv
<1>10. MarkInv'
  BY <1>1, <1>5, <1>6 DEF MarkInv
<1>11. PositionInv'
  BY <1>1, <1>2 DEF ContainerInv, ContainerTypeOK, PositionInv
<1> QED
  BY <1>7, <1>8, <1>9, <1>10, <1>11 DEF ContainerInv

\* A step that changes neither stacks nor locks.
LEMMA SameStacks ==
    ASSUME ContainerInv, UNCHANGED <<kind, modified, owner, depth, frames, guard>>
    PROVE  StackInv' /\ MutexInv' /\ MarkInv'
<1>1. Keeping' = Keeping
  BY DEF Keeping
<1>2. \A u : CallsInside(u)' = CallsInside(u) /\ Locks(u)' = Locks(u)
  BY DEF CallsInside, Locks, Top
<1>3. \A u, n : KeptBelow(frames[u], n)' = KeptBelow(frames[u], n)
  BY <1>1 DEF KeptBelow
<1>4. StackInv'
  BY <1>3 DEF ContainerInv, StackInv
<1>5. MutexInv'
  BY <1>2 DEF ContainerInv, MutexInv
<1>6. MarkInv'
  <2>1. KeptBelow(frames[owner], CallsInside(owner))'
          = KeptBelow(frames[owner], CallsInside(owner))
    BY <1>1, <1>2 DEF KeptBelow
  <2> QED
    BY <2>1 DEF ContainerInv, MarkInv
<1> QED
  BY <1>4, <1>5, <1>6

\* find() gives an iterator to an element.
LEMMA FindKeepsInv ==
    ASSUME ContainerInv, NEW t \in Threads, Find(t)
    PROVE  ContainerInv'
<1>1. PICK k \in DOMAIN container : position' = [position EXCEPT ![t] = k]
  BY DEF Find
<1>2. t \in guard /\ UNCHANGED <<kind, container, modified, owner, depth, frames, guard>>
  BY DEF Find
<1>3. ContainerTypeOK'
  BY <1>1, <1>2 DEF ContainerInv, ContainerTypeOK
<1>4. PositionInv'
  BY <1>1, <1>2 DEF ContainerInv, ContainerTypeOK, PositionInv
<1>5. StackInv' /\ MutexInv' /\ MarkInv'
  BY <1>2, SameStacks
<1> QED
  BY <1>3, <1>4, <1>5 DEF ContainerInv

-----------------------------------------------------------------------------
(* The containers *)

\* The initial state.
LEMMA ContainerInvInit ==
    ASSUME ContainerInit
    PROVE  ContainerInv
<1>1. ContainerTypeOK
  <2>1. DOMAIN container \subseteq Keys
    BY SMT DEF ContainerInit
  <2>2. frames \in [Threads -> Seq(Frame)]
    BY SMT DEF ContainerInit
  <2> QED
    BY <2>1, <2>2 DEF ContainerInit, ContainerTypeOK
<1>2. \A t \in Threads : frames[t] = <<>> /\ Len(frames[t]) = 0
  BY DEF ContainerInit
<1>3. StackInv
  BY <1>2, SMT DEF StackInv
<1>4. MutexInv /\ MarkInv /\ PositionInv
  BY SMT, <1>2, ContainerAssumption
     DEF ContainerInit, MutexInv, MarkInv, PositionInv, Locks, CallsInside
<1> QED
  BY <1>1, <1>3, <1>4 DEF ContainerInv

\* Every step of a container preserves its invariant.
LEMMA ContainerInvStep ==
    ASSUME ContainerInv, [ContainerNext]_containerVars
    PROVE  ContainerInv'
<1>1. CASE UNCHANGED containerVars
  <2>1. StackInv' /\ MutexInv' /\ MarkInv'
    BY <1>1, SameStacks DEF containerVars
  <2>2. ContainerTypeOK' /\ PositionInv'
    BY <1>1 DEF containerVars, ContainerInv, ContainerTypeOK, PositionInv
  <2> QED
    BY <2>1, <2>2 DEF ContainerInv
<1>2. ASSUME NEW t \in Threads, Call(t)
      PROVE  ContainerInv'
  <2>1. PICK op \in (Testing \ {"erase_at"}) \cup Looking, k \in Keys, v \in Values :
           frames' = [frames EXCEPT ![t] =
              Append(@, [op |-> op, key |-> k, value |-> v, at |-> "call", old |-> FALSE])]
    BY <1>2 DEF Call
  <2> DEFINE f == [op |-> op, key |-> k, value |-> v, at |-> "call", old |-> FALSE]
  <2>2. op \in Ops
    BY DEF Ops, Testing, Looking, Keeping, Momentary, Marked
  <2>3. f \in Frame /\ f.at = "call" /\ f.key \in Keys
    BY <2>2 DEF Frame
  <2>4. frames[t] = <<>> \/ At(t, "inside")
    BY <1>2 DEF Call
  <2>5. UNCHANGED <<kind, container, modified, owner, depth, guard, position>>
    BY <1>2 DEF Call
  <2>6. frames' = [frames EXCEPT ![t] = Append(frames[t], f)]
    BY <2>1
  <2> HIDE DEF f
  <2> QED
    BY <2>3, <2>4, <2>5, <2>6, PushKeepsInv
<1>3. ASSUME NEW t \in Threads, CallErase(t)
      PROVE  ContainerInv'
  <2> DEFINE f == [op |-> "erase_at", key |-> position[t],
                   value |-> Default, at |-> "call", old |-> FALSE]
  <2>1. position[t] \in Keys
    BY <1>3 DEF CallErase, ContainerInv, ContainerTypeOK
  <2>2. f \in Frame /\ f.at = "call" /\ f.key \in Keys
    BY <2>1, ContainerAssumption DEF Frame, Ops
  <2>3. /\ frames[t] = <<>> /\ frames' = [frames EXCEPT ![t] = Append(frames[t], f)]
        /\ UNCHANGED <<kind, container, modified, owner, depth, guard, position>>
    BY <1>3, SMT DEF CallErase
  <2> HIDE DEF f
  <2> QED
    BY <2>2, <2>3, PushKeepsInv
<1>4. ASSUME NEW t \in Threads, CallGuard(t)
      PROVE  ContainerInv'
  <2> DEFINE f == [op |-> "guard", key |-> None,
                   value |-> None, at |-> "guard", old |-> FALSE]
  <2>1. f \in Frame /\ f.at = "guard"
    BY DEF Frame, Ops
  <2>2. /\ frames[t] = <<>> /\ frames' = [frames EXCEPT ![t] = Append(frames[t], f)]
        /\ t \notin guard
        /\ UNCHANGED <<kind, container, modified, owner, depth, guard, position>>
    BY <1>4, SMT DEF CallGuard
  <2> HIDE DEF f
  <2> QED
    BY <2>1, <2>2, PushKeepsInv
<1> QED
  BY <1>1, <1>2, <1>3, <1>4, ThrowKeepsInv, EnterKeepsInv, LeaveKeepsInv,
     LockGuardKeepsInv, UnlockGuardKeepsInv, FindKeepsInv DEF ContainerNext, Proceed

\* A step of the composed specification is a step of the container, or none.
LEMMA ContainerPart ==
    ASSUME [Next]_<<containerVars, loggingVars, subject>>
    PROVE  [ContainerNext]_containerVars
BY DEF Next

\* The invariant holds in every state of a container.
LEMMA ContainerInvariant == Spec => []ContainerInv
<1>1. Init => ContainerInv
  BY ContainerInvInit DEF Init
<1>2. ContainerInv /\ [Next]_<<containerVars, loggingVars, subject>> => ContainerInv'
  BY ContainerPart, ContainerInvStep
<1> QED
  BY <1>1, <1>2, PTL DEF Spec

\* The calls that are inside are the lowest ones, in the owner's stack.
LEMMA InsideIsBelow ==
    ASSUME ContainerInv, NEW t \in Threads
    PROVE  /\ Inside(t) = 1 .. CallsInside(t)
           /\ Inside(t) # {} => owner = t
<1>1. frames[t] \in Seq(Frame) /\ Len(frames[t]) \in Nat /\ DOMAIN frames[t] = 1 .. Len(frames[t])
  BY SMT DEF ContainerInv, ContainerTypeOK
<1>2. CASE frames[t] = <<>>
  <2>1. Len(frames[t]) = 0 /\ CallsInside(t) = 0
    BY <1>2 DEF CallsInside
  <2> QED
    BY <1>1, <2>1, SMT DEF Inside
<1>3. CASE frames[t] # <<>>
  <2>1. Len(frames[t]) \in Nat \ {0} /\ Top(t) = frames[t][Len(frames[t])]
    BY <1>3, TopIsLast DEF ContainerInv
  <2>2. CallsInside(t) = IF Top(t).at = "inside" THEN Len(frames[t]) ELSE Len(frames[t]) - 1
    BY <1>3 DEF CallsInside
  <2>3. \A i \in 1 .. Len(frames[t]) : i # Len(frames[t]) => frames[t][i].at = "inside"
    BY <2>1, SMT DEF ContainerInv, StackInv
  <2>4. Inside(t) = 1 .. CallsInside(t)
    BY <1>1, <2>1, <2>2, <2>3, SMT DEF Inside
  <2>5. CallsInside(t) > 0 => owner = t
    BY <2>1, <2>2, LocksOwn, SMT DEF ContainerInv, MutexInv
  <2> QED
    BY <1>1, <2>1, <2>2, <2>4, <2>5, SMT
<1> QED
  BY <1>2, <1>3

\* What the invariant says of the mark.
LEMMA InvMarks ==
    ASSUME ContainerInv
    PROVE  MarkIsExact
<1>1. modified = \E t \in Threads : \E i \in Inside(t) : frames[t][i].op \in Keeping
  <2>1. CASE owner = None
    <3>1. \A t \in Threads : Inside(t) = {}
      BY <2>1, InsideIsBelow, ContainerAssumption
    <3> QED
      BY <2>1, <3>1 DEF ContainerInv, MarkInv
  <2>2. CASE owner # None
    <3>1. owner \in Threads
      BY <2>2 DEF ContainerInv, ContainerTypeOK
    <3>2. \A t \in Threads : t # owner => Inside(t) = {}
      BY InsideIsBelow
    <3>3. Inside(owner) = 1 .. CallsInside(owner)
      BY <3>1, InsideIsBelow
    <3>4. modified = \E i \in Inside(owner) : frames[owner][i].op \in Keeping
      BY <2>2, <3>3 DEF ContainerInv, MarkInv, KeptBelow
    <3> QED
      BY <3>1, <3>2, <3>4
  <2> QED
    BY <2>1, <2>2
<1>2. Cardinality({t \in Threads : Inside(t) # {}}) <= 1
  <2> DEFINE I == {t \in Threads : Inside(t) # {}}
  <2>1. I \subseteq {owner}
    BY InsideIsBelow
  <2>2. I = {} \/ I = {owner}
    BY <2>1
  <2>3. Cardinality({}) = 0 /\ Cardinality({owner}) = 1
    BY FS_EmptySet, FS_Singleton
  <2> QED
    BY <2>2, <2>3, SMT
<1> QED
  BY <1>1, <1>2 DEF MarkIsExact

\* For any threads, keys and nesting: the mark that scoped_set keeps is exact,
\* and the recursive mutex lets only one thread inside.
THEOREM MarkHolds == Spec => []MarkIsExact
<1>1. ContainerInv => MarkIsExact
  BY InvMarks
<1> QED
  BY <1>1, ContainerInvariant, PTL

\* A call is refused only by a call of the same thread further out.
LEMMA ThrowIsNested ==
    ASSUME ContainerInv, ContainerNext, NEW t \in Threads, At(t, "call"),
           Len(frames'[t]) < Len(frames[t])
    PROVE  Inside(t) # {}
<1>1. PICK u \in Threads :
         Call(u) \/ CallErase(u) \/ CallGuard(u) \/ Find(u) \/ UnlockGuard(u)
            \/ Throw(u) \/ Enter(u) \/ LockGuard(u) \/ Leave(u)
  BY DEF ContainerNext, Proceed
<1>2. frames \in [Threads -> Seq(Frame)] /\ Len(frames[t]) \in Nat /\ frames[t] # <<>>
  BY SMT DEF ContainerInv, ContainerTypeOK, At
<1>3. u = t
  <2>1. frames' = frames \/ \E x : frames' = [frames EXCEPT ![u] = x]
    <3>1. CASE Find(u) \/ UnlockGuard(u)  BY <3>1 DEF Find, UnlockGuard
    <3>2. CASE Call(u)  BY <3>2 DEF Call
    <3>3. CASE CallErase(u)  BY <3>3 DEF CallErase
    <3>4. CASE CallGuard(u)  BY <3>4 DEF CallGuard
    <3>5. CASE Enter(u)  BY <3>5 DEF Enter, Goto
    <3>6. CASE Throw(u) \/ LockGuard(u) \/ Leave(u)
      BY <3>6 DEF Throw, LockGuard, Leave, Pop
    <3> QED
      BY <1>1, <3>1, <3>2, <3>3, <3>4, <3>5, <3>6
  <2> QED
    BY <1>2, <2>1, SMT
<1>4. ~Enter(t)
  <2> SUFFICES ASSUME Enter(t)
               PROVE  FALSE
    OBVIOUS
  <2> DEFINE f == [Top(t) EXCEPT !.at = "inside", !.old = modified]
  <2>1. frames' = [frames EXCEPT ![t] = Append(Below(t), f)]
    BY DEF Enter, Goto
  <2>2. /\ Below(t) \in Seq(Frame) /\ Len(Below(t)) = Len(frames[t]) - 1
        /\ Top(t) \in Frame
    BY <1>2, TopIsLast DEF ContainerInv
  <2>3. f \in Frame
    BY <2>2 DEF ContainerInv, ContainerTypeOK, Frame
  <2> HIDE DEF f
  <2>4. Len(Append(Below(t), f)) = Len(frames[t])
    BY <1>2, <2>2, <2>3, Pushed, SMT
  <2> QED
    BY <1>2, <2>1, <2>4, SMT
<1>5. Throw(t)
  BY <1>1, <1>2, <1>3, <1>4 DEF At, Call, CallErase, CallGuard, Find, UnlockGuard, LockGuard, Leave
<1>6. modified = TRUE /\ owner \in {None, t}
  BY <1>5 DEF Throw, Refused, MayEnter, MayLock, ContainerInv, ContainerTypeOK
<1>7. PICK v \in Threads : Inside(v) # {}
  BY <1>6, InvMarks DEF MarkIsExact
<1> QED
  BY <1>6, <1>7, InsideIsBelow, ContainerAssumption

\* For any threads, keys and nesting: a call on a map or set throws "is being
\* modified" only if its own thread modifies the container further out.
THEOREM OnlyNestedThrow == Spec => OnlyNestedCallsThrow
<1>1. ContainerInv /\ [Next]_<<containerVars, loggingVars, subject>>
         => [\A t \in Threads :
               At(t, "call") /\ Len(frames'[t]) < Len(frames[t]) => Inside(t) # {}]_containerVars
  BY ContainerPart, ThrowIsNested
<1> QED
  BY <1>1, ContainerInvariant, PTL DEF Spec, OnlyNestedCallsThrow

\* Under a lock_guard only its holder changes the container.
LEMMA GuardExcludes ==
    ASSUME ContainerInv, ContainerNext, NEW t \in guard
    PROVE  /\ position[t] # None => position[t] \in DOMAIN container
           /\ container' # container => At(t, "inside")
<1>1. t \in Threads
  BY DEF ContainerInv, ContainerTypeOK
<1>2. owner = t
  BY <1>1, LocksOwn
<1>3. ASSUME container' # container
      PROVE  At(t, "inside")
  <2>1. PICK u \in Threads : Leave(u)
    BY <1>3 DEF ContainerNext, Proceed, Call, CallErase, CallGuard, Find, UnlockGuard,
                Throw, Enter, LockGuard
  <2>2. At(u, "inside")
    BY <2>1 DEF Leave
  <2> QED
    BY <1>2, <2>2, LocksOwn
<1> QED
  BY <1>1, <1>3 DEF ContainerInv, PositionInv

\* For any threads, keys and nesting: an iterator that was got under a
\* lock_guard stays valid under it, and no other thread changes the container.
THEOREM GuardKeeps == Spec => GuardKeepsIterators
<1>1. ContainerInv /\ [Next]_<<containerVars, loggingVars, subject>>
         => [\A t \in guard :
               /\ position[t] # None => position[t] \in DOMAIN container
               /\ container' # container => At(t, "inside")]_containerVars
  BY ContainerPart, GuardExcludes
<1> QED
  BY <1>1, ContainerInvariant, PTL DEF Spec, GuardKeepsIterators

-----------------------------------------------------------------------------
(* The logging *)

Appending == {"append_test", "append_log", "append_write", "append_done"}
Creating == {"create_test", "create_log", "create_done"}

LoggingTypeOK ==
    /\ at \in [Loggers -> {"idle"} \cup Appending \cup Creating]
    /\ shutdownOwner \in Loggers \cup {Nobody} /\ logOwner \in Loggers \cup {Nobody}
    /\ shuttingDown \in BOOLEAN /\ log \in {"none", "open", "closed"}
    /\ file \in Seq(Loggers \cup {"start", "end"})

\* log_append holds _shutting_down_mutex throughout, so that the destructor does
\* not begin while it runs, and _log_mutex while it writes.  The mutex has an
\* owner only while that thread is in a call, and before the owner gives it up
\* there is a log, or the destructor has run.
OwnersInv ==
    /\ log = "none" => file = <<>>
    /\ \A t \in Loggers :
        /\ at[t] \in Appending => shutdownOwner = t
        /\ at[t] \in {"append_log", "append_write"} => ~shuttingDown
        /\ at[t] = "append_write" => log # "none"
        /\ shutdownOwner = t => at[t] # "idle"
        /\ shutdownOwner = t /\ at[t] \in {"append_done", "create_done"}
              => log # "none" \/ shuttingDown

\* A create_logfile that has passed the test either holds the mutex, so that the
\* destructor has not begun; or another call does, or did, and that call makes
\* the log before the destructor can begin.
CreatorsInv ==
    \A t \in Loggers :
        /\ at[t] = "create_test" /\ shutdownOwner # t
              => log # "none" \/ shuttingDown \/ shutdownOwner # Nobody
        /\ at[t] = "create_log" /\ shutdownOwner = t => ~shuttingDown
        /\ at[t] = "create_log" /\ shutdownOwner # t
              => log # "none" \/ (shutdownOwner # Nobody /\ ~shuttingDown)

LoggingInv == LoggingTypeOK /\ OwnersInv /\ CreatorsInv

\* Every step of the logging preserves its invariant, provided that a mutex
\* ignores an unlock() by a thread that does not own it.
LEMMA LoggingInvStep ==
    ASSUME ForeignUnlock = "ignored", LoggingInv, [LoggingNext]_loggingVars
    PROVE  LoggingInv'
<1>s. do_append(<<>>, "start") \in Seq(Loggers \cup {"start", "end"})
  <2>1. <<>> \in Seq(Loggers \cup {"start", "end"})
    BY SMT
  <2> QED
    BY <2>1, SMT DEF do_append
<1> USE LoggingAssumption DEF LoggingInv, LoggingTypeOK, OwnersInv, CreatorsInv, Jump,
        Appending, Creating
<1>1. CASE UNCHANGED loggingVars
  BY <1>1 DEF loggingVars
<1>2. CASE Destroy
  BY <1>2, SMT DEF Destroy, MayDestroy, Closed, do_append
<1>3. ASSUME NEW t \in Loggers, AppendLock(t)
      PROVE  LoggingInv'
  BY <1>3 DEF AppendLock
<1>4. ASSUME NEW t \in Loggers, AppendTest(t)
      PROVE  LoggingInv'
  BY <1>4 DEF AppendTest
<1>5. ASSUME NEW t \in Loggers, AppendLogLock(t)
      PROVE  LoggingInv'
  BY <1>s, <1>5 DEF AppendLogLock, Opened
<1>6. ASSUME NEW t \in Loggers, AppendWrite(t)
      PROVE  LoggingInv'
  BY <1>6, SMT DEF AppendWrite, do_append
<1>7. ASSUME NEW t \in Loggers, AppendUnlock(t)
      PROVE  LoggingInv'
  BY <1>7 DEF AppendUnlock, Unlock
<1>8. ASSUME NEW t \in Loggers, CreateTryLock(t)
      PROVE  LoggingInv'
  BY <1>8 DEF CreateTryLock
<1>9. ASSUME NEW t \in Loggers, CreateTest(t)
      PROVE  LoggingInv'
  BY <1>9 DEF CreateTest
<1>10. ASSUME NEW t \in Loggers, CreateLog(t)
      PROVE  LoggingInv'
  BY <1>s, <1>10 DEF CreateLog, NeedsLog, Opened
<1>11. ASSUME NEW t \in Loggers, CreateUnlock(t)
      PROVE  LoggingInv'
  BY <1>11 DEF CreateUnlock, Unlock
<1> QED
  BY <1>1, <1>2, <1>3, <1>4, <1>5, <1>6, <1>7, <1>8, <1>9, <1>10, <1>11 DEF LoggingNext

\* The lines of the file are only added to.
LEMMA FileGrows ==
    ASSUME NEW S, NEW f \in Seq(S), NEW x \in S
    PROVE  /\ Len(do_append(f, x)) >= Len(f)
           /\ SubSeq(do_append(f, x), 1, Len(f)) = f
<1>1. /\ Append(f, x) \in Seq(S) /\ Len(Append(f, x)) = Len(f) + 1 /\ Len(f) \in Nat
      /\ \A i \in 1 .. Len(f) : Append(f, x)[i] = f[i]
  BY Pushed, SMT
<1>2. SubSeq(Append(f, x), 1, Len(f)) = f
  BY <1>1, SMT
<1> QED
  BY <1>1, <1>2, SMT DEF do_append

\* What a step may not do to the log.
LEMMA LogIsKeptStep ==
    ASSUME ForeignUnlock = "ignored", LoggingInv, [LoggingNext]_loggingVars
    PROVE  /\ file # <<>> => Len(file') >= Len(file) /\ SubSeq(file', 1, Len(file)) = file
           /\ shuttingDown => UNCHANGED <<log, file>>
<1> DEFINE S == Loggers \cup {"start", "end"}
<1>1. file \in Seq(S) /\ Len(file) \in Nat
  BY SMT DEF LoggingInv, LoggingTypeOK
<1>2. \/ UNCHANGED <<log, file>>
      \/ ~shuttingDown /\ file = <<>>
      \/ ~shuttingDown /\ \E x \in S : file' = do_append(file, x)
  <2>1. CASE UNCHANGED loggingVars
    BY <2>1 DEF loggingVars
  <2>2. CASE Destroy
    BY <2>2 DEF Destroy, Closed
  <2>3. ASSUME NEW t \in Loggers,
               AppendLock(t) \/ AppendTest(t) \/ AppendUnlock(t)
                  \/ CreateTryLock(t) \/ CreateTest(t) \/ CreateUnlock(t)
        PROVE  UNCHANGED <<log, file>>
    BY <2>3 DEF AppendLock, AppendTest, AppendUnlock, CreateTryLock, CreateTest, CreateUnlock
  <2>4. ASSUME NEW t \in Loggers, AppendLogLock(t)
        PROVE  UNCHANGED <<log, file>> \/ (~shuttingDown /\ file = <<>>)
    BY <2>4 DEF AppendLogLock, LoggingInv, OwnersInv
  <2>5. ASSUME NEW t \in Loggers, AppendWrite(t)
        PROVE  ~shuttingDown /\ \E x \in S : file' = do_append(file, x)
    BY <2>5 DEF AppendWrite, LoggingInv, OwnersInv
  <2>6. ASSUME NEW t \in Loggers, CreateLog(t)
        PROVE  UNCHANGED <<log, file>> \/ (~shuttingDown /\ file = <<>>)
    BY <2>6 DEF CreateLog, NeedsLog, LoggingInv, OwnersInv, CreatorsInv
  <2> QED
    BY <2>1, <2>2, <2>3, <2>4, <2>5, <2>6 DEF LoggingNext
<1>3. SubSeq(file, 1, Len(file)) = file
  BY <1>1, SMT
<1> QED
  BY <1>1, <1>2, <1>3, FileGrows, SMT

\* For any number of threads and calls: however log_append, create_logfile and
\* the destructor of the static instance race, the log is made once, no line is
\* lost, and nothing is written once the destructor has begun, provided that a
\* mutex ignores an unlock() by a thread that does not own it.
THEOREM LogKept == ForeignUnlock = "ignored" /\ Spec => LogIsKept
<1> SUFFICES ASSUME ForeignUnlock = "ignored"
             PROVE  Spec => LogIsKept
  OBVIOUS
<1>1. Init => LoggingInv
  <2> SUFFICES ASSUME LoggingInit
               PROVE  LoggingInv
    BY DEF Init
  <2>1. file \in Seq(Loggers \cup {"start", "end"})
    BY SMT DEF LoggingInit
  <2>2. LoggingTypeOK
    BY <2>1 DEF LoggingInit, LoggingTypeOK
  <2>3. OwnersInv /\ CreatorsInv
    BY LoggingAssumption DEF LoggingInit, OwnersInv, CreatorsInv, Appending
  <2> QED
    BY <2>2, <2>3 DEF LoggingInv
<1>2. [Next]_<<containerVars, loggingVars, subject>> => [LoggingNext]_loggingVars
  BY DEF Next
<1>3. LoggingInv /\ [Next]_<<containerVars, loggingVars, subject>> => LoggingInv'
  BY <1>2, LoggingInvStep
<1>4. LoggingInv /\ [Next]_<<containerVars, loggingVars, subject>>
         => [/\ file # <<>> => Len(file') >= Len(file) /\ SubSeq(file', 1, Len(file)) = file
             /\ shuttingDown => UNCHANGED <<log, file>>]_loggingVars
  BY <1>2, LogIsKeptStep
<1> QED
  BY <1>1, <1>3, <1>4, PTL DEF Spec, LogIsKept

=============================================================================
