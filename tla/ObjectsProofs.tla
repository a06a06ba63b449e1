---------------------------- MODULE ObjectsProofs ----------------------------
(* What is proved of item_registry, circular_buffer, the functions that keep  *)
(* the system's answers, stdout_redirector and com_initializer, each by itself *)
(* and for all values of its constants.                                        *)
EXTENDS ItemRegistry, CircularBuffer, SystemFolders, Scopes, TLAPS

-----------------------------------------------------------------------------
(* item_registry, for every limit and every width of size_t *)

\* Sets of numbers below the bounds: facts every step needs.
LEMMA PartitionFacts ==
    ASSUME IdentifiersPartition
    PROVE  /\ available \subseteq Nat /\ registered \subseteq Nat
           /\ next \in Nat /\ next <= SizeMax
           /\ \A n \in Nat : n \in Numbers <=>
                 (n \in available \/ n \in registered)
           /\ \A n \in available : n \notin registered
<1>1. SizeMax \in Nat /\ max_number_of_items \in Nat
  BY RegistryAssumption DEF IdentifiersPartition
<1>2. next \in Nat /\ next <= SizeMax
  BY <1>1 DEF IdentifiersPartition
<1>3. Numbers \subseteq Nat
  BY <1>1, <1>2 DEF Numbers
<1> QED
  BY <1>2, <1>3, Zenon DEF IdentifiersPartition

\* The constructor makes every number below the limit available.
LEMMA InitPartition == RegistryInit => IdentifiersPartition
<1> SUFFICES ASSUME RegistryInit PROVE IdentifiersPartition
  OBVIOUS
<1>1. SizeMax \in Nat /\ max_number_of_items \in Nat /\ max_number_of_items <= SizeMax
  BY RegistryAssumption DEF IdentifiersPartition, RegistryInit
<1>2. available = Numbers
  BY <1>1 DEF RegistryInit, Numbers, Limited
<1> QED
  BY <1>1, <1>2 DEF RegistryInit, IdentifiersPartition

\* Every call of register_item and deregister_item keeps the partition.
LEMMA NextPartition ==
    ASSUME IdentifiersPartition, [RegistryNext]_registryVars
    PROVE  IdentifiersPartition'
<1>1. SizeMax \in Nat /\ max_number_of_items \in Nat /\ max_number_of_items <= SizeMax
  BY RegistryAssumption DEF IdentifiersPartition, RegistryInit
<1>2. CASE RegisterAvailable
  BY <1>2, PartitionFacts
     DEF RegisterAvailable, Erased, IdentifiersPartition, Numbers, Limited
<1>3. CASE RegisterNext
  <2>1. next \in Nat /\ next < SizeMax /\ next' = next + 1
    BY <1>1, <1>3, PartitionFacts DEF RegisterNext, IsLastNumber
  <2>2. Numbers' = Numbers \cup {next} /\ next \notin Numbers
    BY <1>3, <2>1 DEF RegisterNext, Numbers, Limited
  <2> QED
    BY <1>1, <1>3, <2>1, <2>2 DEF RegisterNext, IdentifiersPartition
<1>4. CASE RegisterThrows
  BY <1>4 DEF RegisterThrows, IdentifiersPartition, Numbers, Limited
<1>5. CASE DeregisterThrows
  BY <1>5 DEF DeregisterThrows, IdentifiersPartition, Numbers, Limited
<1>6. CASE Deregister
  <2>1. PICK n \in Arguments :
           /\ ~Refused(n)
           /\ available' = available \cup {n}
           /\ registered' = registered \ {n}
           /\ next' = next /\ max_number_of_items' = max_number_of_items
    BY <1>6 DEF Deregister
  <2>2. n \in Numbers /\ n \notin available
    BY <1>1, <2>1, PartitionFacts
       DEF Arguments, Refused, Numbers, Limited
  <2>3. Numbers' = Numbers
    BY <2>1 DEF Numbers, Limited
  <2> QED
    BY <2>1, <2>2, <2>3 DEF IdentifiersPartition
<1>7. CASE UNCHANGED registryVars
  BY <1>7 DEF registryVars, IdentifiersPartition, Numbers, Limited
<1> QED
  BY <1>2, <1>3, <1>4, <1>5, <1>6, <1>7 DEF RegistryNext

\* No identifier of item_registry is lost or handed out twice, in limited
\* mode for all callers, in unlimited mode for callers that return only
\* numbers they were given.
THEOREM PartitionInvariant == RegistrySpec => []IdentifiersPartition
<1>1. RegistryInit => IdentifiersPartition
  BY InitPartition
<1>2. IdentifiersPartition /\ [RegistryNext]_registryVars => IdentifiersPartition'
  BY NextPartition
<1> QED
  BY <1>1, <1>2, PTL DEF RegistrySpec

\* The free identifiers of IdentifierPool, in terms of the registry's state.
LEMMA FreeNumbers ==
    ASSUME IdentifiersPartition
    PROVE  /\ Pool!Free \subseteq Nat
           /\ available \subseteq Pool!Free
           /\ \A n \in Pool!Free : n \in available \/ (~Limited /\ n >= next)
           /\ \A n \in Nat : ~Limited /\ next <= n /\ n < SizeMax => n \in Pool!Free
<1>1. SizeMax \in Nat /\ max_number_of_items \in Nat /\ max_number_of_items <= SizeMax
  BY RegistryAssumption DEF IdentifiersPartition, RegistryInit
<1>2. CASE Limited
  BY <1>1, <1>2, PartitionFacts DEF Pool!Free, Numbers
<1>3. CASE ~Limited
  BY <1>1, <1>3, PartitionFacts DEF Pool!Free, Numbers
<1> QED
  BY <1>2, <1>3

\* Every step of item_registry is a step of IdentifierPool.
LEMMA StepImplements ==
    ASSUME IdentifiersPartition, [RegistryNext]_registryVars
    PROVE  [Pool!PoolNext]_(Pool!poolVars)
<1>1. SizeMax \in Nat /\ max_number_of_items \in Nat /\ max_number_of_items <= SizeMax
  BY RegistryAssumption DEF IdentifiersPartition, RegistryInit
<1> DEFINE bound == IF Limited THEN max_number_of_items ELSE SizeMax
<1>8. [RegistryNext]_registryVars => bound' = bound
  BY DEF RegistryNext, RegisterAvailable, RegisterNext, RegisterThrows,
         DeregisterThrows, Deregister, registryVars, Limited
<1> HIDE DEF bound
<1>2. CASE RegisterAvailable
  <2>1. PICK n \in available :
           /\ \A m \in available : n <= m
           /\ registered' = registered \cup {n}
           /\ answer' = <<"registered", n>>
    BY <1>2 DEF RegisterAvailable, IsFirst
  <2>2. n \in Pool!Free
    BY <2>1, FreeNumbers
  <2>3. ASSUME NEW m \in Pool!Free PROVE n <= m
    <3>1. CASE m \in available  BY <2>1, <3>1
    <3>2. CASE ~Limited /\ m >= next
      <4>1. n \in Numbers  BY <2>1, PartitionFacts
      <4>2. n < next  BY <3>2, <4>1, PartitionFacts DEF Numbers
      <4> QED  BY <2>1, <3>2, <4>2, PartitionFacts, FreeNumbers
    <3> QED  BY <3>1, <3>2, FreeNumbers
  <2>4. Pool!Register
    BY <2>1, <2>2, <2>3 DEF Pool!Register
  <2> QED
    BY <1>8, <2>4 DEF Pool!PoolNext, bound
<1>3. CASE RegisterNext
  <2>1. /\ ~Limited /\ available = {} /\ next \in Nat /\ next < SizeMax
        /\ registered' = registered \cup {next}
        /\ answer' = <<"registered", next>>
    BY <1>1, <1>3, PartitionFacts DEF RegisterNext, IsLastNumber
  <2>2. next \in Pool!Free
    BY <2>1, FreeNumbers
  <2>3. \A m \in Pool!Free : next <= m
    BY <2>1, FreeNumbers
  <2>4. Pool!Register
    BY <2>1, <2>2, <2>3 DEF Pool!Register
  <2> QED
    BY <1>8, <2>4 DEF Pool!PoolNext, bound
<1>4. CASE RegisterThrows
  <2>1. /\ available = {} /\ (Limited \/ next = SizeMax)
        /\ registered' = registered /\ answer' = <<"overflow_error", 0>>
    BY <1>4 DEF RegisterThrows, IsLastNumber
  <2>2. Pool!Free = {}
    <3>1. CASE Limited  BY <1>4, <3>1, FreeNumbers DEF RegisterThrows
    <3>2. CASE ~Limited
      <4>1. next = SizeMax /\ available = {}
        BY <1>4, <3>2 DEF RegisterThrows, IsLastNumber
      <4> QED  BY <1>1, <3>2, <4>1, FreeNumbers DEF Pool!Free
    <3> QED  BY <3>1, <3>2
  <2>3. Pool!RegisterFull
    BY <2>1, <2>2 DEF Pool!RegisterFull
  <2> QED
    BY <1>8, <2>3 DEF Pool!PoolNext, bound
<1>5. CASE DeregisterThrows
  <2>1. PICK n \in Arguments :
           /\ Refused(n)
           /\ answer' = <<"runtime_error", n>>
           /\ registered' = registered
    BY <1>5 DEF DeregisterThrows
  <2>2. n \in (0 .. SizeMax) \ registered
    BY <1>1, <2>1, PartitionFacts DEF Arguments, Refused, Numbers
  <2>3. Pool!Refuse
    BY <2>1, <2>2 DEF Pool!Refuse
  <2> QED
    BY <1>8, <2>3 DEF Pool!PoolNext, bound
<1>6. CASE Deregister
  <2>1. PICK n \in Arguments :
           /\ ~Refused(n)
           /\ registered' = registered \ {n}
           /\ answer' = <<"deregistered", n>>
    BY <1>6 DEF Deregister
  <2>2. n \in registered
    BY <1>1, <2>1, PartitionFacts
       DEF Arguments, Refused, Numbers, Limited
  <2>3. Pool!Deregister
    BY <2>1, <2>2 DEF Pool!Deregister
  <2> QED
    BY <1>8, <2>3 DEF Pool!PoolNext, bound
<1>7. CASE UNCHANGED registryVars
  BY <1>7 DEF registryVars, Pool!poolVars, Limited
<1> QED
  BY <1>2, <1>3, <1>4, <1>5, <1>6, <1>7 DEF RegistryNext

\* item_registry implements IdentifierPool: register_item returns the
\* smallest free identifier and throws only when there is none, and
\* deregister_item succeeds for registered identifiers only.
THEOREM Refinement == RegistrySpec => ImplementsPool
<1>1. RegistryInit => Pool!PoolInit
  BY RegistryAssumption DEF RegistryInit, Pool!PoolInit, Limited
<1>2. IdentifiersPartition /\ [RegistryNext]_registryVars
         => [Pool!PoolNext]_(Pool!poolVars)
  BY StepImplements
<1>3. RegistrySpec => []IdentifiersPartition
  BY PartitionInvariant
<1> QED
  BY <1>1, <1>2, <1>3, PTL DEF RegistrySpec, ImplementsPool, Pool!PoolSpec

-----------------------------------------------------------------------------
(* circular_buffer, for every capacity and element type *)

\* The remainder of a sum of two indices, as the code's % S computes it.
LEMMA Wrap ==
    ASSUME NEW n \in Nat, n < 2 * S
    PROVE  n % S = IF n < S THEN n ELSE n - S
<1>1. S \in Nat /\ S > 0
  BY CapacityAssumption
<1>2. n % S \in 0 .. S - 1 /\ n = S * (n \div S) + (n % S) /\ n \div S \in Nat
  BY <1>1
<1> DEFINE q == n \div S
           r == n % S
<1>3. q \in Nat /\ r \in Nat /\ r < S /\ n = S * q + r
  BY <1>1, <1>2
<1> HIDE DEF q, r
<1>4. q = 0 \/ q = 1 \/ q >= 2
  BY <1>3
<1>5. CASE q = 0
  <2>1. n = r  BY <1>1, <1>3, <1>5
  <2> QED  BY <1>1, <1>3, <2>1 DEF r
<1>6. CASE q = 1
  <2>1. n = S + r  BY <1>1, <1>3, <1>6
  <2> QED  BY <1>1, <1>3, <2>1 DEF r
<1>7. CASE q >= 2
  <2>1. PICK d \in Nat : q = 2 + d  BY <1>3, <1>7
  <2>2. S * q = 2 * S + S * d  BY <1>1, <2>1
  <2>3. S * d \in Nat  BY <1>1, <2>1
  <2> QED  BY <1>1, <1>3, <2>2, <2>3
<1> QED
  BY <1>4, <1>5, <1>6, <1>7

\* The slot of the k-th oldest element.
Slot(k) ==
    IF full THEN IF k - 1 + i < S THEN k - 1 + i ELSE k - 1 + i - S ELSE k - 1

\* at() in terms of Slot.
ReadsSlots ==
    /\ size \in 0 .. S
    /\ Contents \in Seq(Values) /\ Len(Contents) = size
    /\ \A k \in 1 .. size : /\ Slot(k) \in 0 .. S - 1
                            /\ Index(k - 1) = Slot(k)
                            /\ Contents[k] = buffer[Slot(k)]

\* The elements of the buffer are in the slots Slot names.
LEMMA ContentsAt == BufferTypeOK => ReadsSlots
<1> SUFFICES ASSUME BufferTypeOK PROVE ReadsSlots
  OBVIOUS
<1>1. S \in Nat /\ S > 0 /\ i \in Nat /\ i < S /\ full \in BOOLEAN
  BY CapacityAssumption DEF BufferTypeOK
<1>2. size \in 0 .. S /\ (full => size = S) /\ (~full => size = i)
  BY <1>1 DEF size
<1>3. ASSUME NEW k \in 1 .. size
      PROVE  Slot(k) \in 0 .. S - 1 /\ Index(k - 1) = Slot(k)
  <2>1. CASE full
    <3>1. k - 1 + i \in Nat /\ k - 1 + i < 2 * S  BY <1>1, <1>2
    <3>2. Index(k - 1) = (k - 1 + i) % S  BY <2>1 DEF Index, Offset
    <3> QED  BY <1>1, <1>2, <2>1, <3>1, <3>2, Wrap DEF Slot
  <2>2. CASE ~full
    <3>1. k - 1 \in Nat /\ k - 1 < S  BY <1>1, <1>2
    <3>2. Index(k - 1) = (k - 1) % S
      <4>1. k - 1 + 0 = k - 1  BY <3>1
      <4> QED  BY <2>2, <4>1 DEF Index, Offset
    <3> QED  BY <1>1, <2>2, <3>1, <3>2, Wrap DEF Slot
  <2> QED  BY <2>1, <2>2
<1>4. \A k \in 1 .. size : buffer[Index(k - 1)] \in Values
  BY <1>3 DEF BufferTypeOK
<1>5. Contents \in Seq(Values) /\ Len(Contents) = size
  BY <1>2, <1>4 DEF Contents
<1>6. \A k \in 1 .. size : Contents[k] = buffer[Slot(k)]
  BY <1>3 DEF Contents
<1> QED
  BY <1>2, <1>3, <1>5, <1>6 DEF ReadsSlots

\* Every step of circular_buffer keeps the type invariant.
LEMMA NextTypeOK ==
    ASSUME BufferTypeOK, [BufferNext]_bufferVars
    PROVE  BufferTypeOK'
<1>1. S \in Nat /\ S > 0 /\ i \in Nat /\ i < S
  BY CapacityAssumption DEF BufferTypeOK
<1>2. ASSUME NEW v \in Values, Stored(v)
      PROVE  BufferTypeOK'
  <2>1. Advanced \in 0 .. S - 1
    BY <1>1, Wrap DEF Advanced
  <2> QED  BY <1>2, <2>1 DEF Stored, BecomesFull, BufferTypeOK
<1>3. ASSUME NEW slot, Assigned(slot)
      PROVE  BufferTypeOK'
  BY <1>3, Zenon DEF Assigned, BufferTypeOK
<1>4. CASE clear
  <2>1. 0 \in 0 .. S - 1  BY <1>1
  <2> QED  BY <1>4, <2>1, Zenon DEF clear, Cleared, BufferTypeOK
<1>5. CASE UNCHANGED bufferVars
  BY <1>5 DEF bufferVars, BufferTypeOK
<1> QED
  BY <1>2, <1>3, <1>4, <1>5
     DEF BufferNext, push_back, emplace_back, at, at_throws, subscript,
         assign_front, assign_back, assign_iterator

\* The type invariant of circular_buffer: _i always indexes the array.
THEOREM TypeCorrect == BufferSpec => []BufferTypeOK
<1>1. BufferInit => BufferTypeOK
  <2>1. 0 \in 0 .. S - 1  BY CapacityAssumption
  <2> QED  BY <2>1, Zenon DEF BufferInit, BufferTypeOK
<1>2. BufferTypeOK /\ [BufferNext]_bufferVars => BufferTypeOK'
  BY NextTypeOK
<1> QED
  BY <1>1, <1>2, PTL DEF BufferSpec

\* push_back drops the oldest element of a full buffer, and no other.
LEMMA PushImplements ==
    ASSUME BufferTypeOK, NEW v \in Values, Stored(v)
    PROVE  Window!WindowPush
<1> DEFINE old == IF Len(Contents) < S THEN Contents ELSE Tail(Contents)
<1>1. S \in Nat /\ S > 0 /\ i \in Nat /\ i < S /\ full \in BOOLEAN
  BY CapacityAssumption DEF BufferTypeOK
<1>2. BufferTypeOK'
  BY NextTypeOK DEF BufferNext, push_back
<1>3. /\ buffer' = [buffer EXCEPT ![i] = v]
      /\ i' = IF i + 1 < S THEN i + 1 ELSE 0
      /\ full' = (full \/ i' = 0)
  <2>1. Advanced = IF i + 1 < S THEN i + 1 ELSE 0
    BY <1>1, Wrap DEF Advanced
  <2> QED  BY <2>1 DEF Stored, BecomesFull
<1>4. /\ size' \in 0 .. S /\ Contents' \in Seq(Values) /\ Len(Contents') = size'
      /\ \A k \in 1 .. size' : Contents'[k] = buffer'[Slot(k)']
  <2>1. (BufferTypeOK => ReadsSlots)'
    BY ContentsAt, PTL
  <2> QED  BY <1>2, <2>1 DEF ReadsSlots
<1> HIDE DEF old
<1>5. PICK n \in 0 .. S - 1 : n = IF full THEN S - 1 ELSE i
  BY <1>1
<1>6. old \in Seq(Values) /\ Len(old) = n
  BY <1>1, <1>5, ContentsAt DEF ReadsSlots, size, old
<1>7. \A k \in 1 .. n : old[k] = buffer[IF full THEN Slot(k + 1) ELSE k - 1]
  BY <1>1, <1>5, ContentsAt DEF ReadsSlots, size, Slot, old
<1>8. size' = n + 1
  <2>1. CASE full \/ i + 1 = S
    <3>0. full \/ i' = 0  BY <1>1, <1>3, <2>1
    <3>1. full' = TRUE  BY <1>3, <3>0, Zenon
    <3>2. n + 1 = S  BY <1>1, <1>5, <2>1
    <3> QED  BY <3>1, <3>2 DEF size
  <2>2. CASE ~full /\ i + 1 < S
    <3>1. ~full' /\ i' = n + 1  BY <1>1, <1>3, <1>5, <2>2
    <3> QED  BY <3>1 DEF size
  <2> QED  BY <1>1, <2>1, <2>2
<1>9. \A k \in 1 .. n : Contents'[k] = old[k]
  <2> TAKE k \in 1 .. n
  <2>1. Slot(k)' = (IF full THEN Slot(k + 1) ELSE k - 1)
    BY <1>1, <1>3, <1>5 DEF Slot
  <2>2. Slot(k)' # i /\ Slot(k)' \in 0 .. S - 1
    BY <1>1, <1>5, <2>1 DEF Slot
  <2> QED  BY <1>3, <1>4, <1>7, <1>8, <2>1, <2>2 DEF BufferTypeOK
<1>10. Contents'[n + 1] = v
  <2>1. Slot(n + 1)' = i
    BY <1>1, <1>3, <1>5 DEF Slot
  <2> QED  BY <1>1, <1>3, <1>4, <1>8, <2>1 DEF BufferTypeOK
<1>11. Contents' = Append(old, v)
  BY <1>4, <1>6, <1>8, <1>9, <1>10
<1> QED
  BY <1>11 DEF Window!WindowPush, old

\* An assignment through any reference into the buffer changes one element.
LEMMA AssignImplements ==
    ASSUME BufferTypeOK, NEW k \in 1 .. size, Assigned(Slot(k))
    PROVE  Window!WindowAssign
<1>1. S \in Nat /\ S > 0 /\ i \in Nat /\ i < S /\ full \in BOOLEAN
  BY CapacityAssumption DEF BufferTypeOK
<1>2. PICK v \in Values : /\ buffer' = [buffer EXCEPT ![Slot(k)] = v]
                          /\ i' = i /\ full' = full
  BY Zenon DEF Assigned
<1>3. size \in 0 .. S /\ (full => size = S) /\ (~full => size = i)
  BY <1>1 DEF size
<1>4. \A j \in 1 .. size : Slot(j) \in 0 .. S - 1 /\ (j # k => Slot(j) # Slot(k))
  BY <1>1, <1>3 DEF Slot
<1>5. /\ Contents = [j \in 1 .. size |-> buffer[Slot(j)]]
      /\ Contents' = [j \in 1 .. size |-> buffer'[Slot(j)]]
  <2>1. \A j \in 1 .. size : Index(j - 1) = Slot(j)
    BY ContentsAt DEF ReadsSlots
  <2>2. size' = size /\ \A j : Index(j)' = Index(j)
    BY <1>2 DEF size, Index, Offset
  <2> QED  BY <2>1, <2>2 DEF Contents
<1>6. Contents' = [Contents EXCEPT ![k] = v]
  BY <1>2, <1>4, <1>5, Zenon DEF BufferTypeOK
<1>7. Len(Contents) = size
  BY ContentsAt DEF ReadsSlots
<1> QED
  BY <1>6, <1>7, Zenon DEF Window!WindowAssign

\* Every slot an accessor refers to is the slot of an element.
LEMMA AccessorSlots ==
    ASSUME BufferTypeOK
    PROVE  /\ \A pos \in 0 .. S - 1 :
                 pos < size => \E k \in 1 .. size : Index(pos) = Slot(k)
           /\ ~empty => \E k \in 1 .. size : front = Slot(k)
           /\ ~empty => \E k \in 1 .. size : back = Slot(k)
           /\ \A j \in 0 .. S - 1 :
                 j < EndIndex => \E k \in 1 .. size : j = Slot(k)
<1>1. S \in Nat /\ S > 0 /\ i \in Nat /\ i < S /\ full \in BOOLEAN
  BY CapacityAssumption DEF BufferTypeOK
<1>2. size \in 0 .. S /\ (full => size = S) /\ (~full => size = i)
  BY <1>1 DEF size
<1>3. ASSUME NEW pos \in 0 .. S - 1, pos < size
      PROVE  \E k \in 1 .. size : Index(pos) = Slot(k)
  <2>1. pos + 1 \in 1 .. size /\ pos + 1 - 1 = pos  BY <1>2, <1>3
  <2>2. Index(pos + 1 - 1) = Slot(pos + 1)  BY <2>1, ContentsAt DEF ReadsSlots
  <2> QED  BY <2>1, <2>2
<1>4. ASSUME ~empty
      PROVE  \E k \in 1 .. size : front = Slot(k)
  <2>1. 1 \in 1 .. size /\ Slot(1) = front
    BY <1>1, <1>2, <1>4 DEF empty, front, Offset, Slot
  <2> QED  BY <2>1
<1>5. ASSUME ~empty
      PROVE  \E k \in 1 .. size : back = Slot(k)
  <2>1. back = IF i = 0 THEN S - 1 ELSE i - 1
    BY <1>1, Wrap DEF back
  <2>2. size \in 1 .. size /\ Slot(size) = back
    BY <1>1, <1>2, <1>5, <2>1 DEF empty, Slot
  <2> QED  BY <2>2
<1>6. ASSUME NEW j \in 0 .. S - 1, j < EndIndex
      PROVE  \E k \in 1 .. size : j = Slot(k)
  <2>1. CASE ~full
    <3>1. j + 1 \in 1 .. size /\ Slot(j + 1) = j
      BY <1>1, <1>2, <1>6, <2>1 DEF Slot, EndIndex
    <3> QED  BY <3>1
  <2>2. CASE full /\ j >= i
    <3>1. j - i + 1 \in 1 .. size /\ Slot(j - i + 1) = j
      BY <1>1, <1>2, <2>2 DEF Slot
    <3> QED  BY <3>1
  <2>3. CASE full /\ j < i
    <3>1. j - i + 1 + S \in 1 .. size /\ Slot(j - i + 1 + S) = j
      BY <1>1, <1>2, <2>3 DEF Slot
    <3> QED  BY <3>1
  <2> QED  BY <1>1, <2>1, <2>2, <2>3
<1> QED
  BY <1>3, <1>4, <1>5, <1>6

\* circular_buffer implements SlidingWindow: after any sequence of pushes,
\* assignments and clears, at() reads the last S values in order.
THEOREM WindowRefinement == BufferSpec => ImplementsWindow
<1>1. BufferInit => Window!WindowInit
  <2> SUFFICES ASSUME BufferInit PROVE Window!WindowInit
    OBVIOUS
  <2>1. size = 0  BY DEF BufferInit, size
  <2> QED  BY <2>1 DEF Contents, Window!WindowInit
<1>2. BufferTypeOK /\ [BufferNext]_bufferVars => [Window!WindowNext]_Contents
  <2> SUFFICES ASSUME BufferTypeOK, [BufferNext]_bufferVars
               PROVE  [Window!WindowNext]_Contents
    OBVIOUS
  <2>1. ASSUME NEW v \in Values, Stored(v) PROVE Window!WindowNext
    BY <2>1, PushImplements DEF Window!WindowNext
  <2>2. ASSUME NEW k \in 1 .. size, Assigned(Slot(k)) PROVE Window!WindowNext
    BY <2>2, AssignImplements DEF Window!WindowNext
  <2>3. CASE clear
    <3>1. size' = 0  BY <2>3 DEF clear, Cleared, size
    <3>2. Contents' = <<>>  BY <3>1 DEF Contents
    <3> QED  BY <3>2 DEF Window!WindowNext, Window!WindowClear
  <2>4. CASE UNCHANGED bufferVars
    BY <2>4 DEF bufferVars, Contents, size, Index, Offset
  <2>5. CASE push_back \/ emplace_back
    BY <2>1, <2>5 DEF push_back, emplace_back
  <2>6. CASE at \/ subscript \/ assign_front \/ assign_back \/ assign_iterator
    BY <2>2, <2>6, AccessorSlots
       DEF at, subscript, assign_front, assign_back, assign_iterator
  <2> QED
    BY <2>3, <2>4, <2>5, <2>6 DEF BufferNext, at_throws
<1>3. BufferSpec => []BufferTypeOK
  BY TypeCorrect
<1> QED
  BY <1>1, <1>2, <1>3, PTL DEF BufferSpec, ImplementsWindow, Window!WindowSpec

\* AccessorsAgree: the elements that front(), back() and the iterators reach are
\* those of at().
THEOREM Accessors == BufferSpec => []AccessorsAgree
<1>1. BufferTypeOK => AccessorsAgree
  <2> SUFFICES ASSUME BufferTypeOK PROVE AccessorsAgree
    OBVIOUS
  <2>1. S \in Nat /\ S > 0 /\ i \in Nat /\ i < S /\ full \in BOOLEAN
    BY CapacityAssumption DEF BufferTypeOK
  <2>2. /\ size \in 0 .. S /\ Contents \in Seq(Values) /\ Len(Contents) = size
        /\ \A k \in 1 .. size : /\ Slot(k) \in 0 .. S - 1 /\ Index(k - 1) = Slot(k)
                                /\ Contents[k] = buffer[Slot(k)]
    BY ContentsAt DEF ReadsSlots
  <2>3. (empty <=> size = 0) /\ (full => size = S) /\ (~full => size = i) /\ EndIndex = size
    BY <2>1 DEF empty, size, EndIndex
  <2>4. empty <=> Contents = <<>>
    BY <2>2, <2>3
  <2>5. ASSUME ~empty
        PROVE  /\ buffer[front] = Contents[1] /\ buffer[back] = Contents[Len(Contents)]
               /\ {Index(pos) : pos \in 0 .. size - 1} = 0 .. EndIndex - 1
    <3>1. 1 \in 1 .. size /\ size \in 1 .. size
      BY <2>2, <2>3, <2>5
    <3>2. front = Slot(1)
      BY <2>1, <2>3, <3>1 DEF front, Offset, Slot
    <3>3. back = Slot(size)
      <4>1. back = IF i = 0 THEN S - 1 ELSE i - 1
        BY <2>1, Wrap DEF back
      <4> QED
        BY <2>1, <2>3, <2>5, <4>1 DEF empty, Slot
    <3>4. ASSUME NEW pos \in 0 .. size - 1
          PROVE  Index(pos) \in 0 .. EndIndex - 1
      <4>1. pos + 1 \in 1 .. size /\ pos + 1 - 1 = pos
        BY <2>2
      <4>2. Index(pos) = Slot(pos + 1)
        BY <2>2, <4>1
      <4> QED
        BY <2>1, <2>2, <2>3, <4>1, <4>2 DEF Slot
    <3>5. ASSUME NEW j \in 0 .. EndIndex - 1
          PROVE  \E pos \in 0 .. size - 1 : j = Index(pos)
      <4>1. j \in 0 .. S - 1 /\ j < EndIndex
        BY <2>1, <2>2, <2>3
      <4>2. PICK k \in 1 .. size : j = Slot(k)
        BY <4>1, AccessorSlots
      <4>3. k - 1 \in 0 .. size - 1
        BY <2>2
      <4> QED
        BY <2>2, <4>2, <4>3
    <3> QED
      BY <2>2, <3>1, <3>2, <3>3, <3>4, <3>5
  <2> QED
    BY <2>4, <2>5 DEF AccessorsAgree
<1> QED
  BY <1>1, TypeCorrect, PTL

-----------------------------------------------------------------------------
(* The functions that keep the system's answers *)

QueryRecords ==
    [function : Queries \cup {"none", "clock"},
     at : {"idle", "lock", "home", "known folder", "home lock", "exists", "read", "clock"},
     path : Homes \cup {Empty}, buffer : Nat]

\* A call of a thread: its buffer, and where a function can be.
QueryInv ==
    /\ query \in [Threads -> QueryRecords]
    /\ \A t \in Threads :
          /\ query[t].at = "lock" => query[t].function # "none"
          /\ query[t].at = "clock" => query[t].function = "clock"
          /\ query[t].at = "home" => query[t].function \in {"home", "data", "cache"}
          /\ query[t].at = "known folder" => system.platform = "windows"

\* The platform is chosen once, before the first call.
SystemInv ==
    \/ /\ system = Unset /\ cached_full_path = 0
       /\ \A t \in Threads : query[t].at = "idle"
    \/ system \in [platform : Platforms, length : 1 .. MaxLength]

\* Every home that was returned, and that a call is
\* about to return, is home_folder; a precision that was returned is the one that
\* is kept, or was not determined.
FoldersInv ==
    /\ SystemInv /\ QueryInv
    /\ home_folder \in Homes \cup {Empty}
    /\ \A t \in Threads :
          query[t].at = "exists" /\ query[t].function \in {"data", "cache"}
             /\ system.platform # "windows"
                => query[t].path = home_folder /\ home_folder # Empty
    /\ \A a \in answers :
          \/ a.about = "home" /\ a.is = home_folder /\ home_folder # Empty
          \/ a.about = "clock" /\ a.is \in {-1, clock_precision}
    /\ cached_full_path \in {0, system.length}

\* A path shorter than the buffer by more than one was read as a whole.
LEMMA WholePath ==
    ASSUME NEW n \in Nat, system.length \in Nat, ~TooSmall(n)
    PROVE  Written(n) = system.length
BY DEF Written, TooSmall

\* The end of a call, with what it returns.
LEMMA AnswerKeepsInv ==
    ASSUME FoldersInv, NEW t \in Threads, NEW path, Answer(t, path), UNCHANGED system,
           UNCHANGED cached_full_path,
           home_folder' \in Homes \cup {Empty},
           home_folder # Empty => home_folder' = home_folder,
           clock_precision # -1 => clock_precision' = clock_precision,
           query[t].function \in OneHome => path = home_folder' /\ home_folder' # Empty,
           query[t].function = "clock" => path = clock_precision'
    PROVE  FoldersInv'
<1> USE DEF FoldersInv
<1>1. /\ query' = [query EXCEPT ![t] = NoQuery]
      /\ \A a \in answers' :
            \/ a \in answers
            \/ /\ query[t].function \in OneHome \cup {"clock"}
               /\ a = [about |-> About(query[t].function), is |-> path]
  BY DEF Answer
<1>2. QueryInv'
  BY <1>1 DEF QueryInv, QueryRecords, NoQuery
<1>3. \A a \in answers' :
          \/ a.about = "home" /\ a.is = home_folder' /\ home_folder' # Empty
          \/ a.about = "clock" /\ a.is \in {-1, clock_precision'}
  BY <1>1 DEF About, OneHome
<1>4. \A u \in Threads : query'[u].at = "idle" \/ query'[u] = query[u]
  BY <1>1 DEF QueryInv, QueryRecords, NoQuery
<1>5. SystemInv'
  BY <1>4 DEF SystemInv
<1>6. cached_full_path' \in {0, system'.length}
  OBVIOUS
<1>7. ASSUME NEW u \in Threads, query'[u].at = "exists",
             query'[u].function \in {"data", "cache"}, system'.platform # "windows"
      PROVE  query'[u].path = home_folder' /\ home_folder' # Empty
  BY <1>4, <1>7
<1> QED
  BY <1>2, <1>3, <1>5, <1>6, <1>7

\* The end of a call by an exception.
LEMMA ThrowKeepsInv ==
    ASSUME FoldersInv, NEW t \in Threads, Throw(t),
           UNCHANGED <<system, home_folder, clock_precision, cached_full_path>>
    PROVE  FoldersInv'
<1>1. query' = [query EXCEPT ![t] = NoQuery] /\ answers' = answers
  BY DEF Throw
<1>2. QueryInv'
  BY <1>1 DEF QueryInv, QueryRecords, NoQuery, FoldersInv
<1>3. \A u \in Threads : query'[u].at = "idle" \/ query'[u] = query[u]
  BY <1>1 DEF QueryInv, QueryRecords, NoQuery, FoldersInv
<1>4. SystemInv'
  BY <1>3 DEF SystemInv, FoldersInv
<1> QED
  BY <1>1, <1>2, <1>3, <1>4 DEF FoldersInv

\* A step that changes nothing but the call of a thread that is under way.
LEMMA OnwardKeepsInv ==
    ASSUME FoldersInv, NEW t \in Threads, query[t].at # "idle", QueryInv',
           UNCHANGED <<system, home_folder, clock_precision, cached_full_path, answers>>,
           \A u \in Threads \ {t} : query'[u] = query[u],
           query'[t].at = "exists" /\ query'[t].function \in {"data", "cache"}
              /\ system.platform # "windows"
              => query'[t].path = home_folder /\ home_folder # Empty
    PROVE  FoldersInv'
<1>1. SystemInv'
  BY DEF SystemInv, FoldersInv
<1> QED
  BY <1>1 DEF FoldersInv

\* Every step of every function keeps the invariant.
LEMMA FoldersInvStep ==
    ASSUME FoldersInv, [FoldersNext]_folderVars
    PROVE  FoldersInv'
<1>0. QueryInv
  BY DEF FoldersInv
<1>1. CASE Boot
  BY <1>1 DEF Boot, FoldersInv, SystemInv, QueryInv, QueryRecords, Unset, Platforms
<1>2. ASSUME NEW t \in Threads, Ask(t)
      PROVE  FoldersInv'
  <2>1. PICK f \in Queries \cup {"clock"} :
          query' = [query EXCEPT ![t] = [NoQuery EXCEPT !.function = f, !.at = "lock"]]
    BY <1>2 DEF Ask
  <2>2. f # "none"
    BY DEF Queries
  <2>3. query'[t] = [function |-> f, at |-> "lock", path |-> Empty, buffer |-> 0]
    BY <1>0, <2>1 DEF NoQuery, QueryInv
  <2>4. /\ query'[t].at = "lock" /\ query'[t].function = f
        /\ \A u \in Threads \ {t} : query'[u] = query[u]
    BY <2>1, <2>3
  <2>5. query' \in [Threads -> QueryRecords]
    <3>1. query'[t] \in QueryRecords
      BY <2>3 DEF QueryRecords
    <3> QED
      BY <1>0, <2>1, <3>1 DEF QueryInv
  <2>6. UNCHANGED <<system, home_folder, cached_full_path, clock_precision, answers>>
    BY <1>2 DEF Ask
  <2>7. QueryInv'
    BY <1>0, <2>2, <2>4, <2>5, <2>6 DEF QueryInv, QueryRecords
  <2>8. SystemInv'
    BY <1>2, <2>6 DEF Ask, SystemInv, FoldersInv
  <2> QED
    BY <2>4, <2>6, <2>7, <2>8, SMTT(30) DEF FoldersInv
<1>3. ASSUME NEW t \in Threads, Lock(t)
      PROVE  FoldersInv'
  <2> DEFINE f == query[t].function
  <2>1. /\ query[t].at = "lock"
        /\ query' = [query EXCEPT ![t].at = AfterLock(f), ![t].buffer = FirstBuffer]
        /\ UNCHANGED <<system, home_folder, clock_precision, cached_full_path, answers>>
    BY <1>3 DEF Lock
  <2>2. f \in Queries \cup {"clock"}
    BY <1>0, <2>1 DEF QueryInv, QueryRecords
  <2>3. /\ AfterLock(f) \in {"home", "known folder", "home lock", "exists", "read", "clock"}
        /\ AfterLock(f) = "clock" => f = "clock"
        /\ AfterLock(f) = "home" => f = "home"
        /\ AfterLock(f) = "known folder" => system.platform = "windows"
        /\ AfterLock(f) = "exists" => f \in {"binary", "binary dir"}
    BY <2>2 DEF AfterLock, Queries
  <2>4. QueryInv'
    BY <1>0, <2>1, <2>2, <2>3, FoldersAssumption, ZenonT(40) DEF QueryInv, QueryRecords
  <2>5. query'[t].at = AfterLock(f) /\ query'[t].function = f
    <3>1. query[t] \in QueryRecords
      BY <1>0 DEF QueryInv
    <3>2. query'[t] = [query[t] EXCEPT !.at = AfterLock(f), !.buffer = FirstBuffer]
      BY <1>0, <2>1 DEF QueryInv, QueryRecords
    <3> QED
      BY <3>1, <3>2 DEF QueryRecords
  <2>6. \A u \in Threads \ {t} : query'[u] = query[u]
    BY <1>0, <2>1 DEF QueryInv
  <2> HIDE DEF f
  <2> QED
    BY <2>1, <2>3, <2>4, <2>5, <2>6, OnwardKeepsInv
<1>4. ASSUME NEW t \in Threads, get_home_dir(t)
      PROVE  FoldersInv'
  <2>1. query[t].at = "home" /\ UNCHANGED <<system, cached_full_path, clock_precision>>
    BY <1>4 DEF get_home_dir
  <2>2. ASSUME NEW h \in HomesNow(home_folder), home_folder' = h,
               query[t].function = "home", Answer(t, h)
        PROVE  FoldersInv'
    <3>1. h # Empty /\ h \in Homes /\ (home_folder # Empty => h = home_folder)
      BY <2>2, FoldersAssumption DEF HomesNow, Empty, FoldersInv
    <3> QED
      BY <2>1, <2>2, <3>1, AnswerKeepsInv
  <2>3. ASSUME NEW h \in HomesNow(home_folder), home_folder' = h,
               query[t].function # "home",
               query' = [query EXCEPT ![t].at = "exists", ![t].path = h], UNCHANGED answers
        PROVE  FoldersInv'
    <3>1. h # Empty /\ h \in Homes /\ (home_folder # Empty => h = home_folder)
      BY <2>3, FoldersAssumption DEF HomesNow, Empty, FoldersInv
    <3>2. QueryInv'
      BY <1>0, <2>1, <2>3, <3>1, ZenonT(40) DEF QueryInv, QueryRecords
    <3>3. query'[t].path = h /\ \A u \in Threads \ {t} : query'[u] = query[u]
      BY <1>0, <2>3 DEF QueryInv, QueryRecords
    <3> QED
      BY <2>1, <2>3, <3>1, <3>2, <3>3, Zenon DEF FoldersInv, SystemInv
  <2> QED
    BY <1>4, <2>1, <2>2, <2>3, ThrowKeepsInv DEF get_home_dir
<1>5. ASSUME NEW t \in Threads, query[t].function \in {"data", "cache"},
             HomeLock(t) \/ KnownFolder(t) \/ FolderExists(t)
      PROVE  FoldersInv'
  <2>1. CASE HomeLock(t)
    <3>1. query[t].at = "home lock" /\ query' = [query EXCEPT ![t].at = "home"]
      BY <2>1 DEF HomeLock
    <3>2. QueryInv'
      BY <1>0, <1>5, <2>1, <3>1, ZenonT(40) DEF HomeLock, QueryInv, QueryRecords
    <3>3. query'[t].at = "home" /\ \A u \in Threads \ {t} : query'[u] = query[u]
      BY <1>0, <3>1 DEF QueryInv, QueryRecords
    <3> QED
      BY <2>1, <3>1, <3>2, <3>3, OnwardKeepsInv DEF HomeLock
  <2>2. CASE KnownFolder(t)
    <3>1. /\ query[t].at = "known folder"
          /\ UNCHANGED <<system, home_folder, cached_full_path, clock_precision>>
      BY <2>2 DEF KnownFolder
    <3>2. ASSUME NEW h \in Homes, UNCHANGED answers,
                 query' = [query EXCEPT ![t].at = "exists", ![t].path = h]
          PROVE  FoldersInv'
      <4>1. QueryInv'
        BY <1>0, <3>1, <3>2, ZenonT(40) DEF QueryInv, QueryRecords
      <4>2. system.platform = "windows" /\ \A u \in Threads \ {t} : query'[u] = query[u]
        BY <1>0, <3>1, <3>2 DEF QueryInv, QueryRecords
      <4> QED
        BY <3>1, <3>2, <4>1, <4>2, OnwardKeepsInv
    <3> QED
      BY <2>2, <3>1, <3>2, ThrowKeepsInv DEF KnownFolder
  <2>3. CASE FolderExists(t)
    <3>1. /\ query[t].at = "exists"
          /\ UNCHANGED <<system, home_folder, cached_full_path, clock_precision>>
          /\ Answer(t, query[t].path) \/ Throw(t)
      BY <2>3 DEF FolderExists
    <3>2. query[t].function \in OneHome
             => query[t].path = home_folder /\ home_folder # Empty
      BY <1>5, <3>1 DEF OneHome, FoldersInv
    <3> QED
      BY <1>5, <3>1, <3>2, AnswerKeepsInv, ThrowKeepsInv DEF FoldersInv
  <2> QED
    BY <1>5, <2>1, <2>2, <2>3
<1>6. ASSUME NEW t \in Threads, query[t].function \in {"binary", "binary dir"}, ReadPath(t)
      PROVE  FoldersInv'
  <2> DEFINE n == query[t].buffer
  <2>1. query[t].at = "read" /\ UNCHANGED <<system, home_folder, clock_precision>>
    BY <1>6 DEF ReadPath
  <2>2. system \in [platform : Platforms, length : 1 .. MaxLength] /\ system.length \in Nat
    BY <2>1, FoldersAssumption DEF FoldersInv, SystemInv
  <2>3. n \in Nat
    BY <1>0 DEF QueryInv, QueryRecords
  <2>4. CASE Throw(t) /\ UNCHANGED cached_full_path
    BY <2>1, <2>4, ThrowKeepsInv
  <2>5. CASE query' = [query EXCEPT ![t].buffer = 2 * n] /\ UNCHANGED <<cached_full_path, answers>>
    <3>1. 2 * n \in Nat
      BY <2>3
    <3>2. QueryInv'
      BY <1>0, <2>1, <2>5, <3>1 DEF QueryInv, QueryRecords
    <3>3. query'[t].at = "read" /\ \A u \in Threads \ {t} : query'[u] = query[u]
      BY <1>0, <2>1, <2>5 DEF QueryInv, QueryRecords
    <3> QED
      BY <2>1, <2>5, <3>2, <3>3, OnwardKeepsInv
  <2>6. CASE /\ system.platform # "apple" => ~TooSmall(n)
             /\ cached_full_path' = IF system.platform = "apple" THEN system.length ELSE Written(n)
             /\ query' = [query EXCEPT ![t].at = "exists"]
             /\ UNCHANGED <<lock, answers>>
    <3>1. cached_full_path' = system.length
      BY <2>2, <2>3, <2>6, WholePath
    <3>2. QueryInv'
      BY <1>0, <2>1, <2>6 DEF QueryInv, QueryRecords
    <3>3. query'[t].function = query[t].function /\ \A u \in Threads \ {t} : query'[u] = query[u]
      BY <1>0, <2>6 DEF QueryInv, QueryRecords
    <3> QED
      BY <1>6, <2>1, <2>2, <2>6, <3>1, <3>2, <3>3 DEF FoldersInv, SystemInv
  <2> QED
    BY <1>6, <2>4, <2>5, <2>6 DEF ReadPath
<1>7. ASSUME NEW t \in Threads, query[t].function \in {"binary", "binary dir"}, BinaryExists(t)
      PROVE  FoldersInv'
  <2>1. /\ UNCHANGED <<system, home_folder, cached_full_path, clock_precision>>
        /\ Answer(t, cached_full_path) \/ Throw(t)
    BY <1>7 DEF BinaryExists
  <2>2. query[t].function \notin OneHome \cup {"clock"}
    BY <1>7 DEF OneHome
  <2> QED
    BY <2>1, <2>2, AnswerKeepsInv, ThrowKeepsInv DEF FoldersInv
<1>8. ASSUME NEW t \in Threads, get_clock_precision(t)
      PROVE  FoldersInv'
  <2>1. /\ query[t].at = "clock" /\ Answer(t, clock_precision')
        /\ clock_precision # -1 => clock_precision' = clock_precision
        /\ UNCHANGED <<system, home_folder, cached_full_path>>
    BY <1>8 DEF get_clock_precision
  <2>2. query[t].function = "clock" /\ "clock" \notin OneHome
    BY <1>0, <2>1 DEF QueryInv, QueryRecords, OneHome
  <2> QED
    BY <2>1, <2>2, AnswerKeepsInv DEF FoldersInv
<1>9. CASE UNCHANGED folderVars
  BY <1>9 DEF folderVars, FoldersInv, SystemInv, QueryInv, QueryRecords
<1> QED
  BY <1>1, <1>2, <1>3, <1>4, <1>5, <1>6, <1>7, <1>8, <1>9
     DEF FoldersNext, get_user_data_dir, get_user_cache_dir, get_current_binary_path

\* AnswersAgree: the functions give one answer in the life of the process.
THEOREM OneAnswer == FoldersSpec => []AnswersAgree
<1>1. FoldersInit => FoldersInv
  <2> SUFFICES ASSUME FoldersInit PROVE FoldersInv
    OBVIOUS
  <2>1. QueryInv
    BY DEF FoldersInit, QueryInv, QueryRecords, NoQuery
  <2>2. SystemInv
    BY DEF FoldersInit, SystemInv, NoQuery
  <2> QED
    BY <2>1, <2>2 DEF FoldersInit, FoldersInv, NoQuery
<1>2. FoldersInv /\ [FoldersNext]_folderVars => FoldersInv'
  BY FoldersInvStep
<1>3. FoldersInv => AnswersAgree
  <2> SUFFICES ASSUME FoldersInv PROVE AnswersAgree
    OBVIOUS
  <2>1. ASSUME NEW a \in answers, NEW b \in answers, a.about = b.about, a.is # -1, b.is # -1
        PROVE  a.is = b.is
    BY <2>1 DEF FoldersInv
  <2> QED
    BY <2>1 DEF FoldersInv, AnswersAgree
<1> QED
  BY <1>1, <1>2, <1>3, PTL DEF FoldersSpec

-----------------------------------------------------------------------------
(* stdout_redirector and com_initializer *)

Initializers == [built : BOOLEAN, succeeded : BOOLEAN, deinitialize : BOOLEAN]

\* At most one com_initializer will take an initialization back, the one that
\* was told S_OK; one more initialization is there for all the others.
ScopesInv ==
    /\ DOMAIN redirector = Slots
    /\ stdout \in Targets => \E o \in Slots : redirector[o] = stdout
    /\ com.count \in Nat /\ com = [count |-> com.count, mode |-> com.mode]
    /\ initializer \in [Slots -> Initializers]
    /\ \A o \in Slots : initializer[o].deinitialize => initializer[o].succeeded
    /\ \A o \in Slots : initializer[o].succeeded => com.count >= 1
    /\ \A o, p \in Slots : initializer[o].deinitialize /\ initializer[p].deinitialize => o = p
    /\ \A o, p \in Slots :
          initializer[o].deinitialize /\ initializer[p].succeeded /\ o # p => com.count >= 2

\* Building and ending the objects keeps what the others rely on.
LEMMA ScopesInvStep ==
    ASSUME ScopesInv, [ScopesNext]_scopeVars
    PROVE  ScopesInv'
<1> USE DEF Initializers
<1>1. ASSUME NEW o \in Slots, Redirect(o)
      PROVE  ScopesInv'
  BY <1>1, ScopesAssumption DEF Redirect, ScopesInv
<1>2. ASSUME NEW o \in Slots, EndRedirect(o)
      PROVE  ScopesInv'
  BY <1>2, ScopesAssumption DEF EndRedirect, Reset, ScopesInv
<1>3. ASSUME NEW o \in Slots, BuildInitializer(o)
      PROVE  ScopesInv'
  <2>1. PICK mode \in {"MTA", "STA"}, do_throw \in BOOLEAN :
          LET hr == Initialize(mode)
          IN  /\ com' = IF hr = "failed" THEN com ELSE [count |-> com.count + 1, mode |-> mode]
              /\ initializer' = IF hr = "failed" /\ do_throw THEN initializer
                                ELSE [initializer EXCEPT ![o] =
                                        [built |-> TRUE, succeeded |-> hr # "failed", deinitialize |-> Deinitialize(hr)]]
    BY <1>3, Zenon DEF BuildInitializer
  <2>2. UNCHANGED <<stdout, redirector>>
    BY <1>3 DEF BuildInitializer
  <2>3. CASE Initialize(mode) = "failed" /\ do_throw
    BY <2>1, <2>2, <2>3 DEF ScopesInv
  <2>4. CASE Initialize(mode) = "failed" /\ ~do_throw
    <3>1. /\ com' = com
          /\ initializer' = [initializer EXCEPT ![o] =
                [built |-> TRUE, succeeded |-> FALSE, deinitialize |-> FALSE]]
      BY <2>1, <2>4, Zenon DEF Deinitialize
    <3> QED
      BY <2>2, <3>1 DEF ScopesInv
  <2>5. CASE Initialize(mode) = "S_OK"
    <3>1. com.count = 0
      BY <2>5 DEF Initialize, ScopesInv
    <3>2. com' = [count |-> com.count + 1, mode |-> mode]
      BY <2>1, <2>5
    <3>3. ("S_OK" # "failed") = TRUE /\ Deinitialize("S_OK") = TRUE
      BY DEF Deinitialize
    <3>4. initializer' = [initializer EXCEPT ![o] =
             [built |-> TRUE, succeeded |-> TRUE, deinitialize |-> TRUE]]
      <4>1. initializer' = [initializer EXCEPT ![o] =
               [built |-> TRUE, succeeded |-> "S_OK" # "failed",
                deinitialize |-> Deinitialize("S_OK")]]
        BY <2>1, <2>5
      <4> QED
        BY <3>3, <4>1, Zenon
    <3> QED
      BY <2>2, <3>1, <3>2, <3>4 DEF ScopesInv
  <2>6. CASE Initialize(mode) = "S_FALSE"
    <3>1. com.count >= 1
      BY <2>6 DEF Initialize, ScopesInv
    <3>2. com' = [count |-> com.count + 1, mode |-> mode]
      BY <2>1, <2>6
    <3>3. ("S_FALSE" # "failed") = TRUE /\ Deinitialize("S_FALSE") = FALSE
      BY DEF Deinitialize
    <3>4. initializer' = [initializer EXCEPT ![o] =
             [built |-> TRUE, succeeded |-> TRUE, deinitialize |-> FALSE]]
      <4>1. initializer' = [initializer EXCEPT ![o] =
               [built |-> TRUE, succeeded |-> "S_FALSE" # "failed",
                deinitialize |-> Deinitialize("S_FALSE")]]
        BY <2>1, <2>6
      <4> QED
        BY <3>3, <4>1, Zenon
    <3> QED
      BY <2>2, <3>1, <3>2, <3>4 DEF ScopesInv
  <2> QED
    BY <2>3, <2>4, <2>5, <2>6 DEF Initialize
<1>4. ASSUME NEW o \in Slots, EndInitializer(o)
      PROVE  ScopesInv'
  BY <1>4 DEF EndInitializer, Uninitialized, NotBuilt, ScopesInv
<1>5. CASE UNCHANGED scopeVars
  BY <1>5 DEF scopeVars, ScopesInv
<1> QED
  BY <1>1, <1>2, <1>3, <1>4, <1>5 DEF ScopesNext

\* ScopesAreKept: the redirectors and initializers may end in any order.
THEOREM ScopesKept == ScopesSpec => []ScopesAreKept
<1>1. ScopesInit => ScopesInv
  BY ScopesAssumption DEF ScopesInit, ScopesInv, Initializers, NotBuilt
<1>2. ScopesInv /\ [ScopesNext]_scopeVars => ScopesInv'
  BY ScopesInvStep
<1>3. ScopesInv => ScopesAreKept
  BY DEF ScopesInv, ScopesAreKept
<1> QED
  BY <1>1, <1>2, <1>3, PTL DEF ScopesSpec

=============================================================================
