---------------------------- MODULE PointerProofs ----------------------------
(* What is proved of the buffers, the scopes and the pointers, for all sets of *)
(* addresses and variables and any nesting of scopes, where append moves no   *)
(* block inside a scope (MovesInScope is FALSE).                               *)
EXTENDS Pointer, FiniteSetTheorems, TLAPS

\* The steps that need arithmetic, or many equalities, name SMT.
USE Zenon

-----------------------------------------------------------------------------
(* Counting *)

All == Plain \cup Shared
Bindings == [All -> Addresses \cup {Null}]
Scopes == [old : SUBSET Addresses, initial : Nat]

\* How many of the stable_reference_buffers refer to a, and in how many of the
\* scopes a was made, or seen when they began.
Count(f, a) == Cardinality({x \in Shared : f[x] = a})
Cover(s, a) == Cardinality({k \in DOMAIN s : a \notin s[k].old})
Seen(s, a) == Cardinality({k \in DOMAIN s : a \in s[k].old})
In(a, A) == IF a \in A THEN 1 ELSE 0
Is(a, b) == IF a = b THEN 1 ELSE 0

\* A block has an owner if and only if it counts one, and two if it has two.
LEMMA CountOwners ==
    ASSUME NEW f \in Bindings, NEW a
    PROVE  /\ Count(f, a) \in Nat
           /\ Count(f, a) = 0 <=> \A x \in Shared : f[x] # a
           /\ \A x, y \in Shared : x # y /\ f[x] = a /\ f[y] = a => Count(f, a) >= 2
<1> DEFINE O == {x \in Shared : f[x] = a}
<1>1. IsFiniteSet(O)
  BY BufferAssumption, FS_Subset
<1>2. Cardinality(O) \in Nat /\ (Cardinality(O) = 0 <=> O = {})
  BY <1>1, FS_CardinalityType, FS_EmptySet
<1>3. ASSUME NEW x \in Shared, NEW y \in Shared, x # y, f[x] = a, f[y] = a
      PROVE  Cardinality(O) >= 2
  <2>1. IsFiniteSet(O \ {x}) /\ Cardinality(O \ {x}) = Cardinality(O) - 1
    BY <1>1, <1>3, FS_RemoveElement
  <2>2. Cardinality(O \ {x}) \in Nat /\ (Cardinality(O \ {x}) = 0 <=> O \ {x} = {})
    BY <2>1, FS_CardinalityType, FS_EmptySet
  <2>3. y \in O \ {x}
    BY <1>3
  <2> HIDE DEF O
  <2> QED
    BY <1>2, <2>1, <2>2, <2>3, SMT
<1> QED
  BY <1>2, <1>3 DEF Count

\* A variable that takes another block is counted there instead.
LEMMA CountBind ==
    ASSUME NEW f \in Bindings, NEW x \in Shared, NEW v \in Addresses \cup {Null}, NEW a
    PROVE  Count([f EXCEPT ![x] = v], a) = Count(f, a) + Is(a, v) - Is(a, f[x])
<1> DEFINE O == {y \in Shared : f[y] = a}
           P == {y \in Shared : [f EXCEPT ![x] = v][y] = a}
<1>0. Count(f, a) = Cardinality(O) /\ Count([f EXCEPT ![x] = v], a) = Cardinality(P)
  BY DEF Count
<1>1. IsFiniteSet(O) /\ Cardinality(O) \in Nat
  BY BufferAssumption, FS_Subset, FS_CardinalityType
<1>2. CASE a = v /\ a # f[x]
  <2>1. P = O \cup {x} /\ x \notin O
    BY <1>2 DEF Bindings, All
  <2>2. Cardinality(O \cup {x}) = Cardinality(O) + 1
    BY <1>1, <2>1, FS_AddElement
  <2>3. Is(a, v) = 1 /\ Is(a, f[x]) = 0
    BY <1>2 DEF Is
  <2> HIDE DEF O, P
  <2> QED
    BY <1>0, <1>1, <2>1, <2>2, <2>3, SMT
<1>3. CASE a # v /\ a = f[x]
  <2>1. P = O \ {x} /\ x \in O
    BY <1>3 DEF Bindings, All
  <2>2. Cardinality(O \ {x}) = Cardinality(O) - 1
    BY <1>1, <2>1, FS_RemoveElement
  <2>3. Is(a, v) = 0 /\ Is(a, f[x]) = 1
    BY <1>3 DEF Is
  <2> HIDE DEF O, P
  <2> QED
    BY <1>0, <1>1, <2>1, <2>2, <2>3, SMT
<1>4. CASE (a = v) <=> (a = f[x])
  <2>1. P = O
    BY <1>4 DEF Bindings, All
  <2>2. Is(a, v) = Is(a, f[x]) /\ Is(a, v) \in {0, 1}
    BY <1>4 DEF Is
  <2> HIDE DEF O, P
  <2> QED
    BY <1>0, <1>1, <2>1, <2>2, SMT
<1> QED
  BY <1>2, <1>3, <1>4

LEMMA BindCounts ==
    ASSUME buf \in Bindings, NEW x \in Shared, NEW v \in Addresses \cup {Null},
           buf' = [buf EXCEPT ![x] = v]
    PROVE  \A a : Count(buf', a) = Count(buf, a) + Is(a, v) - Is(a, buf[x])
  BY CountBind

\* What a plain buffer takes is not counted.
LEMMA CountPlain ==
    ASSUME NEW f \in Bindings, NEW g \in Bindings, \A x \in Shared : g[x] = f[x], NEW a
    PROVE  Count(g, a) = Count(f, a)
<1>1. {x \in Shared : g[x] = a} = {x \in Shared : f[x] = a}
  OBVIOUS
<1> QED
  BY <1>1 DEF Count

\* A scope either covers an address or has seen it.
LEMMA CoverSeen ==
    ASSUME NEW s \in Seq(Scopes), NEW a
    PROVE  /\ Cover(s, a) \in Nat /\ Seen(s, a) \in Nat
           /\ Cover(s, a) + Seen(s, a) = Len(s)
           /\ Cover(s, a) = 0 <=> \A k \in DOMAIN s : a \in s[k].old
<1> DEFINE C == {k \in DOMAIN s : a \notin s[k].old}
           T == {k \in DOMAIN s : a \in s[k].old}
<1>1. DOMAIN s = 1 .. Len(s) /\ Len(s) \in Nat
  BY SMT
<1>2. IsFiniteSet(1 .. Len(s)) /\ Cardinality(1 .. Len(s)) = Len(s)
  <2>1. \A n \in Nat : IsFiniteSet(1 .. n) /\ Cardinality(1 .. n) = n
    <3> TAKE n \in Nat
    <3>1. IsFiniteSet(1 .. n) /\ Cardinality(1 .. n) = (IF 1 > n THEN 0 ELSE n - 1 + 1)
      BY FS_Interval, SMT
    <3> QED
      BY <3>1, SMT
  <2> QED
    BY <1>1, <2>1
<1>3. IsFiniteSet(C) /\ IsFiniteSet(T)
  BY <1>1, <1>2, FS_Subset
<1>4. C \cup T = 1 .. Len(s) /\ C \cap T = {}
  BY <1>1
<1>5. Cardinality(C) \in Nat /\ Cardinality(T) \in Nat /\ (Cardinality(C) = 0 <=> C = {})
  <2> HIDE DEF C, T
  <2>1. Cardinality(C) \in Nat /\ Cardinality(T) \in Nat
    BY <1>3, FS_CardinalityType
  <2>2. Cardinality(C) = 0 <=> C = {}
    BY <1>3, FS_EmptySet
  <2> QED
    BY <2>1, <2>2
<1>6. Cardinality(C \cup T) = Cardinality(C) + Cardinality(T) - Cardinality(C \cap T)
  BY <1>3, FS_Union
<1>7. Cardinality({}) = 0
  BY FS_EmptySet
<1>8. Cardinality(C) + Cardinality(T) = Len(s)
  <2> HIDE DEF C, T
  <2>1. Cardinality(C \cup T) = Len(s) /\ Cardinality(C \cap T) = 0
    BY <1>2, <1>4, <1>7
  <2> QED
    BY <1>1, <1>5, <1>6, <2>1, SMT
<1> QED
  BY <1>5, <1>8 DEF Cover, Seen

\* A scope that begins covers none of the blocks it finds.
LEMMA CoverPush ==
    ASSUME NEW s \in Seq(Scopes), NEW e \in Scopes, NEW a \in e.old
    PROVE  Cover(Append(s, e), a) = Cover(s, a)
<1>1. {k \in DOMAIN Append(s, e) : a \notin Append(s, e)[k].old}
        = {k \in DOMAIN s : a \notin s[k].old}
  BY SMT
<1> QED
  BY <1>1 DEF Cover

\* A scope that ends no longer covers the blocks that are new since it began.
LEMMA CoverPop ==
    ASSUME NEW s \in Seq(Scopes), s # <<>>, NEW a
    PROVE  Cover(SubSeq(s, 1, Len(s) - 1), a) = Cover(s, a) - 1 + In(a, s[Len(s)].old)
<1> DEFINE n == Len(s)
           C == {k \in DOMAIN s : a \notin s[k].old}
           D == {k \in DOMAIN SubSeq(s, 1, n - 1) : a \notin SubSeq(s, 1, n - 1)[k].old}
<1>1. /\ n \in Nat /\ n >= 1 /\ DOMAIN s = 1 .. n
      /\ DOMAIN SubSeq(s, 1, n - 1) = 1 .. n - 1
      /\ \A k \in 1 .. n - 1 : SubSeq(s, 1, n - 1)[k] = s[k]
  BY SMT
<1>0. Cover(s, a) = Cardinality(C) /\ Cover(SubSeq(s, 1, Len(s) - 1), a) = Cardinality(D)
  BY DEF Cover
<1>2. Cardinality(C) \in Nat
  BY CoverSeen DEF Cover
<1>3. IsFiniteSet(C)
  <2>1. IsFiniteSet(1 .. n)
    <3> HIDE DEF n
    <3> QED
      BY <1>1, FS_Interval, SMT
  <2> QED
    BY <1>1, <2>1, FS_Subset
<1>4. CASE a \in s[n].old
  <2>1. D = C
    <3> HIDE DEF n
    <3> QED
      BY <1>1, <1>4, SMT
  <2>2. In(a, s[Len(s)].old) = 1
    BY <1>4 DEF In
  <2> HIDE DEF C, D
  <2> QED
    BY <1>0, <1>2, <2>1, <2>2, SMT
<1>5. CASE a \notin s[n].old
  <2>1. D = C \ {n} /\ n \in C
    <3> HIDE DEF n
    <3> QED
      BY <1>1, <1>5, SMT
  <2>2. Cardinality(C \ {n}) = Cardinality(C) - 1
    BY <1>3, <2>1, FS_RemoveElement
  <2>3. In(a, s[Len(s)].old) = 0
    BY <1>5 DEF In
  <2> HIDE DEF C, D
  <2> QED
    BY <1>0, <1>2, <2>1, <2>2, <2>3, SMT
<1> QED
  BY <1>4, <1>5

-----------------------------------------------------------------------------
(* The invariant of the buffers and the scopes *)

BufferTypeOK ==
    /\ DOMAIN heap \subseteq Addresses /\ heap = [a \in DOMAIN heap |-> heap[a]]
    /\ Known \subseteq Addresses /\ use_count \in [Known -> Int]
    /\ buf \in Bindings /\ len = [x \in All |-> len[x]]
    /\ scopes \in Seq(Scopes) /\ \A k \in DOMAIN scopes : scopes[k].initial = k
    /\ unseen \in [Addresses -> Nat]

\* CountsAreExact, in the terms of the lemmas.
CountsInv ==
    /\ initial = 1 + Len(scopes)
    /\ \A a \in Known : use_count[a] = Count(buf, a) + Cover(scopes, a) + unseen[a]

BufferInv == BufferTypeOK /\ BlocksAreOwned /\ CountsInv

\* What a step other than the end of a scope keeps: a block that a scope covers
\* or that counts two, and the bytes of a block with two owners.
Kept ==
    /\ \A a \in Known :
          Len(scopes') >= Len(scopes) /\ (Cover(scopes, a) >= 1 \/ use_count[a] >= 2)
             => a \in Known'
    /\ \A a \in DOMAIN heap \cap DOMAIN heap' : Count(buf, a) >= 2 => heap'[a] = heap[a]

LEMMA CountsFollow == BufferInv => CountsAreExact
  BY DEF BufferInv, CountsInv, CountsAreExact, Count, Cover, Owners, Covering

\* What the invariant says of one address.
LEMMA OfOneBlock ==
    ASSUME BufferInv, NEW a \in Addresses
    PROVE  /\ Count(buf, a) \in Nat /\ Cover(scopes, a) \in Nat /\ unseen[a] \in Nat
           /\ Count(buf, a) >= 1 => a \in Known
           /\ a \in Known => a \in DOMAIN heap
           /\ \A x \in Shared : buf[x] = a => Count(buf, a) >= 1
<1>1. buf \in Bindings /\ scopes \in Seq(Scopes) /\ unseen \in [Addresses -> Nat]
  BY DEF BufferInv, BufferTypeOK
<1>2. Count(buf, a) \in Nat /\ (Count(buf, a) = 0 <=> \A x \in Shared : buf[x] # a)
  BY <1>1, CountOwners
<1>3. Cover(scopes, a) \in Nat
  BY <1>1, CoverSeen
<1>4. (\E x \in Shared : buf[x] = a) => a \in Known
  BY BufferAssumption DEF BufferInv, BlocksAreOwned
<1>5. a \in Known => a \in DOMAIN heap
  BY DEF BufferInv, BlocksAreOwned
<1> QED
  BY <1>1, <1>2, <1>3, <1>4, <1>5, SMT

\* A step that leaves the counts and the blocks as they are.
LEMMA SameKeepsInv ==
    ASSUME BufferInv, UNCHANGED <<heap, use_count, unseen>>,
           buf' \in Bindings, len' = [x \in All |-> len'[x]],
           \A p \in Plain : buf'[p] = buf[p] /\ len'[p] = len[p],
           \A x \in Shared : buf'[x] \in {buf[y] : y \in Shared},
           scopes' \in Seq(Scopes), \A k \in DOMAIN scopes' : scopes'[k].initial = k,
           initial' = 1 + Len(scopes'),
           \A a \in Known : Count(buf', a) + Cover(scopes', a) = Count(buf, a) + Cover(scopes, a)
    PROVE  BufferInv' /\ Kept
<1>1. BufferTypeOK'
  BY DEF BufferInv, BufferTypeOK, Known
<1>2. BlocksAreOwned'
  BY SMT DEF BufferInv, BlocksAreOwned, Known
<1>3. CountsInv'
  <2> SUFFICES ASSUME NEW a \in Known
               PROVE  use_count'[a] = Count(buf', a) + Cover(scopes', a) + unseen'[a]
    BY DEF CountsInv, Known
  <2>1. a \in Addresses
    BY DEF BufferInv, BufferTypeOK
  <2> QED
    BY <2>1, OfOneBlock DEF BufferInv, CountsInv
<1>4. Kept
  BY DEF Kept, Known
<1> QED
  BY <1>1, <1>2, <1>3, <1>4 DEF BufferInv

\* Recount keeps the invariant if the owners and the scopes of a block change by
\* what its count does.
LEMMA RecountKeepsInv ==
    ASSUME BufferInv, NEW plus \in SUBSET Known, NEW minus, Recount(plus, minus),
           buf' \in Bindings, len' = [x \in All |-> len'[x]],
           \A p \in Plain : buf'[p] = buf[p] /\ len'[p] = len[p],
           scopes' \in Seq(Scopes), \A k \in DOMAIN scopes' : scopes'[k].initial = k,
           initial' = 1 + Len(scopes'),
           Len(scopes') >= Len(scopes) => scopes' = scopes,
           \A a \in Known :
              Count(buf', a) + Cover(scopes', a)
                 = Count(buf, a) + Cover(scopes, a) + In(a, plus) - In(a, minus),
           \A x \in Shared : buf'[x] \in {buf[y] : y \in Shared} \cup plus \cup {Null}
    PROVE  BufferInv' /\ Kept
<1> DEFINE count(a) == use_count[a] + In(a, plus) - In(a, minus)
           gone == {a \in minus \cap Known : count(a) = 0}
<1>0. Known \subseteq Addresses /\ use_count \in [Known -> Int] /\ unseen \in [Addresses -> Nat]
  BY DEF BufferInv, BufferTypeOK
<1>1. /\ use_count' = [a \in Known \ gone |-> count(a)]
      /\ heap' = Without(heap, gone)
      /\ unseen' = [a \in Addresses |-> IF a \in gone THEN 0 ELSE unseen[a]]
  BY DEF Recount, In, IsLast
<1>2. DOMAIN heap' = DOMAIN heap \ gone /\ \A a \in DOMAIN heap \ gone : heap'[a] = heap[a]
  BY <1>1 DEF Without, Restrict
<1>3. \A a : In(a, plus) \in {0, 1} /\ In(a, minus) \in {0, 1}
  BY DEF In
<1>4. \A a \in Known : /\ Count(buf', a) \in Nat /\ Cover(scopes', a) \in Nat
                       /\ Count(buf', a) = 0 <=> \A x \in Shared : buf'[x] # a
  BY <1>0, CountOwners, CoverSeen
<1>5. \A a \in Known : count(a) = Count(buf', a) + Cover(scopes', a) + unseen[a]
  <2> TAKE a \in Known
  <2>1. Count(buf, a) \in Nat /\ Cover(scopes, a) \in Nat /\ unseen[a] \in Nat
    BY <1>0, OfOneBlock
  <2>2. use_count[a] = Count(buf, a) + Cover(scopes, a) + unseen[a]
    BY DEF BufferInv, CountsInv
  <2>3. PICK i \in {0, 1}, j \in {0, 1} : i = In(a, plus) /\ j = In(a, minus)
    BY <1>3
  <2>4. count(a) = use_count[a] + i - j
    BY <2>3
  <2>5. Count(buf', a) + Cover(scopes', a) = Count(buf, a) + Cover(scopes, a) + i - j
    BY <2>3
  <2> HIDE DEF count
  <2> QED
    BY <1>4, <2>1, <2>2, <2>4, <2>5, SMT
<1>6. \A a \in gone : Count(buf', a) = 0 /\ Cover(scopes', a) = 0 /\ use_count[a] <= 1
  <2> TAKE a \in gone
  <2>1. a \in Known /\ a \in minus /\ count(a) = 0 /\ unseen[a] \in Nat
    BY <1>0
  <2>2. In(a, minus) = 1 /\ use_count[a] \in Int
    BY <1>0, <2>1 DEF In
  <2> QED
    BY <1>3, <1>4, <1>5, <2>1, <2>2, SMT
<1> HIDE DEF gone, count
<1>7. gone \subseteq Known
  BY DEF gone
<1>8. BufferTypeOK'
  <2>1. \A a \in Known : count(a) \in Int
    <3> TAKE a \in Known
    <3>1. \A u \in Int, i, j \in {0, 1} : u + i - j \in Int
      BY SMT
    <3>2. use_count[a] \in Int /\ In(a, plus) \in {0, 1} /\ In(a, minus) \in {0, 1}
      BY <1>0, <1>3
    <3> QED
      BY <3>1, <3>2 DEF count
  <2>2. DOMAIN heap' \subseteq Addresses /\ heap' = [a \in DOMAIN heap' |-> heap'[a]]
    BY <1>1, <1>2 DEF BufferInv, BufferTypeOK, Without, Restrict
  <2>3. Known' = Known \ gone /\ use_count' \in [Known' -> Int] /\ unseen' \in [Addresses -> Nat]
    BY <1>0, <1>1, <2>1 DEF Known
  <2> QED
    BY <1>0, <2>2, <2>3 DEF BufferTypeOK
<1>9. Known' = Known \ gone
  BY <1>1 DEF Known
<1>10. BlocksAreOwned'
  <2>1. ASSUME NEW x \in Shared, buf'[x] # Null
        PROVE  buf'[x] \in Known'
    <3>1. buf'[x] \in Known
      BY <2>1 DEF BufferInv, BlocksAreOwned
    <3> QED
      BY <1>4, <1>6, <1>9, <3>1
  <2>2. ASSUME NEW p \in Plain, buf'[p] # Null
        PROVE  /\ buf'[p] \in DOMAIN heap' \ Known' /\ Len(heap'[buf'[p]]) = len'[p]
               /\ \A q \in Plain \ {p} : buf'[q] # buf'[p]
    BY <1>2, <1>7, <1>9, <2>2, SMT DEF BufferInv, BlocksAreOwned
  <2>3. DOMAIN heap' = Known' \cup ({buf'[p] : p \in Plain} \ {Null})
    BY <1>2, <1>7, <1>9, SMT DEF BufferInv, BlocksAreOwned
  <2> QED
    BY <2>1, <2>2, <2>3 DEF BlocksAreOwned
<1>11. CountsInv'
  BY <1>0, <1>1, <1>5, <1>9 DEF CountsInv
<1>12. Kept
  <2>1. ASSUME NEW a \in Known, Len(scopes') >= Len(scopes), a \in gone
        PROVE  Cover(scopes, a) = 0 /\ use_count[a] <= 1
    BY <1>6, <2>1
  <2>2. \A a \in Known : Cover(scopes, a) \in Nat /\ use_count[a] \in Int
    BY <1>0, OfOneBlock
  <2> QED
    BY <1>2, <1>9, <2>1, <2>2, SMT DEF Kept
<1> QED
  BY <1>8, <1>10, <1>11, <1>12 DEF BufferInv

\* A variable takes a new block and gives the one it had up, whose count drops
\* or which is freed (gone) and may be the new one.
LEMMA FreshKeepsInv ==
    ASSUME BufferInv, NEW x \in Shared, NEW b \in Addresses, NEW n, Bind(x, b, n),
           UNCHANGED <<initial, scopes>>,
           NEW gone \in SUBSET ({buf[x]} \cap Known), \A a \in gone : use_count[a] = 1,
           b \notin DOMAIN heap \ gone,
           DOMAIN heap' = (DOMAIN heap \ gone) \cup {b},
           heap' = [a \in DOMAIN heap' |-> heap'[a]],
           \A a \in DOMAIN heap \ (gone \cup {b}) : heap'[a] = heap[a],
           DOMAIN use_count' = (Known \ gone) \cup {b},
           use_count' = [a \in DOMAIN use_count' |-> use_count'[a]],
           use_count'[b] = initial,
           \A a \in Known \ (gone \cup {b}) : use_count'[a] = use_count[a] - Is(a, buf[x]),
           unseen' \in [Addresses -> Nat], unseen'[b] = Seen(scopes, b),
           \A a \in Known \ (gone \cup {b}) : unseen'[a] = unseen[a]
    PROVE  BufferInv' /\ Kept
<1>0. /\ Known \subseteq Addresses /\ use_count \in [Known -> Int] /\ buf \in Bindings
      /\ scopes \in Seq(Scopes) /\ unseen \in [Addresses -> Nat] /\ len = [y \in All |-> len[y]]
      /\ DOMAIN heap \subseteq Addresses
  BY DEF BufferInv, BufferTypeOK
<1>1. /\ buf' \in Bindings /\ buf'[x] = b /\ \A y \in All \ {x} : buf'[y] = buf[y]
      /\ len' = [y \in All |-> len'[y]] /\ \A y \in All \ {x} : len'[y] = len[y]
  BY <1>0 DEF Bind, Bindings, All
<1>2. Known' = (Known \ gone) \cup {b}
  BY DEF Known
<1>3. \A a \in Addresses : Count(buf', a) = Count(buf, a) + Is(a, b) - Is(a, buf[x])
  BY <1>0, BindCounts, ZenonT(40) DEF Bind
<1>4. \A a \in gone : a = buf[x] /\ Count(buf, a) = 1 /\ Cover(scopes, a) = 0
  <2> TAKE a \in gone
  <2>1. a \in Known /\ a \in Addresses /\ a = buf[x] /\ use_count[a] = 1
    BY <1>0
  <2>2. /\ Count(buf, a) \in Nat /\ Cover(scopes, a) \in Nat /\ unseen[a] \in Nat
        /\ Count(buf, a) >= 1
    BY <2>1, OfOneBlock
  <2>3. use_count[a] = Count(buf, a) + Cover(scopes, a) + unseen[a]
    BY <2>1 DEF BufferInv, CountsInv
  <2> QED
    BY <2>1, <2>2, <2>3, SMT
<1>5. b \in gone \/ (b \notin Known /\ Count(buf, b) = 0 /\ buf[x] # b)
  BY OfOneBlock, SMT
<1>6. Count(buf', b) = 1
  <2>1. CASE b \in gone
    BY <1>3, <1>4, <2>1, SMT DEF Is
  <2>2. CASE b \notin Known /\ Count(buf, b) = 0 /\ buf[x] # b
    BY <1>3, <2>2, SMT DEF Is
  <2> QED
    BY <1>5, <2>1, <2>2
<1>7. ASSUME NEW y \in Shared \ {x}
      PROVE  buf[y] \notin gone \cup {b}
  <2>1. CASE buf[y] \in gone
    <3>1. buf[y] = buf[x] /\ Count(buf, buf[y]) = 1
      BY <1>4, <2>1
    <3>2. Count(buf, buf[y]) >= 2
      BY <1>0, <3>1, CountOwners
    <3> QED
      BY <3>1, <3>2, SMT
  <2>2. CASE buf[y] = b /\ b \notin gone
    BY <1>5, <2>2, OfOneBlock
  <2> QED
    BY <2>1, <2>2
<1>8. BufferTypeOK'
  <2>1. \A a \in Known' : use_count'[a] \in Int
    <3>1. initial \in Int
      BY <1>0, SMT DEF BufferInv, CountsInv
    <3>2. \A a : Is(a, buf[x]) \in {0, 1}
      BY DEF Is
    <3>3. ASSUME NEW a \in Known \ (gone \cup {b})
          PROVE  use_count'[a] \in Int
      <4>1. use_count[a] \in Int /\ use_count'[a] = use_count[a] - Is(a, buf[x])
        BY <1>0
      <4> QED
        BY <3>2, <4>1, SMT
    <3> QED
      BY <1>2, <3>1, <3>3
  <2>2. use_count' \in [Known' -> Int]
    BY <2>1 DEF Known
  <2> QED
    BY <1>0, <1>1, <1>2, <2>2 DEF BufferTypeOK, BufferInv
<1>9. BlocksAreOwned'
  <2>1. ASSUME NEW y \in Shared, buf'[y] # Null
        PROVE  buf'[y] \in Known'
    <3>1. CASE y = x
      BY <1>1, <1>2, <3>1
    <3>2. CASE y # x
      <4>1. buf'[y] = buf[y]
        BY <1>1, <3>2 DEF All
      <4>2. buf[y] \in Known
        BY <2>1, <4>1 DEF BufferInv, BlocksAreOwned
      <4> QED
        BY <1>2, <1>7, <3>2, <4>1, <4>2
    <3> QED
      BY <3>1, <3>2
  <2>2. \A p \in Plain : buf'[p] = buf[p] /\ len'[p] = len[p]
    BY <1>1, BufferAssumption DEF All
  <2>3. \A p \in Plain : buf[p] # Null => buf[p] \in DOMAIN heap \ Known /\ buf[p] # b
    BY DEF BufferInv, BlocksAreOwned
  <2>4. ASSUME NEW p \in Plain, buf'[p] # Null
        PROVE  /\ buf'[p] \in DOMAIN heap' \ Known' /\ Len(heap'[buf'[p]]) = len'[p]
               /\ \A q \in Plain \ {p} : buf'[q] # buf'[p]
    BY <1>2, <2>2, <2>3, <2>4, SMT DEF BufferInv, BlocksAreOwned
  <2>5. DOMAIN heap' = Known' \cup ({buf'[p] : p \in Plain} \ {Null})
    <3>1. DOMAIN heap = Known \cup ({buf[p] : p \in Plain} \ {Null})
      BY DEF BufferInv, BlocksAreOwned
    <3> QED
      BY <1>2, <2>2, <2>3, <3>1, SMT
  <2> QED
    BY <2>1, <2>4, <2>5 DEF BlocksAreOwned
<1>10. CountsInv'
  <2>1. Cover(scopes, b) \in Nat /\ Cover(scopes, b) + Seen(scopes, b) = Len(scopes)
        /\ Seen(scopes, b) \in Nat /\ Len(scopes) \in Nat
    BY <1>0, CoverSeen, SMT
  <2>2. initial' = 1 + Len(scopes') /\ initial = 1 + Len(scopes)
    BY DEF BufferInv, CountsInv
  <2>3. use_count'[b] = Count(buf', b) + Cover(scopes', b) + unseen'[b]
    BY <1>6, <2>1, <2>2, SMT
  <2>4. ASSUME NEW a \in Known \ (gone \cup {b})
        PROVE  use_count'[a] = Count(buf', a) + Cover(scopes', a) + unseen'[a]
    <3>1. a \in Addresses
      BY <1>0
    <3>2. Count(buf, a) \in Nat /\ Cover(scopes, a) \in Nat /\ unseen[a] \in Nat
      BY <3>1, OfOneBlock
    <3>3. use_count[a] = Count(buf, a) + Cover(scopes, a) + unseen[a]
      BY DEF BufferInv, CountsInv
    <3>4. Count(buf', a) = Count(buf, a) - Is(a, buf[x])
      BY <1>3, <3>1, <3>2, SMT DEF Is
    <3>5. Is(a, buf[x]) \in {0, 1}
      BY DEF Is
    <3>6. use_count'[a] = use_count[a] - Is(a, buf[x]) /\ unseen'[a] = unseen[a]
      BY <2>4
    <3> QED
      BY <3>2, <3>3, <3>4, <3>5, <3>6, SMT
  <2> QED
    BY <1>2, <2>2, <2>3, <2>4 DEF CountsInv
<1>11. Kept
  <2>1. \A a \in Known : Cover(scopes, a) >= 1 \/ use_count[a] >= 2 => a \notin gone
    BY <1>4, SMT
  <2>2. \A a \in DOMAIN heap : Count(buf, a) >= 2 => a \notin gone
    BY <1>4, SMT
  <2> QED
    BY <1>2, <2>1, <2>2 DEF Kept
<1> QED
  BY <1>8, <1>9, <1>10, <1>11 DEF BufferInv

\* append to a block of one owner, which stays or moves to a free address.
LEMMA InPlaceKeepsInv ==
    ASSUME ~MovesInScope, BufferInv, NEW x \in Shared, AppendInPlace(x)
    PROVE  BufferInv' /\ Kept
<1> DEFINE a == buf[x]
<1>0. /\ Known \subseteq Addresses /\ use_count \in [Known -> Int] /\ buf \in Bindings
      /\ scopes \in Seq(Scopes) /\ unseen \in [Addresses -> Nat] /\ len = [y \in All |-> len[y]]
      /\ DOMAIN heap \subseteq Addresses
  BY DEF BufferInv, BufferTypeOK
<1>1. PICK d \in Data, b \in Addresses :
        /\ b # a => scopes = <<>>
        /\ Reallocated(x, Append(Value(x), d), b)
        /\ use_count' = Put(Without(use_count, {a}), b, use_count[a])
        /\ unseen' = [unseen EXCEPT ![a] = 0, ![b] = unseen[a]]
  BY DEF AppendInPlace
<1>2. UNCHANGED <<initial, scopes>> /\ a # Null /\ ~MustCopy(a)
  BY DEF AppendInPlace
<1>3. a \in Known /\ a \in Addresses
  BY <1>0, <1>2 DEF BufferInv, BlocksAreOwned
<1>4. use_count[a] = 1 /\ Count(buf, a) = 1 /\ Cover(scopes, a) = 0 /\ unseen[a] = 0
  <2>1. /\ Count(buf, a) \in Nat /\ Cover(scopes, a) \in Nat /\ unseen[a] \in Nat
        /\ Count(buf, a) >= 1
    BY <1>3, OfOneBlock
  <2>2. use_count[a] = Count(buf, a) + Cover(scopes, a) + unseen[a] /\ use_count[a] <= 1
    BY <1>0, <1>2, <1>3, SMT DEF BufferInv, CountsInv, MustCopy
  <2> QED
    BY <2>1, <2>2, SMT
<1>5. b = a \/ (b \notin DOMAIN heap /\ b \notin Known /\ Count(buf, b) = 0)
  BY <1>1, OfOneBlock, SMT DEF Reallocated, Free
<1>6. /\ buf' \in Bindings /\ buf'[x] = b /\ \A y \in All \ {x} : buf'[y] = buf[y]
      /\ len' = [y \in All |-> len'[y]] /\ \A y \in All \ {x} : len'[y] = len[y]
  BY <1>0, <1>1 DEF Reallocated, Bind, Bindings, All
<1>7. Known' = (Known \ {a}) \cup {b}
  BY <1>1 DEF Known, Put, Without, Restrict
<1>8. use_count'[b] = 1 /\ \A c \in Known \ {a, b} : use_count'[c] = use_count[c]
  BY <1>1, <1>4 DEF Known, Put, Without, Restrict
<1>9. /\ unseen'[b] = 0 /\ unseen' \in [Addresses -> Nat]
      /\ \A c \in Addresses \ {a, b} : unseen'[c] = unseen[c]
  BY <1>0, <1>1, <1>3, <1>4
<1>10. /\ DOMAIN heap' = (DOMAIN heap \ {a}) \cup {b}
       /\ heap' = [c \in DOMAIN heap' |-> heap'[c]]
       /\ \A c \in DOMAIN heap \ {a, b} : heap'[c] = heap[c]
  BY <1>1 DEF Reallocated, Put, Without, Restrict
<1>11. \A c \in Addresses : Count(buf', c) = Count(buf, c) + Is(c, b) - Is(c, a)
  BY <1>0, <1>1, CountBind DEF Reallocated, Bind
<1>12. ASSUME NEW y \in Shared \ {x}
       PROVE  buf[y] \notin {a, b}
  <2>1. buf[y] # a
    <3>1. buf[y] = a => Count(buf, a) >= 2
      BY <1>0, CountOwners
    <3> QED
      BY <1>4, <3>1, SMT
  <2>2. CASE b # a
    <3>1. buf[y] = b => Count(buf, b) >= 1
      BY OfOneBlock
    <3> QED
      BY <1>5, <2>1, <2>2, <3>1, SMT
  <2> QED
    BY <2>1, <2>2
<1> HIDE DEF a
<1>13. BufferTypeOK'
  <2>1. use_count' \in [Known' -> Int]
    <3>1. use_count' = [c \in Known' |-> use_count'[c]]
      BY <1>1 DEF Known, Put
    <3>2. \A c \in Known' : use_count'[c] \in Int
      BY <1>0, <1>7, <1>8, SMT
    <3> QED
      BY <3>1, <3>2
  <2> QED
    BY <1>0, <1>2, <1>6, <1>7, <1>9, <1>10, <2>1 DEF BufferTypeOK, BufferInv
<1>14. BlocksAreOwned'
  <2>1. ASSUME NEW y \in Shared, buf'[y] # Null
        PROVE  buf'[y] \in Known'
    <3>1. CASE y = x
      BY <1>6, <1>7, <3>1
    <3>2. CASE y # x
      <4>1. buf'[y] = buf[y]
        BY <1>6, <3>2 DEF All
      <4>2. buf[y] \in Known
        BY <2>1, <4>1 DEF BufferInv, BlocksAreOwned
      <4> QED
        BY <1>7, <1>12, <3>2, <4>1, <4>2
    <3> QED
      BY <3>1, <3>2
  <2>2. \A p \in Plain : buf'[p] = buf[p] /\ len'[p] = len[p]
    BY <1>6, BufferAssumption DEF All
  <2>3. \A p \in Plain : buf[p] # Null => buf[p] \in DOMAIN heap \ Known /\ buf[p] # b /\ buf[p] # a
    BY <1>3, <1>5 DEF BufferInv, BlocksAreOwned
  <2>4. ASSUME NEW p \in Plain, buf'[p] # Null
        PROVE  /\ buf'[p] \in DOMAIN heap' \ Known' /\ Len(heap'[buf'[p]]) = len'[p]
               /\ \A q \in Plain \ {p} : buf'[q] # buf'[p]
    BY <1>7, <1>10, <2>2, <2>3, <2>4, SMT DEF BufferInv, BlocksAreOwned
  <2>5. DOMAIN heap' = Known' \cup ({buf'[p] : p \in Plain} \ {Null})
    <3>1. DOMAIN heap = Known \cup ({buf[p] : p \in Plain} \ {Null})
      BY DEF BufferInv, BlocksAreOwned
    <3> QED
      BY <1>7, <1>10, <2>2, <2>3, <3>1, SMT
  <2> QED
    BY <2>1, <2>4, <2>5 DEF BlocksAreOwned
<1>15. CountsInv'
  <2>1. Cover(scopes, b) = 0
    <3>1. CASE b # a
      <4>1. scopes = <<>>
        BY <1>1, <3>1 DEF a
      <4>2. Cover(scopes, b) \in Nat /\ Seen(scopes, b) \in Nat
            /\ Cover(scopes, b) + Seen(scopes, b) = Len(scopes)
        BY <1>0, CoverSeen
      <4> QED
        BY <4>1, <4>2, SMT
    <3> QED
      BY <1>4, <3>1
  <2>2. Count(buf', b) = 1
    BY <1>4, <1>5, <1>11, SMT DEF Is
  <2>3. ASSUME NEW c \in Known \ {a, b}
        PROVE  use_count'[c] = Count(buf', c) + Cover(scopes', c) + unseen'[c]
    <3>1. c \in Addresses
      BY <1>0
    <3>2. Count(buf, c) \in Nat
      BY <3>1, OfOneBlock
    <3>3. Count(buf', c) = Count(buf, c)
      BY <1>11, <3>1, <3>2, SMT DEF Is
    <3> QED
      BY <1>2, <1>8, <1>9, <3>1, <3>3 DEF BufferInv, CountsInv
  <2> QED
    BY <1>2, <1>7, <1>8, <1>9, <2>1, <2>2, <2>3, SMT DEF CountsInv, BufferInv
<1>16. Kept
  BY <1>3, <1>4, <1>5, <1>7, <1>10, SMT DEF Kept
<1> QED
  BY <1>13, <1>14, <1>15, <1>16 DEF BufferInv

\* A plain buffer takes the block v, or none, and frees the one it had.
LEMMA PlainKeepsInv ==
    ASSUME BufferInv, NEW p \in Plain, NEW v \in Addresses \cup {Null}, NEW n, Bind(p, v, n),
           UNCHANGED <<use_count, initial, scopes, unseen>>,
           v # Null => v \notin DOMAIN heap \ {buf[p]},
           DOMAIN heap' = (DOMAIN heap \ {buf[p]}) \cup ({v} \ {Null}),
           heap' = [a \in DOMAIN heap' |-> heap'[a]],
           \A a \in DOMAIN heap \ {buf[p], v} : heap'[a] = heap[a],
           v # Null => Len(heap'[v]) = n
    PROVE  BufferInv' /\ Kept
<1>0. buf \in Bindings /\ len = [y \in All |-> len[y]] /\ DOMAIN heap \subseteq Addresses
  BY DEF BufferInv, BufferTypeOK
<1>1. /\ buf' \in Bindings /\ buf'[p] = v /\ \A y \in All \ {p} : buf'[y] = buf[y]
      /\ len' = [y \in All |-> len'[y]] /\ len'[p] = n /\ \A y \in All \ {p} : len'[y] = len[y]
  BY <1>0 DEF Bind, Bindings, All
<1>2. Known' = Known /\ \A y \in Shared : buf'[y] = buf[y]
  BY <1>1, BufferAssumption DEF Known, All
<1>3. \A a : Count(buf', a) = Count(buf, a)
  BY <1>0, <1>1, <1>2, CountPlain
<1>4. buf[p] \notin Known /\ (v # Null => v \notin Known) /\ Null \notin Known
  BY <1>0, BufferAssumption DEF BufferInv, BlocksAreOwned, BufferTypeOK
<1>5. BufferTypeOK'
  BY <1>0, <1>1, <1>2 DEF BufferInv, BufferTypeOK
<1>6. BlocksAreOwned'
  <2>1. \A y \in Shared : buf'[y] # Null => buf'[y] \in Known'
    BY <1>2 DEF BufferInv, BlocksAreOwned
  <2>2. \A q \in Plain \ {p} : buf'[q] = buf[q] /\ len'[q] = len[q]
    BY <1>1 DEF All
  <2>3. \A q \in Plain \ {p} : buf[q] # Null =>
           buf[q] \in DOMAIN heap \ Known /\ buf[q] # buf[p] /\ buf[q] # v
    BY DEF BufferInv, BlocksAreOwned
  <2>4. ASSUME NEW q \in Plain, buf'[q] # Null
        PROVE  /\ buf'[q] \in DOMAIN heap' \ Known' /\ Len(heap'[buf'[q]]) = len'[q]
               /\ \A r \in Plain \ {q} : buf'[r] # buf'[q]
    <3>1. CASE q = p
      BY <1>1, <1>2, <1>4, <2>2, <2>3, <2>4, <3>1, SMT
    <3>2. CASE q # p
      <4>1. buf'[q] = buf[q] /\ len'[q] = len[q] /\ buf[q] # Null
        BY <2>2, <2>4, <3>2
      <4>2. buf[q] \in DOMAIN heap' \ Known' /\ Len(heap'[buf[q]]) = len[q]
        BY <1>2, <2>3, <3>2, <4>1, SMT DEF BufferInv, BlocksAreOwned
      <4>3. \A r \in Plain \ {q} : buf'[r] # buf[q]
        BY <1>1, <2>2, <2>3, <3>2, <4>1, SMT DEF BufferInv, BlocksAreOwned
      <4> QED
        BY <4>1, <4>2, <4>3
    <3> QED
      BY <3>1, <3>2
  <2>5. DOMAIN heap' = Known' \cup ({buf'[q] : q \in Plain} \ {Null})
    <3>1. DOMAIN heap = Known \cup ({buf[q] : q \in Plain} \ {Null})
      BY DEF BufferInv, BlocksAreOwned
    <3> DEFINE B == {buf[q] : q \in Plain \ {p}}
    <3>2. {buf'[q] : q \in Plain} = B \cup {v} /\ {buf[q] : q \in Plain} = B \cup {buf[p]}
      BY <1>1, <2>2, SMT
    <3>3. \A c \in B : c # Null => c # buf[p]
      BY <2>3
    <3> HIDE DEF B
    <3> QED
      BY <1>2, <1>4, <3>1, <3>2, <3>3
  <2> QED
    BY <2>1, <2>4, <2>5 DEF BlocksAreOwned
<1>7. CountsInv'
  BY <1>2, <1>3 DEF BufferInv, CountsInv
<1>8. Kept
  <2>1. \A a \in DOMAIN heap : Count(buf, a) >= 2 => a \in Known
    <3> TAKE a \in DOMAIN heap
    <3>1. Count(buf, a) \in Nat /\ (Count(buf, a) >= 1 => a \in Known)
      BY <1>0, OfOneBlock
    <3> QED
      BY <3>1, SMT
  <2> QED
    BY <1>2, <1>4, <2>1 DEF Kept
<1> QED
  BY <1>5, <1>6, <1>7, <1>8 DEF BufferInv

LEMMA PlainStepKeepsInv ==
    ASSUME BufferInv, PlainStep
    PROVE  BufferInv' /\ Kept
<1>0. /\ buf \in Bindings /\ len = [y \in All |-> len[y]] /\ DOMAIN heap \subseteq Addresses
      /\ heap = [a \in DOMAIN heap |-> heap[a]]
  BY DEF BufferInv, BufferTypeOK
<1>1. ASSUME NEW p \in Plain, NEW bytes, NEW b, Reallocated(p, bytes, b),
             UNCHANGED <<use_count, initial, scopes, unseen>>
      PROVE  BufferInv' /\ Kept
  <2>1. b \in Addresses \cup {Null} /\ b # Null /\ b \notin DOMAIN heap \ {buf[p]}
    BY <1>0, <1>1, BufferAssumption DEF Reallocated, Free, Bindings, All
  <2>2. /\ DOMAIN heap' = (DOMAIN heap \ {buf[p]}) \cup ({b} \ {Null})
        /\ heap' = [a \in DOMAIN heap' |-> heap'[a]] /\ heap'[b] = bytes
        /\ \A a \in DOMAIN heap \ {buf[p], b} : heap'[a] = heap[a]
    BY <1>1, <2>1 DEF Reallocated, Put, Without, Restrict
  <2>3. Bind(p, b, Len(bytes))
    BY <1>1 DEF Reallocated
  <2> QED
    BY <1>1, <2>1, <2>2, <2>3, PlainKeepsInv
<1>2. ASSUME NEW p \in Plain, PlainConstruct(p)
      PROVE  BufferInv' /\ Kept
  BY <1>1, <1>2 DEF PlainConstruct
<1>3. ASSUME NEW p \in Plain, PlainAppend(p)
      PROVE  BufferInv' /\ Kept
  BY <1>1, <1>3 DEF PlainAppend
<1>4. ASSUME NEW p \in Plain, PlainAssign(p)
      PROVE  BufferInv' /\ Kept
  BY <1>1, <1>4 DEF PlainAssign
<1>5. ASSUME NEW p \in Plain, PlainReset(p)
      PROVE  BufferInv' /\ Kept
  <2>1. /\ DOMAIN heap' = (DOMAIN heap \ {buf[p]}) \cup ({Null} \ {Null})
        /\ heap' = [a \in DOMAIN heap' |-> heap'[a]]
        /\ \A a \in DOMAIN heap \ {buf[p], Null} : heap'[a] = heap[a]
    BY <1>5 DEF PlainReset, Without, Restrict
  <2>2. Bind(p, Null, 0) /\ UNCHANGED <<use_count, initial, scopes, unseen>>
    BY <1>5 DEF PlainReset
  <2> QED
    BY <2>1, <2>2, PlainKeepsInv
<1>6. ASSUME NEW p \in Plain, NEW q \in Plain, Swap(p, q)
      PROVE  BufferInv' /\ Kept
  <2>1. UNCHANGED <<heap, use_count, initial, scopes, unseen>> /\ p # q
    BY <1>6 DEF Swap
  <2>2. /\ buf' \in Bindings /\ buf'[p] = buf[q] /\ buf'[q] = buf[p]
        /\ \A y \in All \ {p, q} : buf'[y] = buf[y]
        /\ len' = [y \in All |-> len'[y]] /\ len'[p] = len[q] /\ len'[q] = len[p]
        /\ \A y \in All \ {p, q} : len'[y] = len[y]
    BY <1>0, <1>6 DEF Swap, Bindings, All
  <2>3. \A y \in Shared : buf'[y] = buf[y]
    BY <2>2, BufferAssumption DEF All
  <2>4. \A a : Count(buf', a) = Count(buf, a)
    BY <1>0, <2>2, <2>3, CountPlain
  <2>5. BufferTypeOK' /\ CountsInv'
    BY <2>1, <2>2, <2>4 DEF BufferInv, BufferTypeOK, CountsInv, Known
  <2>6. \A r \in Plain \ {p, q} : buf'[r] = buf[r] /\ len'[r] = len[r]
    BY <2>2 DEF All
  <2>7. {buf'[r] : r \in Plain} = {buf[r] : r \in Plain}
    <3>1. \A r \in Plain : \E s \in Plain : buf'[r] = buf[s]
      BY <2>2, <2>6
    <3>2. \A r \in Plain : \E s \in Plain : buf'[s] = buf[r]
      BY <2>2, <2>6
    <3> QED
      BY <3>1, <3>2, SMT
  <2>8. BlocksAreOwned'
    <3>1. \A r \in Plain : buf'[r] # Null =>
             buf'[r] \in DOMAIN heap \ Known /\ Len(heap[buf'[r]]) = len'[r]
      BY <2>2, <2>6, SMT DEF BufferInv, BlocksAreOwned
    <3>2. \A r \in Plain : buf'[r] # Null => \A s \in Plain \ {r} : buf'[s] # buf'[r]
      BY <2>1, <2>2, <2>6, SMT DEF BufferInv, BlocksAreOwned
    <3> QED
      BY <2>1, <2>3, <2>7, <3>1, <3>2 DEF BufferInv, BlocksAreOwned, Known
  <2>9. Kept
    BY <2>1 DEF Kept, Known
  <2> QED
    BY <2>5, <2>8, <2>9 DEF BufferInv
<1> QED
  BY <1>2, <1>3, <1>4, <1>5, <1>6 DEF PlainStep

-----------------------------------------------------------------------------
(* The calls on stable_reference_buffers *)

\* A variable takes the block v, or none, and the counts follow.
LEMMA BindKeepsInv ==
    ASSUME BufferInv, NEW x \in Shared, NEW v \in Known \cup {Null}, NEW n, Bind(x, v, n),
           UNCHANGED <<initial, scopes>>,
           NEW plus \in SUBSET Known, NEW minus, Recount(plus, minus),
           \A c \in Known : (c \in plus <=> c = v) /\ (c \in minus <=> c = buf[x])
    PROVE  BufferInv' /\ Kept
<1>0. /\ Known \subseteq Addresses /\ buf \in Bindings /\ len = [y \in All |-> len[y]]
      /\ scopes \in Seq(Scopes) /\ \A k \in DOMAIN scopes : scopes[k].initial = k
      /\ initial = 1 + Len(scopes)
  BY DEF BufferInv, BufferTypeOK, CountsInv
<1>1. /\ buf' \in Bindings /\ buf'[x] = v /\ \A y \in All \ {x} : buf'[y] = buf[y]
      /\ len' = [y \in All |-> len'[y]] /\ \A y \in All \ {x} : len'[y] = len[y]
  BY <1>0 DEF Bind, Bindings, All
<1>2. \A p \in Plain : buf'[p] = buf[p] /\ len'[p] = len[p]
  BY <1>1, BufferAssumption DEF All
<1>3. \A c : Count(buf', c) = Count(buf, c) + Is(c, v) - Is(c, buf[x])
  BY <1>0, BindCounts DEF Bind
<1>4. \A c \in Known : Count(buf', c) = Count(buf, c) + In(c, plus) - In(c, minus)
  BY <1>3 DEF In, Is
<1>5. ASSUME NEW c \in Known
      PROVE  Count(buf', c) + Cover(scopes', c)
                = Count(buf, c) + Cover(scopes, c) + In(c, plus) - In(c, minus)
  <2>1. Count(buf, c) \in Nat /\ Cover(scopes, c) \in Nat
    BY <1>0, OfOneBlock
  <2>2. In(c, plus) \in {0, 1} /\ In(c, minus) \in {0, 1}
    BY DEF In
  <2> QED
    BY <1>4, <2>1, <2>2, SMT
<1>6. \A y \in Shared : buf'[y] \in {buf[z] : z \in Shared} \cup plus \cup {Null}
  <2>1. v \in plus \cup {Null}
    OBVIOUS
  <2> QED
    BY <1>1, <2>1 DEF All
<1> QED
  BY <1>0, <1>1, <1>2, <1>5, <1>6, RecountKeepsInv

LEMMA SharedCallKeepsInv ==
    ASSUME ~MovesInScope, BufferInv, NEW x \in Shared
    PROVE  /\ Construct(x) \/ AppendFirst(x) => BufferInv' /\ Kept
           /\ \A a : FromRaw(x, a) => BufferInv' /\ Kept
           /\ \A y \in Shared : CopyConstruct(x, y) \/ Assign(x, y) => BufferInv' /\ Kept
           /\ Reset(x) => BufferInv' /\ Kept
<1>0. /\ Known \subseteq Addresses /\ DOMAIN heap \subseteq Addresses /\ Null \notin Addresses
      /\ heap = [a \in DOMAIN heap |-> heap[a]] /\ use_count \in [Known -> Int]
      /\ unseen \in [Addresses -> Nat] /\ scopes \in Seq(Scopes)
  BY BufferAssumption DEF BufferInv, BufferTypeOK
<1>a. \A y \in Shared : buf[y] # Null => buf[y] \in Known
  BY DEF BufferInv, BlocksAreOwned
<1>1. ASSUME NEW b \in Addresses, NEW bytes, NEW n, buf[x] = Null, Track(b, bytes), Bind(x, b, n),
             UNCHANGED <<initial, scopes>>
      PROVE  BufferInv' /\ Kept
  <2>1. b \notin DOMAIN heap /\ b \notin Known
    BY <1>1, OfOneBlock DEF Track, Free
  <2>2. /\ DOMAIN heap' = DOMAIN heap \cup {b} /\ heap' = [a \in DOMAIN heap' |-> heap'[a]]
        /\ \A a \in DOMAIN heap \ {b} : heap'[a] = heap[a]
    BY <1>1 DEF Track, Put
  <2>3. /\ DOMAIN use_count' = Known \cup {b}
        /\ use_count' = [a \in DOMAIN use_count' |-> use_count'[a]]
        /\ use_count'[b] = initial /\ \A a \in Known : use_count'[a] = use_count[a]
    BY <1>1, <2>1 DEF Track, Put, FirstCount, Known
  <2>4. \A a \in Known : use_count'[a] = use_count[a] - Is(a, buf[x])
    BY <1>0, <1>1, <2>3, SMT DEF Is
  <2>5. Seen(scopes, b) \in Nat
    BY <1>0, CoverSeen
  <2>6. unseen' = [unseen EXCEPT ![b] = Seen(scopes, b)]
    BY <1>1 DEF Track, Seen
  <2>7. /\ unseen' \in [Addresses -> Nat] /\ unseen'[b] = Seen(scopes, b)
        /\ \A a \in Known \ {b} : unseen'[a] = unseen[a]
    BY <1>0, <2>5, <2>6
  <2> DEFINE gone == {}
  <2>8. /\ gone \in SUBSET ({buf[x]} \cap Known) /\ \A a \in gone : use_count[a] = 1
        /\ b \notin DOMAIN heap \ gone /\ DOMAIN heap' = (DOMAIN heap \ gone) \cup {b}
        /\ \A a \in DOMAIN heap \ (gone \cup {b}) : heap'[a] = heap[a]
        /\ DOMAIN use_count' = (Known \ gone) \cup {b}
        /\ \A a \in Known \ (gone \cup {b}) : use_count'[a] = use_count[a] - Is(a, buf[x])
        /\ \A a \in Known \ (gone \cup {b}) : unseen'[a] = unseen[a]
    BY <2>1, <2>2, <2>3, <2>4, <2>7
  <2> HIDE DEF gone
  <2> QED
    BY <1>1, <2>2, <2>3, <2>7, <2>8, FreshKeepsInv
<1>2. Construct(x) => BufferInv' /\ Kept
  BY <1>1 DEF Construct
<1>3. AppendFirst(x) => BufferInv' /\ Kept
  BY <1>1 DEF AppendFirst
<1>4. ASSUME NEW a, FromRaw(x, a)
      PROVE  BufferInv' /\ Kept
  <2>1. /\ buf[x] = Null /\ a \in Known /\ Recount({a}, {}) /\ Bind(x, a, 0)
        /\ UNCHANGED <<initial, scopes>>
    BY <1>4 DEF FromRaw
  <2> DEFINE plus == {a}
             minus == {}
  <2>2. /\ plus \in SUBSET Known /\ Recount(plus, minus)
        /\ \A c \in Known : (c \in plus <=> c = a) /\ (c \in minus <=> c = buf[x])
    BY <1>0, <2>1
  <2> HIDE DEF plus, minus
  <2> QED
    BY <1>0, <2>1, <2>2, BindKeepsInv, SMT
<1>5. ASSUME NEW y \in Shared, CopyConstruct(x, y)
      PROVE  BufferInv' /\ Kept
  <2>1. /\ buf[x] = Null /\ buf[y] # Null /\ Recount({buf[y]}, {}) /\ Bind(x, buf[y], len[y])
        /\ UNCHANGED <<initial, scopes>>
    BY <1>5 DEF CopyConstruct
  <2> DEFINE v == buf[y]
             plus == {v}
             minus == {}
  <2>2. /\ v \in Known \cup {Null} /\ Bind(x, v, len[y])
        /\ plus \in SUBSET Known /\ Recount(plus, minus)
        /\ \A c \in Known : (c \in plus <=> c = v) /\ (c \in minus <=> c = buf[x])
    BY <1>0, <1>a, <2>1
  <2> HIDE DEF v, plus, minus
  <2> QED
    BY <2>1, <2>2, BindKeepsInv
<1>6. ASSUME NEW y \in Shared, Assign(x, y)
      PROVE  BufferInv' /\ Kept
  <2>1. /\ buf[y] # Null /\ Recount({buf[y]}, {buf[x]}) /\ Bind(x, buf[y], len[y])
        /\ UNCHANGED <<initial, scopes>>
    BY <1>6 DEF Assign
  <2> DEFINE v == buf[y]
             plus == {v}
             minus == {buf[x]}
  <2>2. /\ v \in Known \cup {Null} /\ Bind(x, v, len[y])
        /\ plus \in SUBSET Known /\ Recount(plus, minus)
        /\ \A c \in Known : (c \in plus <=> c = v) /\ (c \in minus <=> c = buf[x])
    BY <1>0, <1>a, <2>1
  <2> HIDE DEF v, plus, minus
  <2> QED
    BY <2>1, <2>2, BindKeepsInv
<1>7. ASSUME Reset(x)
      PROVE  BufferInv' /\ Kept
  <2>1. Recount({}, {buf[x]}) /\ Bind(x, Null, 0) /\ UNCHANGED <<initial, scopes>>
    BY <1>7 DEF Reset
  <2> QED
    BY <1>0, <2>1, BindKeepsInv, SMT
<1> QED
  BY <1>2, <1>3, <1>4, <1>5, <1>6, <1>7

\* append to a block that others refer to, and the assignment of a buffer, make
\* a new block.
LEMMA NewBlockKeepsInv ==
    ASSUME BufferInv, NEW x \in Shared
    PROVE  /\ AppendCopies(x) => BufferInv' /\ Kept
           /\ \A p \in Plain : AssignBuffer(x, p) => BufferInv' /\ Kept
<1> DEFINE a == buf[x]
<1>0. /\ Known \subseteq Addresses /\ DOMAIN heap \subseteq Addresses /\ Null \notin Addresses
      /\ use_count \in [Known -> Int] /\ unseen \in [Addresses -> Nat] /\ scopes \in Seq(Scopes)
  BY BufferAssumption DEF BufferInv, BufferTypeOK
<1>a. a = Null \/ a \in Known
  BY DEF BufferInv, BlocksAreOwned
<1>b. \A b : Seen(scopes, b) \in Nat
  BY <1>0, CoverSeen
<1>c. a # Null => a \in Known /\ a \in Addresses
  BY <1>0, <1>a
<1>d. \A b \in Addresses : b \in Known => b \in DOMAIN heap
  BY OfOneBlock
<1>1. ASSUME AppendCopies(x)
      PROVE  BufferInv' /\ Kept
  <2>0. PICK b \in Free, d \in Data :
          LET bytes == Append(Value(x), d)
          IN  /\ heap' = Put(heap, b, bytes)
              /\ use_count' = Put([use_count EXCEPT ![a] = @ - 1], b, initial)
              /\ unseen' = [unseen EXCEPT ![b] = Seen(scopes, b)]
              /\ Bind(x, b, Len(bytes))
    BY <1>1 DEF AppendCopies, FirstCount, Seen
  <2> DEFINE bytes == Append(Value(x), d)
  <2>1. /\ heap' = Put(heap, b, bytes)
        /\ use_count' = Put([use_count EXCEPT ![a] = @ - 1], b, initial)
        /\ unseen' = [unseen EXCEPT ![b] = Seen(scopes, b)]
        /\ Bind(x, b, Len(bytes))
    BY <2>0
  <2> HIDE DEF bytes
  <2>2. a \in Known /\ UNCHANGED <<initial, scopes>>
    BY <1>1 DEF AppendCopies, MustCopy
  <2>3. b \in Addresses /\ b \notin DOMAIN heap /\ b \notin Known
    BY <1>d, <2>1 DEF Free
  <2> DEFINE gone == {}
  <2>4. /\ gone \in SUBSET ({a} \cap Known) /\ \A c \in gone : use_count[c] = 1
        /\ b \notin DOMAIN heap \ gone /\ DOMAIN heap' = (DOMAIN heap \ gone) \cup {b}
        /\ heap' = [c \in DOMAIN heap' |-> heap'[c]]
        /\ \A c \in DOMAIN heap \ (gone \cup {b}) : heap'[c] = heap[c]
    BY <2>1, <2>3 DEF Put
  <2>5. /\ DOMAIN use_count' = (Known \ gone) \cup {b} /\ use_count'[b] = initial
        /\ use_count' = [c \in DOMAIN use_count' |-> use_count'[c]]
    BY <2>1 DEF Put, Known
  <2>6. \A c \in Known \ (gone \cup {b}) : use_count'[c] = use_count[c] - Is(c, a)
    BY <1>0, <2>1, <2>2, <2>3, SMT DEF Put, Is, Known
  <2>7. /\ unseen' \in [Addresses -> Nat] /\ unseen'[b] = Seen(scopes, b)
        /\ \A c \in Known \ (gone \cup {b}) : unseen'[c] = unseen[c]
    BY <1>0, <1>b, <2>1, <2>3
  <2> HIDE DEF gone
  <2> QED
    BY <2>1, <2>2, <2>3, <2>4, <2>5, <2>6, <2>7, FreshKeepsInv
<1>2. ASSUME NEW p \in Plain, AssignBuffer(x, p)
      PROVE  BufferInv' /\ Kept
  <2> DEFINE gone == IF a \in Known /\ use_count[a] = 1 THEN {a} ELSE {}
             rest == IF a \notin Known THEN use_count
                     ELSE IF a \in Known /\ use_count[a] = 1 THEN Without(use_count, {a})
                     ELSE [use_count EXCEPT ![a] = @ - 1]
             left == IF a \in Known /\ use_count[a] = 1 THEN Without(heap, {a}) ELSE heap
             known == IF a \in Known /\ use_count[a] = 1 THEN [unseen EXCEPT ![a] = 0] ELSE unseen
  <2>1. PICK b \in Addresses \ DOMAIN left :
          /\ heap' = Put(left, b, Value(p)) /\ use_count' = Put(rest, b, initial)
          /\ unseen' = [known EXCEPT ![b] = Seen(scopes, b)]
          /\ Bind(x, b, len[p])
    BY <1>2 DEF AssignBuffer, FirstCount, Seen
  <2>2. UNCHANGED <<initial, scopes>>
    BY <1>2 DEF AssignBuffer
  <2>3. gone \in SUBSET ({a} \cap Known) /\ \A c \in gone : use_count[c] = 1
    OBVIOUS
  <2>4. DOMAIN left = DOMAIN heap \ gone /\ \A c \in DOMAIN heap \ gone : left[c] = heap[c]
    BY DEF Without, Restrict
  <2>5. /\ DOMAIN rest = Known \ gone
        /\ \A c \in Known \ gone : rest[c] = use_count[c] - Is(c, a)
    <3>1. CASE a \notin Known
      BY <1>0, <3>1, SMT DEF Is, Known
    <3>2. CASE a \in Known /\ use_count[a] = 1
      BY <1>0, <3>2, SMT DEF Is, Known, Without, Restrict
    <3>3. CASE a \in Known /\ use_count[a] # 1
      BY <1>0, <3>3, SMT DEF Is, Known
    <3> QED
      BY <3>1, <3>2, <3>3
  <2>6. known \in [Addresses -> Nat] /\ \A c \in Known \ gone : known[c] = unseen[c]
    BY <1>0, <1>c
  <2> HIDE DEF gone, rest, left, known
  <2>7. /\ b \notin DOMAIN heap \ gone /\ DOMAIN heap' = (DOMAIN heap \ gone) \cup {b}
        /\ heap' = [c \in DOMAIN heap' |-> heap'[c]]
        /\ \A c \in DOMAIN heap \ (gone \cup {b}) : heap'[c] = heap[c]
    BY <2>1, <2>4 DEF Put
  <2>8. /\ DOMAIN use_count' = (Known \ gone) \cup {b} /\ use_count'[b] = initial
        /\ use_count' = [c \in DOMAIN use_count' |-> use_count'[c]]
        /\ \A c \in Known \ (gone \cup {b}) : use_count'[c] = use_count[c] - Is(c, a)
    BY <2>1, <2>5 DEF Put
  <2>9. /\ unseen' \in [Addresses -> Nat] /\ unseen'[b] = Seen(scopes, b)
        /\ \A c \in Known \ (gone \cup {b}) : unseen'[c] = unseen[c]
    BY <1>0, <1>b, <2>1, <2>6
  <2>10. b \in Addresses
    BY <2>1
  <2> QED
    BY <2>1, <2>2, <2>3, <2>7, <2>8, <2>9, <2>10, FreshKeepsInv
<1> QED
  BY <1>1, <1>2

\* swap exchanges two owners.
LEMMA SwapKeepsInv ==
    ASSUME BufferInv, NEW x \in Shared, NEW y \in Shared, SharedSwap(x, y)
    PROVE  BufferInv' /\ Kept
<1>0. /\ Known \subseteq Addresses /\ buf \in Bindings /\ len = [z \in All |-> len[z]]
      /\ scopes \in Seq(Scopes) /\ \A k \in DOMAIN scopes : scopes[k].initial = k
      /\ initial = 1 + Len(scopes)
  BY DEF BufferInv, BufferTypeOK, CountsInv
<1>1. x # y /\ UNCHANGED <<heap, use_count, initial, scopes, unseen>>
  BY DEF SharedSwap, Swap
<1> DEFINE f == [buf EXCEPT ![x] = buf[y]]
<1>2. /\ f \in Bindings /\ f[y] = buf[y] /\ buf[x] \in Addresses \cup {Null}
      /\ buf[y] \in Addresses \cup {Null}
  BY <1>0, <1>1 DEF Bindings, All
<1>3. buf' = [f EXCEPT ![y] = buf[x]]
  BY <1>0, <1>1 DEF SharedSwap, Swap, Bindings, All
<1>4. /\ buf' \in Bindings /\ \A z \in All \ {x, y} : buf'[z] = buf[z]
      /\ buf'[x] = buf[y] /\ buf'[y] = buf[x]
      /\ len' = [z \in All |-> len'[z]] /\ \A z \in All \ {x, y} : len'[z] = len[z]
  BY <1>0, <1>1 DEF SharedSwap, Swap, Bindings, All
<1>5. \A p \in Plain : buf'[p] = buf[p] /\ len'[p] = len[p]
  BY <1>4, BufferAssumption DEF All
<1>6. \A z \in Shared : buf'[z] \in {buf[w] : w \in Shared}
  BY <1>4 DEF All
<1>7. ASSUME NEW a \in Known
      PROVE  Count(buf', a) + Cover(scopes', a) = Count(buf, a) + Cover(scopes, a)
  <2>1. Count(f, a) = Count(buf, a) + Is(a, buf[y]) - Is(a, buf[x])
    BY <1>0, <1>2, CountBind
  <2> HIDE DEF f
  <2>2. Count(buf', a) = Count(f, a) + Is(a, buf[x]) - Is(a, buf[y])
    <3>1. Count([f EXCEPT ![y] = buf[x]], a) = Count(f, a) + Is(a, buf[x]) - Is(a, f[y])
      BY <1>2, CountBind
    <3> QED
      BY <1>2, <1>3, <3>1
  <2>3. Count(buf, a) \in Nat /\ Is(a, buf[x]) \in {0, 1} /\ Is(a, buf[y]) \in {0, 1}
    BY <1>0, OfOneBlock DEF Is
  <2> QED
    BY <1>1, <2>1, <2>2, <2>3, SMT
<1> QED
  BY <1>0, <1>1, <1>4, <1>5, <1>6, <1>7, SameKeepsInv

\* A scope begins: its old entries are the blocks that are known; it ends: the
\* blocks that are new since are uncounted.
LEMMA ScopeStepKeepsInv ==
    ASSUME BufferInv, ScopeStep
    PROVE  BufferInv' /\ Kept
<1>0. /\ Known \subseteq Addresses /\ buf \in Bindings /\ len = [z \in All |-> len[z]]
      /\ scopes \in Seq(Scopes) /\ \A k \in DOMAIN scopes : scopes[k].initial = k
      /\ initial = 1 + Len(scopes)
  BY DEF BufferInv, BufferTypeOK, CountsInv
<1>1. CASE EnterScope
  <2> DEFINE e == [old |-> Known, initial |-> initial]
  <2>1. /\ scopes' = Append(scopes, e) /\ initial' = initial + 1
        /\ UNCHANGED <<heap, use_count, buf, len, unseen>>
    BY <1>1 DEF EnterScope, OldEntries
  <2>2. e \in Scopes /\ e.old = Known /\ e.initial = 1 + Len(scopes)
    BY <1>0, SMT DEF Scopes
  <2> HIDE DEF e
  <2>3. /\ scopes' \in Seq(Scopes) /\ Len(scopes') = Len(scopes) + 1
        /\ \A k \in DOMAIN scopes' : scopes'[k].initial = k
    BY <1>0, <2>1, <2>2, SMT
  <2>4. \A a \in Known : Cover(scopes', a) = Cover(scopes, a)
    BY <1>0, <2>1, <2>2, CoverPush
  <2>5. \A z \in Shared : buf'[z] \in {buf[w] : w \in Shared}
    BY <2>1
  <2>6. initial' = 1 + Len(scopes')
    BY <1>0, <2>1, <2>3, SMT
  <2> QED
    BY <1>0, <2>1, <2>3, <2>4, <2>5, <2>6, SameKeepsInv
<1>2. CASE LeaveScope
  <2> DEFINE n == Len(scopes)
             minus == Known \ scopes[n].old
             plus == {}
  <2>1. /\ n > 0 /\ Recount(plus, minus) /\ initial' = scopes[n].initial
        /\ scopes' = SubSeq(scopes, 1, n - 1) /\ UNCHANGED <<buf, len>>
    BY <1>2 DEF LeaveScope
  <2>2. /\ scopes' \in Seq(Scopes) /\ Len(scopes') = n - 1 /\ n \in Nat /\ initial' = n
        /\ \A k \in DOMAIN scopes' : scopes'[k].initial = k
    <3>1. n \in Nat /\ DOMAIN scopes = 1 .. n /\ n \in DOMAIN scopes /\ n - 1 \in 0 .. n
      BY <1>0, <2>1, SMT
    <3>2. \A m \in 0 .. n : /\ SubSeq(scopes, 1, m) \in Seq(Scopes) /\ Len(SubSeq(scopes, 1, m)) = m
                           /\ \A k \in 1 .. m : SubSeq(scopes, 1, m)[k] = scopes[k]
      BY <1>0, SMT
    <3> HIDE DEF n
    <3>3. PICK m \in 0 .. n : m = n - 1 /\ scopes' = SubSeq(scopes, 1, m)
      BY <2>1, <3>1
    <3>4. /\ scopes' \in Seq(Scopes) /\ Len(scopes') = n - 1
          /\ \A k \in 1 .. n - 1 : scopes'[k] = scopes[k] /\ k \in DOMAIN scopes
      BY <3>1, <3>2, <3>3, SMT
    <3> QED
      BY <1>0, <2>1, <3>1, <3>4, SMT
  <2>3. ASSUME NEW a \in Known
        PROVE  Count(buf', a) + Cover(scopes', a)
                  = Count(buf, a) + Cover(scopes, a) + In(a, plus) - In(a, minus)
    <3>1. Cover(scopes', a) = Cover(scopes, a) - 1 + In(a, scopes[n].old)
      <4>1. scopes # <<>>
        BY <1>0, <2>1, SMT
      <4> QED
        BY <1>0, <2>1, <4>1, CoverPop
    <3>2. /\ In(a, plus) = 0 /\ In(a, minus) = 1 - In(a, scopes[n].old)
          /\ In(a, scopes[n].old) \in {0, 1}
      BY SMT DEF In
    <3>3. Count(buf, a) \in Nat /\ Cover(scopes, a) \in Nat
      BY <1>0, OfOneBlock
    <3> HIDE DEF n, minus, plus
    <3> QED
      BY <2>1, <3>1, <3>2, <3>3, SMT
  <2>4. /\ plus \in SUBSET Known
        /\ \A z \in Shared : buf'[z] \in {buf[w] : w \in Shared} \cup plus \cup {Null}
    BY <2>1
  <2> HIDE DEF n, minus, plus
  <2>5. initial' = 1 + Len(scopes') /\ ~(Len(scopes') >= Len(scopes))
    BY <2>2, SMT DEF n
  <2> QED
    BY <1>0, <2>1, <2>2, <2>3, <2>4, <2>5, RecountKeepsInv
<1> QED
  BY <1>1, <1>2 DEF ScopeStep

\* Nothing changes.
LEMMA SameBuffers ==
    ASSUME BufferInv, UNCHANGED <<heap, use_count, initial, buf, len, scopes, unseen>>
    PROVE  BufferInv' /\ Kept
<1>1. BufferTypeOK' /\ CountsInv'
  BY DEF BufferInv, BufferTypeOK, CountsInv, Known
<1>2. BlocksAreOwned' /\ Kept
  BY DEF BufferInv, BlocksAreOwned, Kept, Known
<1> QED
  BY <1>1, <1>2 DEF BufferInv

\* A call on the variables in X.
LEMMA SharedStepKeepsInv ==
    ASSUME ~MovesInScope, BufferInv, NEW X \in SUBSET Shared, SharedStep(X)
    PROVE  BufferInv' /\ Kept
<1>1. PICK x \in X :
        \/ Construct(x) \/ \E a \in Known : FromRaw(x, a)
        \/ AppendCopies(x) \/ AppendInPlace(x) \/ AppendFirst(x) \/ AppendThrows(x)
        \/ Reset(x)
        \/ \E y \in X : CopyConstruct(x, y) \/ Assign(x, y) \/ SharedSwap(x, y)
        \/ \E p \in Plain : AssignBuffer(x, p)
  BY DEF SharedStep
<1>2. x \in Shared
  OBVIOUS
<1>3. CASE AppendThrows(x)
  <2>1. UNCHANGED <<heap, use_count, initial, buf, len, scopes, unseen>>
    BY <1>3 DEF AppendThrows, bufferVars
  <2> QED
    BY <2>1, SameBuffers
<1>4. CASE \E y \in X : SharedSwap(x, y)
  BY <1>2, <1>4, SwapKeepsInv
<1> QED
  BY <1>1, <1>2, <1>3, <1>4, SharedCallKeepsInv, NewBlockKeepsInv, InPlaceKeepsInv

-----------------------------------------------------------------------------
(* The pointers *)

PointerInv ==
    /\ ptr \in [Pointers -> Addresses \cup {Null}]
    /\ mem \in [Pointers -> Cells \cup {Null}]
    /\ PointersKeepBlocks

IInv == BufferInv /\ PointerInv

\* A block that a stable_reference_buffer refers to is known, so that it is enough
\* to follow the references.
LEMMA PointersFollow ==
    ASSUME BufferInv',
           ptr' \in [Pointers -> Addresses \cup {Null}], mem' \in [Pointers -> Cells \cup {Null}],
           \A p \in Pointers : mem'[p] # Null => ptr'[p] # Null /\ buf'[mem'[p]] = ptr'[p],
           \A c \in Cells : buf'[c] # Null => \E p \in Pointers : mem'[p] = c
    PROVE  PointerInv'
<1>1. \A x \in Shared : buf'[x] # Null => buf'[x] \in Known'
  BY DEF BufferInv, BlocksAreOwned
<1>2. \A p \in Pointers : mem'[p] # Null => mem'[p] \in Shared
  BY PointerAssumption
<1> QED
  BY <1>1, <1>2 DEF PointerInv, PointersKeepBlocks, is_managed, Unused

\* The calls on buffers and scopes leave the objects of the pointers alone.
LEMMA CellsStay ==
    ASSUME BufferInv, PlainStep \/ ScopeStep \/ SharedStep(Variables)
    PROVE  \A c \in Cells : buf'[c] = buf[c]
<1>0. buf \in Bindings /\ \A c \in Cells : c \in All /\ c \notin Plain /\ c \notin Variables
  BY BufferAssumption, PointerAssumption DEF BufferInv, BufferTypeOK, All, Variables
<1>1. ASSUME NEW x, NEW v, NEW n, Bind(x, v, n), x \notin Cells
      PROVE  \A c \in Cells : buf'[c] = buf[c]
  BY <1>0, <1>1 DEF Bind, Bindings
<1>2. ASSUME NEW x, NEW y, Swap(x, y), x \notin Cells, y \notin Cells
      PROVE  \A c \in Cells : buf'[c] = buf[c]
  BY <1>0, <1>2 DEF Swap, Bindings
<1>3. CASE PlainStep
  <2>1. PICK p \in Plain : \/ PlainConstruct(p) \/ PlainAppend(p) \/ PlainAssign(p) \/ PlainReset(p)
                           \/ \E q \in Plain : Swap(p, q)
    BY <1>3 DEF PlainStep
  <2>2. CASE \E q \in Plain : Swap(p, q)
    BY <1>0, <1>2, <2>2
  <2>3. CASE PlainConstruct(p) \/ PlainAppend(p) \/ PlainAssign(p) \/ PlainReset(p)
    BY <1>0, <1>1, <2>3, SMTT(20)
       DEF PlainConstruct, PlainAppend, PlainAssign, PlainReset, Reallocated
  <2> QED
    BY <2>1, <2>2, <2>3
<1>4. CASE ScopeStep
  BY <1>4 DEF ScopeStep, EnterScope, LeaveScope
<1>5. CASE SharedStep(Variables)
  <2>1. PICK x \in Variables :
          \/ Construct(x) \/ \E a \in Known : FromRaw(x, a)
          \/ AppendCopies(x) \/ AppendInPlace(x) \/ AppendFirst(x) \/ AppendThrows(x)
          \/ Reset(x)
          \/ \E y \in Variables : CopyConstruct(x, y) \/ Assign(x, y) \/ SharedSwap(x, y)
          \/ \E p \in Plain : AssignBuffer(x, p)
    BY <1>5 DEF SharedStep
  <2>2. x \notin Cells
    BY DEF Variables
  <2>3. CASE Construct(x) \/ AppendFirst(x) \/ AppendCopies(x) \/ AppendInPlace(x) \/ Reset(x)
    BY <1>1, <2>2, <2>3
       DEF Construct, AppendFirst, AppendCopies, AppendInPlace, Reset, Reallocated
  <2>4. CASE AppendThrows(x)
    BY <2>4 DEF AppendThrows, bufferVars
  <2>5. CASE \E a \in Known : FromRaw(x, a)
    BY <1>1, <2>2, <2>5 DEF FromRaw
  <2>6. CASE \E y \in Variables : CopyConstruct(x, y) \/ Assign(x, y)
    BY <1>1, <2>2, <2>6 DEF CopyConstruct, Assign
  <2>7. CASE \E y \in Variables : SharedSwap(x, y)
    BY <1>2, <2>2, <2>7 DEF SharedSwap, Variables
  <2>8. CASE \E p \in Plain : AssignBuffer(x, p)
    BY <1>1, <2>2, <2>8 DEF AssignBuffer
  <2> QED
    BY <2>1, <2>3, <2>4, <2>5, <2>6, <2>7, <2>8
<1> QED
  BY <1>3, <1>4, <1>5

\* operator= of a managed pointer: a new reference, then the old one is given up.
LEMMA ManagedAssignKeepsInv ==
    ASSUME IInv, NEW p \in Pointers, NEW q \in Pointers \ {p}, AssignPointer(p, q), is_managed(q)
    PROVE  IInv' /\ Kept
<1> DEFINE a == buf[mem[q]]
           dying == IF IsSoleOwner(p) THEN {mem[p]} ELSE {}
           plus == {a}
           minus == {buf[d] : d \in dying}
<1>0. /\ Known \subseteq Addresses /\ buf \in Bindings /\ len = [z \in All |-> len[z]]
      /\ scopes \in Seq(Scopes) /\ \A k \in DOMAIN scopes : scopes[k].initial = k
      /\ initial = 1 + Len(scopes) /\ Null \notin Addresses
  BY BufferAssumption DEF IInv, BufferInv, BufferTypeOK, CountsInv
<1>1. PICK c \in Cells :
        /\ Unused(c) /\ Refer(p, ptr[q], c) /\ Recount(plus, minus)
        /\ buf' = [x \in DOMAIN buf |-> IF x = c THEN a ELSE IF x \in dying THEN Null ELSE buf[x]]
        /\ len' = [x \in DOMAIN len |-> IF x = c THEN len[mem[q]]
                                        ELSE IF x \in dying THEN 0 ELSE len[x]]
        /\ UNCHANGED <<initial, scopes>>
  BY DEF AssignPointer
<1>2. /\ ptr \in [Pointers -> Addresses \cup {Null}] /\ mem \in [Pointers -> Cells \cup {Null}]
      /\ \A r \in Pointers : mem[r] # Null => buf[mem[r]] = ptr[r] /\ ptr[r] \in Known
      /\ \A d \in Cells : buf[d] # Null => \E r \in Pointers : mem[r] = d
  BY DEF IInv, PointerInv, PointersKeepBlocks, is_managed, Unused
<1>3. /\ mem[q] \in Cells /\ a = ptr[q] /\ a \in Known /\ buf[c] = Null
      /\ \A r \in Pointers : mem[r] # c
  BY <1>1, <1>2 DEF is_managed, Unused
<1>4. dying \subseteq Cells /\ c \notin dying /\ mem[q] \notin dying
  BY <1>2, <1>3 DEF IsSoleOwner, is_managed
<1>5. \A x \in Cells : x \in Shared /\ x \in All /\ x \notin Plain
  BY BufferAssumption, PointerAssumption DEF All
<1>6. DOMAIN buf = All /\ DOMAIN len = All
  BY <1>0 DEF Bindings
<1> HIDE DEF a, plus
<1>7. /\ buf' \in Bindings /\ buf'[c] = a /\ \A x \in dying : buf'[x] = Null
      /\ \A x \in All \ ({c} \cup dying) : buf'[x] = buf[x] /\ len'[x] = len[x]
      /\ len' = [x \in All |-> len'[x]]
  BY <1>0, <1>1, <1>3, <1>4, <1>5, <1>6 DEF Bindings
<1> HIDE DEF dying
<1>8. \A r \in Plain : buf'[r] = buf[r] /\ len'[r] = len[r]
  BY <1>4, <1>5, <1>7 DEF All
<1> DEFINE f == [buf EXCEPT ![c] = a]
<1>9. f \in Bindings /\ f[c] = a /\ \A x \in All \ {c} : f[x] = buf[x]
  BY <1>0, <1>3, <1>5 DEF Bindings
<1>10. \A k : Count(f, k) = Count(buf, k) + Is(k, a) - Is(k, Null)
  <2>1. a \in Addresses \cup {Null} /\ c \in Shared
    BY <1>0, <1>3, <1>5
  <2> QED
    BY <1>0, <1>3, <2>1, CountBind
<1> HIDE DEF f
<1>11. ASSUME NEW k \in Known
       PROVE  Count(buf', k) = Count(buf, k) + In(k, plus) - In(k, minus)
  <2>1. Is(k, Null) = 0 /\ In(k, plus) = Is(k, a) /\ Is(k, a) \in {0, 1} /\ Count(buf, k) \in Nat
    BY <1>0, OfOneBlock DEF Is, In, plus, IInv
  <2>2. CASE IsSoleOwner(p)
    <3>1. dying = {mem[p]} /\ minus = {buf[mem[p]]} /\ mem[p] \in Cells
      BY <1>4, <2>2 DEF dying
    <3>2. In(k, minus) = Is(k, f[mem[p]])
      BY <1>4, <1>5, <1>9, <3>1 DEF In, Is
    <3>3. buf' = [f EXCEPT ![mem[p]] = Null]
      BY <1>4, <1>5, <1>7, <1>9, <3>1, SMT DEF Bindings
    <3>4. Count([f EXCEPT ![mem[p]] = Null], k) = Count(f, k) + Is(k, Null) - Is(k, f[mem[p]])
      BY <1>5, <1>9, <3>1, CountBind, SMT
    <3>5. In(k, minus) \in {0, 1}
      BY DEF In
    <3> QED
      BY <1>10, <2>1, <3>2, <3>3, <3>4, <3>5, SMT
  <2>3. CASE ~IsSoleOwner(p)
    <3>1. dying = {} /\ minus = {}
      BY <2>3 DEF dying
    <3>2. In(k, minus) = 0
      BY <3>1 DEF In
    <3>3. buf' = f
      BY <1>7, <1>9, <3>1, SMT DEF Bindings
    <3> QED
      BY <1>10, <2>1, <3>2, <3>3
  <2> QED
    BY <2>2, <2>3
<1>12. \A k \in Known : Count(buf', k) + Cover(scopes', k)
                  = Count(buf, k) + Cover(scopes, k) + In(k, plus) - In(k, minus)
  <2> TAKE k \in Known
  <2>1. Count(buf, k) \in Nat /\ Cover(scopes, k) \in Nat
    BY <1>0, OfOneBlock DEF IInv
  <2>2. In(k, plus) \in {0, 1} /\ In(k, minus) \in {0, 1}
    BY DEF In
  <2> QED
    BY <1>1, <1>11, <2>1, <2>2, SMT
<1>13. /\ plus \in SUBSET Known
       /\ \A x \in Shared : buf'[x] \in {buf[y] : y \in Shared} \cup plus \cup {Null}
  BY <1>3, <1>7 DEF plus, All
<1>14. BufferInv' /\ Kept
  <2> HIDE DEF minus
  <2> QED
    BY <1>0, <1>1, <1>7, <1>8, <1>12, <1>13, RecountKeepsInv DEF IInv
<1>15. /\ ptr' \in [Pointers -> Addresses \cup {Null}] /\ mem' \in [Pointers -> Cells \cup {Null}]
       /\ ptr'[p] = a /\ mem'[p] = c
       /\ \A r \in Pointers \ {p} : ptr'[r] = ptr[r] /\ mem'[r] = mem[r]
  BY <1>0, <1>1, <1>2, <1>3 DEF Refer
<1>16. \A r \in Pointers \ {p} : mem[r] \notin dying
  BY DEF dying, IsSoleOwner
<1>17. ASSUME NEW r \in Pointers, mem'[r] # Null
       PROVE  ptr'[r] # Null /\ buf'[mem'[r]] = ptr'[r]
  BY <1>0, <1>2, <1>3, <1>5, <1>7, <1>15, <1>16, <1>17, SMT
<1>18. ASSUME NEW d \in Cells, buf'[d] # Null
       PROVE  \E r \in Pointers : mem'[r] = d
  <2>1. CASE d = c
    BY <1>15, <2>1
  <2>2. CASE d # c
    <3>1. d \notin dying /\ buf[d] # Null
      BY <1>5, <1>7, <1>18, <2>2
    <3>2. PICK r \in Pointers : mem[r] = d
      BY <1>2, <3>1
    <3>3. \E o \in Pointers \ {p} : mem[o] = d
      <4>1. CASE r = p
        <5>1. ~IsSoleOwner(p) /\ is_managed(p)
          BY <3>1, <3>2, <4>1, PointerAssumption DEF dying, is_managed
        <5> QED
          BY <3>2, <4>1, <5>1 DEF IsSoleOwner
      <4> QED
        BY <3>2, <4>1
    <3> QED
      BY <1>15, <3>3
  <2> QED
    BY <2>1, <2>2
<1> QED
  BY <1>14, <1>15, <1>17, <1>18, PointersFollow DEF IInv

\* Giving up the reference of p, and the object that only p referred to.
LEMMA GiveUpKeepsInv ==
    ASSUME ~MovesInScope, IInv, NEW p \in Pointers, NEW a \in Addresses \cup {Null},
           Refer(p, a, Null),
           IF IsSoleOwner(p) THEN Reset(mem[p]) ELSE UNCHANGED bufferVars
    PROVE  IInv' /\ Kept
<1>1. /\ ptr \in [Pointers -> Addresses \cup {Null}] /\ mem \in [Pointers -> Cells \cup {Null}]
      /\ \A r \in Pointers : mem[r] # Null => buf[mem[r]] = ptr[r] /\ ptr[r] \in Known
      /\ \A d \in Cells : buf[d] # Null => \E r \in Pointers : mem[r] = d
      /\ buf \in Bindings /\ Known \subseteq Addresses /\ Null \notin Addresses
  BY BufferAssumption
     DEF IInv, PointerInv, PointersKeepBlocks, is_managed, Unused, BufferInv, BufferTypeOK
<1>2. /\ ptr' \in [Pointers -> Addresses \cup {Null}] /\ mem' \in [Pointers -> Cells \cup {Null}]
      /\ mem'[p] = Null /\ \A r \in Pointers \ {p} : ptr'[r] = ptr[r] /\ mem'[r] = mem[r]
  BY <1>1 DEF Refer
<1>3. \A x \in Cells : x \in Shared /\ x \in All
  BY PointerAssumption DEF All
<1>4. CASE IsSoleOwner(p)
  <2>1. mem[p] \in Cells /\ Reset(mem[p]) /\ \A r \in Pointers \ {p} : mem[r] # mem[p]
    BY <1>1, <1>4 DEF IsSoleOwner, is_managed
  <2>2. BufferInv' /\ Kept
    BY <1>3, <2>1, SharedCallKeepsInv DEF IInv
  <2>3. buf'[mem[p]] = Null /\ \A x \in Cells \ {mem[p]} : buf'[x] = buf[x]
    BY <1>1, <1>3, <2>1, SMTT(20) DEF Reset, Bind, Bindings
  <2>4. \A r \in Pointers : mem'[r] # Null => ptr'[r] # Null /\ buf'[mem'[r]] = ptr'[r]
    BY <1>1, <1>2, <2>1, <2>3, SMT
  <2>5. \A d \in Cells : buf'[d] # Null => \E r \in Pointers : mem'[r] = d
    BY <1>1, <1>2, <2>3, SMT
  <2> QED
    BY <1>2, <2>2, <2>4, <2>5, PointersFollow DEF IInv
<1>5. CASE ~IsSoleOwner(p)
  <2>1. UNCHANGED <<heap, use_count, initial, buf, len, scopes, unseen>>
    BY <1>5 DEF bufferVars
  <2>2. BufferInv' /\ Kept
    BY <2>1, SameBuffers DEF IInv
  <2>3. \A r \in Pointers : mem'[r] # Null => ptr'[r] # Null /\ buf'[mem'[r]] = ptr'[r]
    BY <1>1, <1>2, <2>1
  <2>4. ASSUME NEW d \in Cells, buf'[d] # Null
        PROVE  \E r \in Pointers : mem'[r] = d
    <3>1. PICK r \in Pointers : mem[r] = d
      BY <1>1, <2>1, <2>4
    <3>2. CASE r = p
      BY <1>2, <1>5, <3>1, <3>2, PointerAssumption DEF IsSoleOwner, is_managed
    <3> QED
      BY <1>2, <3>1, <3>2
  <2> QED
    BY <1>2, <2>2, <2>3, <2>4, PointersFollow DEF IInv
<1> QED
  BY <1>4, <1>5

\* Every step keeps the invariant, and what must be kept.
LEMMA InvStep ==
    ASSUME ~MovesInScope, IInv, Next
    PROVE  IInv' /\ Kept
<1>0. /\ ptr \in [Pointers -> Addresses \cup {Null}] /\ mem \in [Pointers -> Cells \cup {Null}]
      /\ \A r \in Pointers : mem[r] # Null => buf[mem[r]] = ptr[r] /\ ptr[r] \in Known
      /\ \A d \in Cells : buf[d] # Null => \E r \in Pointers : mem[r] = d
      /\ buf \in Bindings /\ Known \subseteq Addresses /\ Null \notin Addresses
  BY BufferAssumption
     DEF IInv, PointerInv, PointersKeepBlocks, is_managed, Unused, BufferInv, BufferTypeOK
<1>a. /\ \A x \in Cells : x \in Shared /\ x \in All /\ x # Null
      /\ \A x \in Variables : x \in Shared /\ x \in All /\ x \notin Cells
  BY PointerAssumption DEF All, Variables
<1>b. \A x \in Shared : buf[x] # Null => buf[x] \in Addresses
  BY <1>0 DEF Bindings, All
<1>1. CASE (PlainStep \/ ScopeStep \/ SharedStep(Variables)) /\ UNCHANGED pointerVars
  <2>1. BufferInv' /\ Kept
    BY <1>1, PlainStepKeepsInv, ScopeStepKeepsInv, SharedStepKeepsInv DEF IInv, Variables
  <2>2. \A c \in Cells : buf'[c] = buf[c]
    BY <1>1, CellsStay DEF IInv
  <2>3. ptr' = ptr /\ mem' = mem
    BY <1>1 DEF pointerVars
  <2> QED
    BY <1>0, <2>1, <2>2, <2>3, PointersFollow DEF IInv
<1>2. ASSUME NEW p \in Pointers, NEW a \in Addresses, NEW c \in Cells, ptr[p] = Null, Unused(c),
             Refer(p, a, c), BufferInv', buf' = [buf EXCEPT ![c] = a]
      PROVE  PointerInv'
  <2>1. /\ ptr' \in [Pointers -> Addresses \cup {Null}] /\ mem' \in [Pointers -> Cells \cup {Null}]
        /\ mem'[p] = c /\ ptr'[p] = a
        /\ \A r \in Pointers \ {p} : ptr'[r] = ptr[r] /\ mem'[r] = mem[r]
    BY <1>0, <1>2 DEF Refer
  <2>2. buf'[c] = a /\ \A x \in Cells \ {c} : buf'[x] = buf[x]
    BY <1>0, <1>2, <1>a DEF Bindings
  <2>3. mem[p] = Null /\ \A r \in Pointers : mem[r] # c
    BY <1>0, <1>2 DEF Unused
  <2>4. \A r \in Pointers : mem'[r] # Null => ptr'[r] # Null /\ buf'[mem'[r]] = ptr'[r]
    BY <1>0, <2>1, <2>2, <2>3, SMT
  <2>5. \A d \in Cells : buf'[d] # Null => \E r \in Pointers : mem'[r] = d
    BY <1>0, <1>a, <2>1, <2>2, <2>3, SMT
  <2> QED
    BY <1>2, <2>1, <2>4, <2>5, PointersFollow
<1>3. ASSUME NEW p \in Pointers, FromAddress(p)
      PROVE  IInv' /\ Kept
  <2>1. PICK a \in Addresses :
          \/ /\ a \in Known
             /\ \E c \in Cells : Unused(c) /\ FromRaw(c, a) /\ Refer(p, a, c)
          \/ a \notin Known /\ Refer(p, a, Null) /\ UNCHANGED bufferVars
    BY <1>3 DEF FromAddress
  <2>2. ptr[p] = Null
    BY <1>3 DEF FromAddress
  <2>3. ASSUME NEW c \in Cells, Unused(c), FromRaw(c, a), Refer(p, a, c)
        PROVE  IInv' /\ Kept
    <3>1. BufferInv' /\ Kept
      BY <1>a, <2>3, SharedCallKeepsInv DEF IInv
    <3>2. buf' = [buf EXCEPT ![c] = a]
      BY <2>3 DEF FromRaw, Bind
    <3> QED
      BY <1>2, <2>2, <2>3, <3>1, <3>2 DEF IInv
  <2>4. ASSUME Refer(p, a, Null), UNCHANGED bufferVars
        PROVE  IInv' /\ Kept
    <3>1. ~IsSoleOwner(p)
      BY <1>0, <2>2 DEF IsSoleOwner, is_managed
    <3> QED
      BY <2>4, <3>1, GiveUpKeepsInv
  <2> QED
    BY <2>1, <2>3, <2>4
<1>4. ASSUME NEW p \in Pointers, FromBuffer(p)
      PROVE  IInv' /\ Kept
  <2>1. PICK c \in Cells, x \in Variables : Unused(c) /\ CopyConstruct(c, x) /\ Refer(p, buf[x], c)
    BY <1>4 DEF FromBuffer
  <2>2. ptr[p] = Null
    BY <1>4 DEF FromBuffer
  <2>3. BufferInv' /\ Kept
    BY <1>a, <2>1, SharedCallKeepsInv DEF IInv
  <2>4. buf' = [buf EXCEPT ![c] = buf[x]] /\ buf[x] \in Addresses
    BY <1>a, <1>b, <2>1 DEF CopyConstruct, Bind
  <2> QED
    BY <1>2, <2>1, <2>2, <2>3, <2>4 DEF IInv
<1>5. ASSUME NEW p \in Pointers, NEW q \in Pointers, CopyPointer(p, q)
      PROVE  IInv' /\ Kept
  <2>1. /\ ptr[p] = Null /\ mem[p] = Null
        /\ UNCHANGED <<heap, use_count, initial, buf, len, scopes, unseen>>
    BY <1>0, <1>5 DEF CopyPointer, bufferVars
  <2>2. BufferInv' /\ Kept
    BY <2>1, SameBuffers DEF IInv
  <2>3. /\ ptr' \in [Pointers -> Addresses \cup {Null}] /\ mem' \in [Pointers -> Cells \cup {Null}]
        /\ mem'[p] = mem[q] /\ ptr'[p] = ptr[q]
        /\ \A r \in Pointers \ {p} : ptr'[r] = ptr[r] /\ mem'[r] = mem[r]
    BY <1>0, <1>5 DEF CopyPointer, Refer
  <2>4. \A r \in Pointers : mem'[r] # Null => ptr'[r] # Null /\ buf'[mem'[r]] = ptr'[r]
    BY <1>0, <2>1, <2>3, ZenonT(40)
  <2>5. \A d \in Cells : buf'[d] # Null => \E r \in Pointers : mem'[r] = d
    BY <1>0, <1>a, <2>1, <2>3, SMT
  <2> QED
    BY <2>2, <2>3, <2>4, <2>5, PointersFollow DEF IInv
<1>6. ASSUME NEW p \in Pointers, NEW q \in Pointers, AssignPointer(p, q)
      PROVE  IInv' /\ Kept
  <2>1. q \in Pointers \ {p}
    BY <1>6 DEF AssignPointer
  <2>2. CASE is_managed(q)
    BY <1>6, <2>1, <2>2, ManagedAssignKeepsInv
  <2>3. CASE ~is_managed(q)
    <3>1. /\ Refer(p, ptr[q], Null) /\ ptr[q] \in Addresses \cup {Null}
          /\ IF IsSoleOwner(p) THEN Reset(mem[p]) ELSE UNCHANGED bufferVars
      BY <1>0, <1>6, <2>3 DEF AssignPointer
    <3> QED
      BY <3>1, GiveUpKeepsInv
  <2> QED
    BY <2>2, <2>3
<1>7. ASSUME NEW p \in Pointers, DropPointer(p)
      PROVE  IInv' /\ Kept
  BY <1>7, GiveUpKeepsInv DEF DropPointer
<1>8. ASSUME NEW p \in Pointers, ToBuffer(p)
      PROVE  IInv' /\ Kept
  <2>1. PICK x \in Variables : CopyConstruct(x, mem[p])
    BY <1>8 DEF ToBuffer
  <2>2. mem[p] \in Cells /\ ptr' = ptr /\ mem' = mem
    BY <1>0, <1>8 DEF ToBuffer, is_managed, pointerVars
  <2>3. BufferInv' /\ Kept
    BY <1>a, <2>1, <2>2, SharedCallKeepsInv DEF IInv
  <2>4. \A c \in Cells : buf'[c] = buf[c]
    BY <1>0, <1>a, <2>1 DEF CopyConstruct, Bind, Bindings
  <2> QED
    BY <1>0, <2>2, <2>3, <2>4, PointersFollow DEF IInv
<1> QED
  BY <1>1, <1>3, <1>4, <1>5, <1>6, <1>7, <1>8 DEF Next

LEMMA InvInit == Init => IInv
<1> SUFFICES ASSUME Init PROVE IInv
  OBVIOUS
<1>1. /\ heap = <<>> /\ use_count = <<>> /\ initial = 1 /\ scopes = <<>>
      /\ buf = [x \in All |-> Null] /\ len = [x \in All |-> 0]
      /\ unseen = [a \in Addresses |-> 0]
      /\ ptr = [p \in Pointers |-> Null] /\ mem = [p \in Pointers |-> Null]
  BY DEF Init, BufferInit, All
<1>2. DOMAIN heap = {} /\ Known = {} /\ heap = [a \in {} |-> heap[a]]
      /\ use_count = [a \in {} |-> use_count[a]]
  BY <1>1, SMT DEF Known
<1>3. BufferTypeOK
  BY <1>1, <1>2, SMT DEF BufferTypeOK, Bindings
<1>4. BlocksAreOwned
  BY <1>1, <1>2 DEF BlocksAreOwned, All
<1>5. CountsInv
  BY <1>1, <1>2, SMT DEF CountsInv
<1>6. PointerInv
  BY <1>1, PointerAssumption DEF PointerInv, PointersKeepBlocks, is_managed, All
<1> QED
  BY <1>3, <1>4, <1>5, <1>6 DEF IInv, BufferInv

LEMMA InvStutter ==
    ASSUME IInv, UNCHANGED <<bufferVars, pointerVars>>
    PROVE  IInv' /\ Kept
<1>1. /\ UNCHANGED <<heap, use_count, initial, buf, len, scopes, unseen>>
      /\ ptr' = ptr /\ mem' = mem
  BY DEF bufferVars, pointerVars
<1>2. BufferInv' /\ Kept
  BY <1>1, SameBuffers DEF IInv
<1>3. PointerInv'
  BY <1>1 DEF IInv, PointerInv, PointersKeepBlocks, is_managed, Unused, Known
<1> QED
  BY <1>2, <1>3 DEF IInv

\* As long as append moves no block inside a scope, the invariant holds: every
\* block has its owners, the counts are exact, and every managed pointer has its
\* reference.
THEOREM MemoryInvariant == ~MovesInScope /\ Spec => []IInv
<1> SUFFICES ASSUME ~MovesInScope
             PROVE  Spec => []IInv
  OBVIOUS
<1>1. IInv /\ [Next]_<<bufferVars, pointerVars>> => IInv'
  BY InvStep, InvStutter
<1> QED
  BY <1>1, InvInit, PTL DEF Spec

-----------------------------------------------------------------------------
\* A buffer shares its block with nobody, a stable_reference_buffer refers to a
\* block that is allocated and counted, and a block without an owner is freed,
\* whatever the calls of buffer, stable_reference_buffer, delay_deallocation and
\* pointer.
THEOREM EveryBlockOwned == ~MovesInScope /\ Spec => []BlocksAreOwned
<1> SUFFICES ASSUME ~MovesInScope
             PROVE  Spec => []BlocksAreOwned
  OBVIOUS
<1>1. IInv => BlocksAreOwned
  BY DEF IInv, BufferInv
<1> QED
  BY <1>1, MemoryInvariant, PTL

\* The map of use counts says how many variables and open scopes hold a block.
THEOREM ExactCounts == ~MovesInScope /\ Spec => []CountsAreExact
<1> SUFFICES ASSUME ~MovesInScope
             PROVE  Spec => []CountsAreExact
  OBVIOUS
<1>1. IInv => CountsAreExact
  BY CountsFollow DEF IInv
<1> QED
  BY <1>1, MemoryInvariant, PTL

\* A managed pointer keeps its block, and no reference outlives its pointers.
THEOREM PointersKeep == ~MovesInScope /\ Spec => []PointersKeepBlocks
<1> SUFFICES ASSUME ~MovesInScope
             PROVE  Spec => []PointersKeepBlocks
  OBVIOUS
<1>1. IInv => PointersKeepBlocks
  BY DEF IInv, PointerInv
<1> QED
  BY <1>1, MemoryInvariant, PTL

\* No call before the end of a scope frees a block that the scope covers, and the
\* pointer that safe_get() returns outlives the variable it was taken from.
THEOREM ScopeKeeps == ~MovesInScope /\ Spec => ScopeKeepsBlocks
<1> SUFFICES ASSUME ~MovesInScope
             PROVE  Spec => ScopeKeepsBlocks
  OBVIOUS
<1> DEFINE A == /\ Len(scopes') >= Len(scopes) =>
                     \A a \in Known : Covering(a) # {} => a \in Known'
                /\ \A x \in Shared :
                     safe_get(x) # Null /\ buf'[x] = Null /\ Len(scopes') >= Len(scopes)
                        => safe_get(x) \in DOMAIN heap'
<1>1. ASSUME IInv, IInv', Kept PROVE A
  <2>1. /\ scopes \in Seq(Scopes) /\ Known \subseteq Addresses
        /\ \A a \in Known : use_count[a] \in Int
        /\ Known' \subseteq DOMAIN heap'
    BY <1>1 DEF IInv, BufferInv, BufferTypeOK, BlocksAreOwned
  <2>2. ASSUME NEW a \in Known, Covering(a) # {}
        PROVE  Cover(scopes, a) >= 1
    <3>1. Cover(scopes, a) \in Nat /\ Cover(scopes, a) # 0
      BY <2>1, <2>2, CoverSeen DEF Covering
    <3> QED
      BY <3>1, SMT
  <2>3. ASSUME NEW x \in Shared, safe_get(x) # Null
        PROVE  safe_get(x) \in Known /\ use_count[safe_get(x)] >= 2
    BY <2>1, <2>3, SMT DEF safe_get, UseCount
  <2> QED
    BY <1>1, <2>1, <2>2, <2>3 DEF Kept
<1>2. IInv /\ IInv' /\ [Next]_<<bufferVars, pointerVars>> => [A]_bufferVars
  BY <1>1, InvStep, InvStutter
<1> QED
  BY <1>2, MemoryInvariant, PTL DEF Spec, ScopeKeepsBlocks

\* append is copy-on-write: a block of two stable_reference_buffers keeps the bytes
\* that one of them reads.
THEOREM CopiesOnWrite == ~MovesInScope /\ Spec => CopyOnWrite
<1> SUFFICES ASSUME ~MovesInScope
             PROVE  Spec => CopyOnWrite
  OBVIOUS
<1> DEFINE A == \A x, y \in Shared :
                  x # y /\ buf[x] # Null /\ buf[x] = buf[y]
                        /\ buf'[x] = buf[x] /\ len'[x] = len[x]
                     => Value(x)' = Value(x)
<1>1. ASSUME IInv, IInv', Kept PROVE A
  <2> SUFFICES ASSUME NEW x \in Shared, NEW y \in Shared,
                      x # y, buf[x] # Null, buf[x] = buf[y], buf'[x] = buf[x], len'[x] = len[x]
               PROVE  Value(x)' = Value(x)
    OBVIOUS
  <2>1. buf \in Bindings /\ buf[x] \in DOMAIN heap /\ buf[x] \in DOMAIN heap'
    BY <1>1 DEF IInv, BufferInv, BufferTypeOK, BlocksAreOwned
  <2>2. Count(buf, buf[x]) >= 2
    BY <2>1, CountOwners
  <2>3. heap'[buf[x]] = heap[buf[x]]
    BY <1>1, <2>1, <2>2 DEF Kept
  <2> QED
    BY <2>1, <2>3 DEF Value
<1>2. IInv /\ IInv' /\ [Next]_<<bufferVars, pointerVars>> => [A]_bufferVars
  BY <1>1, InvStep, InvStutter
<1> QED
  BY <1>2, MemoryInvariant, PTL DEF Spec, CopyOnWrite

=============================================================================
