------------------------ MODULE StableReferenceBuffer ------------------------
(* container::buffer, container::stable_reference_buffer and its scopes      *)
(* delay_deallocation, as one thread uses them: a call is one step and scopes *)
(* are nested.  The constructors read the initial count before they lock the *)
(* map of counts, so that a call is not one step for several threads.  Sizes *)
(* are positive, and callers construct from raw pointers only while the      *)
(* block is known.                                                           *)
EXTENDS Integers, Sequences, FiniteSets, Functions

CONSTANTS
    Addresses,      \* what malloc and realloc may return
    Plain,          \* variables of type buffer
    Shared,         \* variables of type stable_reference_buffer
    Data,           \* bytes
    MaxLen,         \* bound: bytes in a block
    MaxScopes,      \* bound: nesting of delay_deallocation
    MovesInScope,   \* append may move a block of one owner inside a scope
    Null            \* nullptr

ASSUME BufferAssumption ==
    /\ IsFiniteSet(Shared) /\ Plain \cap Shared = {}
    /\ Null \notin Addresses

VARIABLES
    heap,           \* the contents of the allocated blocks
    use_count,      \* *_use_count, without its key nullptr
    initial,        \* the value of its key nullptr, 1 if there is none
    buf, len,       \* _buffer and _size of each variable
    scopes,         \* _old_entries and _initial_on_entry of each scope
    unseen          \* history: per block, the scopes that took it for an old one

bufferVars == <<heap, use_count, initial, buf, len, scopes, unseen>>

Known == DOMAIN use_count
Free == Addresses \ DOMAIN heap
Bytes == UNION {[1 .. n -> Data] : n \in 1 .. MaxLen}
Put(f, a, v) == [b \in DOMAIN f \cup {a} |-> IF b = a THEN v ELSE f[b]]
Without(f, A) == Restrict(f, DOMAIN f \ A)

BufferInit ==
    /\ heap = <<>> /\ use_count = <<>> /\ initial = 1
    /\ buf = [x \in Plain \cup Shared |-> Null]
    /\ len = [x \in Plain \cup Shared |-> 0]
    /\ scopes = <<>>
    /\ unseen = [a \in Addresses |-> 0]

Value(x) ==
    IF buf[x] \in DOMAIN heap THEN SubSeq(heap[buf[x]], 1, len[x]) ELSE <<>>

Bind(x, a, n) ==
    /\ buf' = [buf EXCEPT ![x] = a]
    /\ len' = [len EXCEPT ![x] = n]

-----------------------------------------------------------------------------
(* buffer *)

\* realloc leaves the block where it is or moves it; of nullptr it is malloc.
Reallocated(p, bytes, b) ==
    /\ b \in Free \cup ({buf[p]} \ {Null})
    /\ heap' = Put(Without(heap, {buf[p]}), b, bytes)
    /\ Bind(p, b, Len(bytes))

\* buffer(size), uninitialised, and buffer(address, length).
PlainConstruct(p) ==
    /\ buf[p] = Null
    /\ \E bytes \in Bytes, b \in Free : Reallocated(p, bytes, b)
    /\ UNCHANGED <<use_count, initial, scopes, unseen>>

PlainAppend(p) ==
    \E d \in Data, b \in Addresses :
        /\ len[p] < MaxLen
        /\ Reallocated(p, Append(Value(p), d), b)
        /\ UNCHANGED <<use_count, initial, scopes, unseen>>

\* The copy constructor and operator=; both throw if the source is empty.
PlainAssign(p) ==
    \E q \in (Plain \cup Shared) \ {p}, b \in Addresses :
        /\ Value(q) # <<>>
        /\ Reallocated(p, Value(q), b)
        /\ UNCHANGED <<use_count, initial, scopes, unseen>>

\* reset() and the destructor.
PlainReset(p) ==
    /\ buf[p] # Null
    /\ heap' = Without(heap, {buf[p]})
    /\ Bind(p, Null, 0)
    /\ UNCHANGED <<use_count, initial, scopes, unseen>>

Swap(x, y) ==
    /\ x # y
    /\ buf' = [buf EXCEPT ![x] = buf[y], ![y] = buf[x]]
    /\ len' = [len EXCEPT ![x] = len[y], ![y] = len[x]]
    /\ UNCHANGED <<heap, use_count, initial, scopes, unseen>>

-----------------------------------------------------------------------------
(* stable_reference_buffer *)

\* Mutants: append writes to a shared block; reset frees a block that others
\* use; a new block ignores the scopes; a scope forgets the blocks it found.
FaultyMustCopy(a) == FALSE
FaultyIsLast(c) == c <= 1
FaultyFirstCount == 1
FaultyOldEntries == {}

MustCopy(a) == a \in Known /\ use_count[a] > 1
IsLast(c) == c = 0
FirstCount == initial
OldEntries == Known

\* The counts of the blocks in plus go up and of those in minus down; a block
\* whose count drops to zero is forgotten and freed.
Recount(plus, minus) ==
    LET count(a) == use_count[a] + (IF a \in plus THEN 1 ELSE 0)
                                 - (IF a \in minus THEN 1 ELSE 0)
        gone == {a \in minus \cap Known : IsLast(count(a))}
    IN  /\ use_count' = [a \in Known \ gone |-> count(a)]
        /\ heap' = Without(heap, gone)
        /\ unseen' = [a \in Addresses |-> IF a \in gone THEN 0 ELSE unseen[a]]

\* update_or_insert of a block that malloc has just returned.
Track(b, bytes) ==
    /\ b \in Free
    /\ heap' = Put(heap, b, bytes)
    /\ use_count' = Put(use_count, b,
                        IF b \in Known THEN use_count[b] + 1 ELSE FirstCount)
    /\ unseen' = [unseen EXCEPT ![b] =
                     Cardinality({k \in DOMAIN scopes : b \in scopes[k].old})]

\* stable_reference_buffer(size) and stable_reference_buffer(buffer).
Construct(x) ==
    /\ buf[x] = Null
    /\ \E bytes \in Bytes, b \in Addresses : Track(b, bytes) /\ Bind(x, b, Len(bytes))
    /\ UNCHANGED <<initial, scopes>>

\* stable_reference_buffer(address): the size of the block stays unknown.
FromRaw(x, a) ==
    /\ buf[x] = Null /\ a \in Known
    /\ Recount({a}, {})
    /\ Bind(x, a, 0)
    /\ UNCHANGED <<initial, scopes>>

CopyConstruct(x, y) ==
    /\ buf[x] = Null /\ buf[y] # Null
    /\ Recount({buf[y]}, {})
    /\ Bind(x, buf[y], len[y])
    /\ UNCHANGED <<initial, scopes>>

\* append to a block that other variables, or a scope, refer to.
AppendCopies(x) ==
    /\ MustCopy(buf[x]) /\ len[x] \in 1 .. MaxLen - 1
    /\ \E d \in Data, b \in Free :
        LET bytes == Append(Value(x), d)
        IN  /\ heap' = Put(heap, b, bytes)
            /\ use_count' = Put([use_count EXCEPT ![buf[x]] = @ - 1], b, FirstCount)
            /\ unseen' = [unseen EXCEPT ![b] =
                  Cardinality({k \in DOMAIN scopes : b \in scopes[k].old})]
            /\ Bind(x, b, Len(bytes))
    /\ UNCHANGED <<initial, scopes>>

\* append to a block of one owner: a block that moves keeps its count.
AppendInPlace(x) ==
    /\ buf[x] # Null /\ ~MustCopy(buf[x]) /\ len[x] \in 1 .. MaxLen - 1
    /\ \E d \in Data, b \in Addresses :
        /\ b # buf[x] => MovesInScope \/ scopes = <<>>
        /\ Reallocated(x, Append(Value(x), d), b)
        /\ use_count' = Put(Without(use_count, {buf[x]}), b, use_count[buf[x]])
        /\ unseen' = [unseen EXCEPT ![buf[x]] = 0, ![b] = unseen[buf[x]]]
    /\ UNCHANGED <<initial, scopes>>

AppendFirst(x) ==
    /\ buf[x] = Null
    /\ \E d \in Data, b \in Addresses : Track(b, <<d>>) /\ Bind(x, b, 1)
    /\ UNCHANGED <<initial, scopes>>

\* append without a known size throws, and changes nothing.
AppendThrows(x) == len[x] = 0 /\ buf[x] # Null /\ UNCHANGED bufferVars

\* operator=(stable_reference_buffer).
Assign(x, y) ==
    /\ x # y /\ buf[y] # Null
    /\ Recount({buf[y]}, {buf[x]})
    /\ Bind(x, buf[y], len[y])
    /\ UNCHANGED <<initial, scopes>>

\* reset() and the destructor; also all that operator=(buffer) does before an
\* empty source makes it throw.
Reset(x) ==
    /\ buf[x] # Null
    /\ Recount({}, {buf[x]})
    /\ Bind(x, Null, 0)
    /\ UNCHANGED <<initial, scopes>>

\* operator=(buffer): reset(), then a deep copy; it may get the block back.
AssignBuffer(x, p) ==
    LET a == buf[x]
        last == a \in Known /\ use_count[a] = 1
        rest == IF a \notin Known THEN use_count
                ELSE IF last THEN Without(use_count, {a})
                ELSE [use_count EXCEPT ![a] = @ - 1]
        left == IF last THEN Without(heap, {a}) ELSE heap
    IN  /\ Value(p) # <<>>
        /\ \E b \in Addresses \ DOMAIN left :
            /\ heap' = Put(left, b, Value(p))
            /\ use_count' = Put(rest, b, FirstCount)
            /\ unseen' = [(IF last THEN [unseen EXCEPT ![a] = 0] ELSE unseen)
                          EXCEPT ![b] =
                  Cardinality({k \in DOMAIN scopes : b \in scopes[k].old})]
            /\ Bind(x, b, len[p])
        /\ UNCHANGED <<initial, scopes>>

\* The constructor of delay_deallocation.
EnterScope ==
    /\ Len(scopes) < MaxScopes
    /\ scopes' = Append(scopes, [old |-> OldEntries, initial |-> initial])
    /\ initial' = initial + 1
    /\ UNCHANGED <<heap, use_count, buf, len, unseen>>

\* Its destructor: the blocks that are new since its constructor are released.
LeaveScope ==
    LET n == Len(scopes) IN
    /\ n > 0
    /\ Recount({}, Known \ scopes[n].old)
    /\ initial' = scopes[n].initial
    /\ scopes' = SubSeq(scopes, 1, n - 1)
    /\ UNCHANGED <<buf, len>>

\* The member function use_count(): 0 if the block is not known.
UseCount(x) == IF buf[x] \in Known THEN use_count[buf[x]] ELSE 0

\* safe_get(): a pointer only if something besides this variable holds it.
safe_get(x) == IF UseCount(x) <= 1 THEN Null ELSE buf[x]

\* swap() locks the counts, which stay as they are.
SharedSwap(x, y) == Swap(x, y)

PlainStep ==
    \E p \in Plain :
        \/ PlainConstruct(p) \/ PlainAppend(p) \/ PlainAssign(p) \/ PlainReset(p)
        \/ \E q \in Plain : Swap(p, q)

\* A call on one of the variables in X.
SharedStep(X) ==
    \E x \in X :
        \/ Construct(x) \/ \E a \in Known : FromRaw(x, a)
        \/ AppendCopies(x) \/ AppendInPlace(x) \/ AppendFirst(x) \/ AppendThrows(x)
        \/ Reset(x)
        \/ \E y \in X : CopyConstruct(x, y) \/ Assign(x, y) \/ SharedSwap(x, y)
        \/ \E p \in Plain : AssignBuffer(x, p)

ScopeStep == EnterScope \/ LeaveScope

-----------------------------------------------------------------------------
Owners(a) == {x \in Shared : buf[x] = a}
Covering(a) == {k \in DOMAIN scopes : a \notin scopes[k].old}

\* Every block has an owner and every owner a block: a buffer shares its block
\* with nobody, the block of a stable_reference_buffer is allocated and
\* counted, and a block nobody counts or owns has been freed.
BlocksAreOwned ==
    /\ \A p \in Plain : buf[p] # Null =>
          /\ buf[p] \in DOMAIN heap \ Known /\ Len(heap[buf[p]]) = len[p]
          /\ \A q \in Plain \ {p} : buf[q] # buf[p]
    /\ \A x \in Shared : buf[x] # Null => buf[x] \in Known
    /\ DOMAIN heap = Known \cup ({buf[p] : p \in Plain} \ {Null})

\* The count of a block is the number of stable_reference_buffers that refer
\* to it and of open scopes in which it was made; only a block whose address
\* had been freed inside a scope that still knows it keeps a count too many.
CountsAreExact ==
    /\ initial = 1 + Len(scopes)
    /\ \A a \in Known :
          use_count[a] = Cardinality(Owners(a)) + Cardinality(Covering(a)) + unseen[a]

\* "Memory blocks remain valid even if their reference count drops to zero
\* within the scope": a block made inside a scope is freed, at the earliest,
\* when the scope ends, and safe_get() returns no other pointers than those
\* that outlive their variable.
ScopeKeepsBlocks ==
    [][/\ Len(scopes') >= Len(scopes) =>
             \A a \in Known : Covering(a) # {} => a \in Known'
       /\ \A x \in Shared :
             safe_get(x) # Null /\ buf'[x] = Null /\ Len(scopes') >= Len(scopes)
                => safe_get(x) \in DOMAIN heap']_bufferVars

\* append is copy-on-write: as long as two stable_reference_buffers share a
\* block, no call on one of them changes what the other reads.
CopyOnWrite ==
    [][\A x, y \in Shared :
          x # y /\ buf[x] # Null /\ buf[x] = buf[y]
                /\ buf'[x] = buf[x] /\ len'[x] = len[x]
             => Value(x)' = Value(x)]_bufferVars
=============================================================================
