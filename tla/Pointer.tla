------------------------------- MODULE Pointer -------------------------------
(* memory::pointer over the stable_reference_buffers.  A pointer that keeps   *)
(* a block alive owns, through a shared_ptr, a stable_reference_buffer of its *)
(* own; pointers copied from one another share it.                            *)
EXTENDS StableReferenceBuffer

CONSTANTS
    Pointers,       \* variables of type pointer
    Cells           \* \subseteq Shared: the objects make_shared returns

ASSUME PointerAssumption == Cells \subseteq Shared /\ Null \notin Cells

VARIABLES
    ptr,            \* _ptr
    mem             \* _mem: a member of Cells or Null

pointerVars == <<ptr, mem>>
Variables == Shared \ Cells

Init ==
    /\ BufferInit
    /\ ptr = [p \in Pointers |-> Null]
    /\ mem = [p \in Pointers |-> Null]

is_managed(p) == mem[p] # Null
Unused(c) == \A p \in Pointers : mem[p] # c
Refer(p, a, c) ==
    /\ ptr' = [ptr EXCEPT ![p] = a]
    /\ mem' = [mem EXCEPT ![p] = c]

\* Mutant: the first of several owners gives the reference up.
FaultyIsSoleOwner(p) == mem[p] # Null

\* The stable_reference_buffer of p dies with p's reference.
IsSoleOwner(p) == is_managed(p) /\ \A q \in Pointers \ {p} : mem[q] # mem[p]

\* pointer(void*): a block that is known is kept alive, any other is not.
FromAddress(p) ==
    /\ ptr[p] = Null
    /\ \E a \in Addresses :
        \/ /\ a \in Known
           /\ \E c \in Cells : Unused(c) /\ FromRaw(c, a) /\ Refer(p, a, c)
        \/ /\ a \notin Known
           /\ Refer(p, a, Null)
           /\ UNCHANGED bufferVars

\* pointer(stable_reference_buffer)
FromBuffer(p) ==
    /\ ptr[p] = Null
    /\ \E c \in Cells, x \in Variables :
        Unused(c) /\ CopyConstruct(c, x) /\ Refer(p, buf[x], c)

\* The implicit copy constructor shares _mem.
CopyPointer(p, q) ==
    /\ ptr[p] = Null /\ ptr[q] # Null
    /\ Refer(p, ptr[q], mem[q])
    /\ UNCHANGED bufferVars

\* operator=: a new stable_reference_buffer, then the old one is given up.
AssignPointer(p, q) ==
    /\ p # q /\ ptr[q] # Null
    /\ IF ~is_managed(q)
       THEN /\ Refer(p, ptr[q], Null)
            /\ IF IsSoleOwner(p) THEN Reset(mem[p]) ELSE UNCHANGED bufferVars
       ELSE \E c \in Cells :
            /\ Unused(c)
            /\ Refer(p, ptr[q], c)
            /\ LET a == buf[mem[q]]
                   dying == IF IsSoleOwner(p) THEN {mem[p]} ELSE {}
                   n == len[mem[q]]
               IN  /\ Recount({a}, {buf[d] : d \in dying})
                   /\ buf' = [x \in DOMAIN buf |-> IF x = c THEN a
                                 ELSE IF x \in dying THEN Null ELSE buf[x]]
                   /\ len' = [x \in DOMAIN len |-> IF x = c THEN n
                                 ELSE IF x \in dying THEN 0 ELSE len[x]]
                   /\ UNCHANGED <<initial, scopes>>

\* The destructor, and the assignment of an empty pointer.
DropPointer(p) ==
    /\ ptr[p] # Null
    /\ Refer(p, Null, Null)
    /\ IF IsSoleOwner(p) THEN Reset(mem[p]) ELSE UNCHANGED bufferVars

\* operator stable_reference_buffer: throws unless _mem is set.
ToBuffer(p) ==
    /\ is_managed(p)
    /\ \E x \in Variables : CopyConstruct(x, mem[p])
    /\ UNCHANGED pointerVars

Next ==
    \/ (PlainStep \/ ScopeStep \/ SharedStep(Variables))
          /\ UNCHANGED pointerVars
    \/ \E p \in Pointers :
          \/ FromAddress(p) \/ FromBuffer(p) \/ DropPointer(p) \/ ToBuffer(p)
          \/ \E q \in Pointers : CopyPointer(p, q) \/ AssignPointer(p, q)

Spec == Init /\ [][Next]_<<bufferVars, pointerVars>>
-----------------------------------------------------------------------------
\* A managed pointer keeps its block alive, whatever happens to the buffers and
\* pointers it was made from, and no reference outlives its pointers.
PointersKeepBlocks ==
    /\ \A p \in Pointers : is_managed(p) => buf[mem[p]] = ptr[p] /\ ptr[p] \in Known
    /\ \A c \in Cells : buf[c] # Null => ~Unused(c)
=============================================================================
