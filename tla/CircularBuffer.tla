--------------------------- MODULE CircularBuffer ---------------------------
(* container::circular_buffer<T, S>; unsynchronised, used by one thread.    *)
EXTENDS Naturals, Sequences

CONSTANTS
    S,          \* the template argument, the capacity
    Values      \* T

ASSUME CapacityAssumption == S \in Nat \ {0}

VARIABLES
    buffer,     \* _buffer, a std::array<T, S> that starts uninitialised
    i,          \* _i, the index of the next element to be overwritten
    full        \* _full

bufferVars == <<buffer, i, full>>

BufferTypeOK ==
    /\ buffer \in [0 .. S - 1 -> Values]
    /\ i \in 0 .. S - 1
    /\ full \in BOOLEAN

BufferInit ==
    /\ buffer \in [0 .. S - 1 -> Values]
    /\ i = 0
    /\ full = FALSE

\* Mutants: _full survives clear(); the offset of a wrapped buffer is forgotten.
FaultyCleared == full
FaultyOffset == 0

size == IF full THEN S ELSE i
empty == ~full /\ i = 0
max_size == S

\* Where at(), operator[] and front() find position pos.
Offset == IF full THEN i ELSE 0
Index(pos) == (pos + Offset) % S
front == Offset
back == (i + S - 1) % S

\* The slots from begin() to end().
EndIndex == IF full THEN S ELSE i

Advanced == (i + 1) % S
BecomesFull(k) == full \/ k = 0
Stored(v) ==
    /\ buffer' = [buffer EXCEPT ![i] = v]
    /\ i' = Advanced
    /\ full' = BecomesFull(Advanced)

push_back == \E v \in Values : Stored(v)
emplace_back == \E v \in Values : Stored(v)

Cleared == FALSE
clear ==
    /\ i' = 0
    /\ full' = Cleared
    /\ UNCHANGED buffer

Assigned(slot) ==
    \E v \in Values :
        /\ buffer' = [buffer EXCEPT ![slot] = v]
        /\ UNCHANGED <<i, full>>

\* at(pos) = v, in both overloads of at; out_of_range beyond size().
at == \E pos \in 0 .. S - 1 : pos < size /\ Assigned(Index(pos))
at_throws == \E pos \in 0 .. S : pos >= size /\ UNCHANGED bufferVars

\* buffer[pos] = v, front() = v, back() = v and *iterator = v.  Callers stay
\* below size(), which these do not check.
subscript == \E pos \in 0 .. S - 1 : pos < size /\ Assigned(Index(pos))
assign_front == ~empty /\ Assigned(front)
assign_back == ~empty /\ Assigned(back)
assign_iterator == \E k \in 0 .. S - 1 : k < EndIndex /\ Assigned(k)

BufferNext ==
    push_back \/ emplace_back \/ clear \/ at \/ at_throws \/ subscript
        \/ assign_front \/ assign_back \/ assign_iterator

BufferSpec == BufferInit /\ [][BufferNext]_bufferVars
-----------------------------------------------------------------------------
\* The values at() returns, oldest first.
Contents == [k \in 1 .. size |-> buffer[Index(k - 1)]]

Window == INSTANCE SlidingWindow WITH window <- Contents

\* push_back, emplace_back and clear keep the last S values in order, across
\* any number of wraps, and an assignment changes one of them.
ImplementsWindow == Window!WindowSpec

\* front(), back() and empty() agree with at(), and begin() .. end() visits
\* every slot that at() reaches and no other.
AccessorsAgree ==
    /\ empty <=> Contents = <<>>
    /\ ~empty => /\ buffer[front] = Contents[1]
                 /\ buffer[back] = Contents[Len(Contents)]
                 /\ {Index(pos) : pos \in 0 .. size - 1} = 0 .. EndIndex - 1
=============================================================================
