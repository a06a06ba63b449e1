---------------------------- MODULE SlidingWindow ----------------------------
(* What container::circular_buffer promises: it holds the S values pushed   *)
(* last since it was cleared, oldest first.                                  *)
EXTENDS Naturals, Sequences

CONSTANTS S, Values

VARIABLE window

WindowInit == window = <<>>

WindowPush ==
    \E v \in Values :
        window' = Append(IF Len(window) < S THEN window ELSE Tail(window), v)

WindowClear == window' = <<>>

\* A value is assigned through a reference to an element.
WindowAssign ==
    \E k \in 1 .. Len(window), v \in Values :
        window' = [window EXCEPT ![k] = v]

WindowNext == WindowPush \/ WindowClear \/ WindowAssign

WindowSpec == WindowInit /\ [][WindowNext]_window
=============================================================================
