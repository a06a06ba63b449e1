------------------------------ MODULE MCPointer ------------------------------
(* Instances of Pointer for TLC: addresses, bytes and variables of one type   *)
(* are interchangeable.                                                       *)
EXTENDS Pointer, TLC

Symmetry ==
    Permutations(Addresses) \cup Permutations(Data) \cup Permutations(Plain)
        \cup Permutations(Variables) \cup Permutations(Cells)
        \cup Permutations(Pointers)
=============================================================================
