--------------------------- MODULE IdentifierPool ---------------------------
(* What lifecycle::item_registry promises: identifiers below bound are     *)
(* handed out smallest first and unique among the registered items, and    *)
(* exactly the registered ones can be returned.                            *)
EXTENDS Naturals

CONSTANT Largest    \* the largest number a caller can pass

VARIABLES
    bound,          \* identifiers are below bound
    registered,     \* the identifiers of the registered items
    answer          \* what the last call returned or threw

poolVars == <<bound, registered, answer>>

Free == (0 .. bound - 1) \ registered

PoolInit == bound \in 0 .. Largest /\ registered = {} /\ answer = <<"none", 0>>

Register ==
    \E n \in Free :
        /\ \A m \in Free : n <= m
        /\ registered' = registered \cup {n}
        /\ answer' = <<"registered", n>>

RegisterFull ==
    /\ Free = {}
    /\ answer' = <<"overflow_error", 0>>
    /\ UNCHANGED registered

Deregister ==
    \E n \in registered :
        /\ registered' = registered \ {n}
        /\ answer' = <<"deregistered", n>>

Refuse ==
    \E n \in (0 .. Largest) \ registered :
        /\ answer' = <<"runtime_error", n>>
        /\ UNCHANGED registered

PoolNext ==
    /\ Register \/ RegisterFull \/ Deregister \/ Refuse
    /\ UNCHANGED bound

PoolSpec == PoolInit /\ [][PoolNext]_poolVars
=============================================================================
