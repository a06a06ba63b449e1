------------------------------ MODULE MCThreads ------------------------------
(* The thread-safe containers and the logging, which share no state: a        *)
(* behaviour is about one of them, and the other stays in its initial state.  *)
EXTENDS ThreadSafeContainer, Logging

VARIABLE subject

Init ==
    /\ ContainerInit /\ LoggingInit
    /\ subject \in {"container", "logging"}

Next ==
    /\ UNCHANGED subject
    /\ \/ subject = "container" /\ ContainerNext /\ UNCHANGED loggingVars
       \/ subject = "logging" /\ LoggingNext /\ UNCHANGED containerVars

Spec == Init /\ [][Next]_<<containerVars, loggingVars, subject>> /\ ContainerFairness
=============================================================================
