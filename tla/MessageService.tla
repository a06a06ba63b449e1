--------------------------- MODULE MessageService ---------------------------
(***************************************************************************)
(* What message_manager promises its users, without threads, locks or      *)
(* condition variables.  Every message accepted for an identifier is       *)
(* pending until one handler takes it, active while that handler's         *)
(* callback runs, and then handled; a message taken by a handler that is   *)
(* being shut down may be lost instead.  The order in which pending        *)
(* messages are taken is the order_type of some handler of the identifier. *)
(* A client that waits for an identifier is only released in a state in    *)
(* which nothing is pending or active for it.                              *)
(*                                                                         *)
(* The messages of an identifier are numbered in the order in which they   *)
(* are accepted.                                                           *)
(***************************************************************************)
EXTENDS Integers

CONSTANTS Ids,      \* message identifiers
          Clients,  \* threads that may call wait_until_empty
          Orders,   \* Orders[id]: the order_types of the handlers of id
          None      \* "waits for nothing"

VARIABLES accepted, \* accepted[id]: number of messages accepted so far
          pending, active, handled, lost,
          waiting   \* waiting[c]: the identifier client c waits for, or None

vars == <<accepted, pending, active, handled, lost, waiting>>

Init ==
    /\ accepted = [id \in Ids |-> 0]
    /\ pending = [id \in Ids |-> {}]
    /\ active = [id \in Ids |-> {}]
    /\ handled = [id \in Ids |-> {}]
    /\ lost = [id \in Ids |-> {}]
    /\ waiting = [c \in Clients |-> None]

Accept(id) ==
    /\ accepted' = [accepted EXCEPT ![id] = @ + 1]
    /\ pending' = [pending EXCEPT ![id] = @ \cup {accepted[id] + 1}]
    /\ UNCHANGED <<active, handled, lost, waiting>>

\* FIFO takes the oldest pending message, FILO the newest, RANDOM any.
MayTake(order, id, m) ==
    \/ order = "FIFO" /\ \A n \in pending[id] : m <= n
    \/ order = "FILO" /\ \A n \in pending[id] : n <= m
    \/ order = "RANDOM"

Take(id, m) ==
    /\ m \in pending[id]
    /\ \E order \in Orders[id] : MayTake(order, id, m)
    /\ pending' = [pending EXCEPT ![id] = @ \ {m}]
    /\ active' = [active EXCEPT ![id] = @ \cup {m}]
    /\ UNCHANGED <<accepted, handled, lost, waiting>>

Handle(id, m) ==
    /\ m \in active[id]
    /\ active' = [active EXCEPT ![id] = @ \ {m}]
    /\ handled' = [handled EXCEPT ![id] = @ \cup {m}]
    /\ UNCHANGED <<accepted, pending, lost, waiting>>

Lose(id, m) ==
    /\ m \in active[id]
    /\ active' = [active EXCEPT ![id] = @ \ {m}]
    /\ lost' = [lost EXCEPT ![id] = @ \cup {m}]
    /\ UNCHANGED <<accepted, pending, handled, waiting>>

Wait(c, id) ==
    /\ waiting[c] = None
    /\ waiting' = [waiting EXCEPT ![c] = id]
    /\ UNCHANGED <<accepted, pending, active, handled, lost>>

Release(c) ==
    /\ waiting[c] # None
    /\ pending[waiting[c]] = {}
    /\ active[waiting[c]] = {}
    /\ waiting' = [waiting EXCEPT ![c] = None]
    /\ UNCHANGED <<accepted, pending, active, handled, lost>>

Next ==
    \/ \E id \in Ids :
          \/ Accept(id)
          \/ \E m \in pending[id] : Take(id, m)
          \/ \E m \in active[id] : Handle(id, m) \/ Lose(id, m)
    \/ \E c \in Clients : Release(c) \/ \E id \in Ids : Wait(c, id)

Spec == Init /\ [][Next]_vars
=============================================================================
