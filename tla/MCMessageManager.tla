-------------------------- MODULE MCMessageManager --------------------------
(* Small instances of MessageManager for TLC. *)
EXTENDS MessageManager, TLC

CONSTANTS c1, c2, h1, h2, check, count

OneId == {count}
TwoIds == {check, count}

\* Two handlers of the same identifier.
PoolId == h1 :> count @@ h2 :> count
FifoPool == h1 :> "FIFO" @@ h2 :> "FIFO"
MixedPool == h1 :> "FILO" @@ h2 :> "RANDOM"
NoForward == [id \in Ids |-> {}]

\* The pipeline of the class documentation: the handler of check sends to count.
PipeId == h1 :> check @@ h2 :> count
PipeForward == check :> {count} @@ count :> {}

\* A single handler.
SingleId == h1 :> count
SingleFifo == h1 :> "FIFO"

ClientSymmetry == Permutations(Clients)
=============================================================================
