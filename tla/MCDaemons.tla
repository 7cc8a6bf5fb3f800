----------------------------- MODULE MCDaemons -----------------------------
(* A small instance of Daemons: a stream of three transactions in two       *)
(* blocks, one of them without an amount, two lanes and two sealed blocks. *)
EXTENDS Daemons, Frames

MCTx(i, amount) == [sender |-> i, receiver |-> i + 3, amount |-> amount]

MCStream == << <<MCTx(2, 0)>>, <<MCTx(1, 1), MCTx(3, 2)>> >>

\* With the seed of the L1 node, or with another beside a data set whose proof of block 1
\* the flipped byte makes the one that the L1 node expects, and two broken connections; with
\* a restart beside a broken connection; and with more lanes than lane ids.
MCSetups ==
    LET base == [startBlock |-> 1, badProofAt |-> 0, proofSeed |-> "seed", dataset |-> <<>>,
                 laneIds |-> 4, maxFaults |-> 2, maxRestarts |-> 0]
        beside == [base EXCEPT !.startBlock = 2, !.maxFaults = 1, !.maxRestarts = 1]
    IN  {base,
         [base EXCEPT !.badProofAt = 1, !.proofSeed = "other", !.dataset = 1 :> <<"flipped", <<"seed", 1>>>>],
         beside,
         [beside EXCEPT !.laneIds = 1]}

-----------------------------------------------------------------------------
(* The frames: with bytes of two values a uint32 goes up to 15.             *)

MCTxs == [sender : {0, 1, 15}, receiver : {2, 15}, amount : {0, 7}]

MCFrames == { [flags |-> f, blockIndex |-> b, laneId |-> l, payload |-> txs] :
                f \in {0, 3}, b \in {0, 6, 15}, l \in {0, 1, 2, 3},
                txs \in {<<>>} \cup {<<tx>> : tx \in MCTxs} \cup {<<tx, MCTx(1, 1)>> : tx \in MCTxs} }

\* What a daemon decodes is what the other has encoded; a frame that was cut or
\* has grown is refused.
ASSUME FramesRoundTrip ==
    \A bf \in MCFrames :
        LET bytes == MarshalBinary(bf) IN
        /\ UnmarshalBinary(bytes) = bf
        /\ DecodeTxSlice(EncodeTxSlice(bf.payload)) = bf.payload
        /\ \A n \in 0..(Len(bytes) - 1) : UnmarshalBinary(SubSeq(bytes, 1, n)) = FrameError
        /\ UnmarshalBinary(Append(bytes, 0)) = FrameError
=============================================================================
