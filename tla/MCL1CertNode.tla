---------------------------- MODULE MCL1CertNode ----------------------------
(* A small instance of L1CertNode: two blocks, three payloads and every     *)
(* combination of payload, commitment, transaction count and proof bytes    *)
(* that the handler of cmd/l1-cert-node can pass on.                        *)
EXTENDS L1CertNode

MCBlocks == {0, 1}

\* A transfer, a self transfer with a second transfer, and a zero amount.
MCPayloads == { << [sender |-> 1, receiver |-> 2, amount |-> 2] >>,
                << [sender |-> 2, receiver |-> 2, amount |-> 1],
                   [sender |-> 2, receiver |-> 1, amount |-> 1] >>,
                << [sender |-> 1, receiver |-> 2, amount |-> 0] >> }

MCRequest(b, txs, committed, extra, bytes) ==
    LET c == CommitmentFromTxs(b, committed)
    IN  [phase |-> IF b = 0 THEN "warmup" ELSE "certification", block |-> b,
         commitment |-> c, proof |-> BuildProofRecord(b, c, bytes),
         txCount |-> Len(txs) + extra, txs |-> txs]

MCRequests == { MCRequest(b, txs, committed, extra, GenerateProofBytes(seed, pb)) :
                  b \in MCBlocks, txs \in MCPayloads, committed \in MCPayloads,
                  extra \in {0, 1}, seed \in {ProofSeed, "other"}, pb \in MCBlocks }
=============================================================================
