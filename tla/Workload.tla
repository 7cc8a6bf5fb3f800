------------------------------ MODULE Workload ------------------------------
(***************************************************************************)
(* What a run of runner.go sends: the blocks of its two phases, their      *)
(* synthetic transactions and their proofs.  A runner is [cfg, proofBook]. *)
(***************************************************************************)
EXTENDS Config, ProofBook, SequencesExt

\* GenerateSyntheticTxs: distinct senders and positive amounts.  The code spaces
\* blocks 1000000 apart and makes the receiver by XOR with a constant.
SyntheticTx(b, i) ==
    LET sender == b * 1000 + i
    IN  [sender |-> sender, receiver |-> sender + 500, amount |-> i]

GenerateSyntheticTxs(b, n) == [i \in 1..n |-> SyntheticTx(b, i)]

\* runIngressPhase: a phase without a rate has no blocks.
PhaseBlocks(c, p) == IF p.tps = 0 THEN 0 ELSE BlocksForPhase(c, p)

TotalBlocks(c) == PhaseBlocks(c, c.warmup) + PhaseBlocks(c, c.certification)

PhaseOf(c, b) == IF b < PhaseBlocks(c, c.warmup) THEN "warmup" ELSE "certification"

CertificationBlocks(c) == {b \in 0..(TotalBlocks(c) - 1) : PhaseOf(c, b) = "certification"}

TxsOf(c, b) == GenerateSyntheticTxs(b,
    TxPerBlock(c, IF PhaseOf(c, b) = "warmup" THEN c.warmup.tps ELSE c.certification.tps))

\* The proof book's bytes for a block, with one byte flipped by fault injection.
ReplayedProof(r, b) ==
    LET bytes == ProofForBlock(r.proofBook, b)
    IN  IF r.cfg.badProofAt # 0 /\ r.cfg.badProofAt = b THEN <<"flipped", bytes>> ELSE bytes

\* Blocks that the L1 node will reject.
Spoilt(r, b) == ReplayedProof(r, b) # GenerateProofBytes(r.cfg.proofSeed, b)

\* NewRunner: the book is loaded from a data set that is configured and exists;
\* NoFile if it does not.
NoFile == [exists |-> FALSE, lines |-> <<>>]
File(lines) == [exists |-> TRUE, lines |-> lines]

Loads(c, dataset) == c.proofDatasetPath /\ dataset.exists

NewRunnerOK(c, dataset) == Loads(c, dataset) => LoadJSONLOK(dataset.lines)

NewRunner(c, dataset) ==
    LET book == NewProofBook(c.proofSeed)
    IN  [cfg |-> c,
         proofBook |-> IF Loads(c, dataset) THEN LoadJSONL(book, dataset.lines) ELSE book]

-----------------------------------------------------------------------------
(* What a report can say *)

\* The configured rate and duration come out of whole blocks of whole transactions.
Exact(c) == /\ (c.certification.seconds * 1000) % c.blockTimeMillis = 0
            /\ (c.certification.tps * c.blockTimeMillis) % 1000 = 0
            /\ <<c.certification.tps, c.blockTimeMillis>> \notin FloatBelow
=============================================================================
