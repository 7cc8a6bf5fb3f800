----------------------------- MODULE MCPipeline -----------------------------
(* Small instances of Pipeline.                                               *)
EXTENDS Pipeline

\* Blocks of a second: a warm-up block of one transaction, two certification
\* blocks of three, two lanes, rings of two.
Base == [blockTimeMillis |-> 1000, lanes |-> 2, maxLanes |-> 4, queueCapacity |-> 2,
         warmup |-> [tps |-> 1, seconds |-> 1], certification |-> [tps |-> 3, seconds |-> 2],
         proofSeed |-> ProofSeed, proofDatasetPath |-> TRUE, badProofAt |-> 0]

Setup(c, dataset, cancel) == [cfg |-> c, dataset |-> dataset, cancel |-> cancel]

\* A data set whose first block has the proof of another seed; one that was cut off.
Foreign == File(<<[block |-> 0, proof |-> GenerateProofBytes("other", 0)]>>)
CutOff  == File(<<Torn>>)

Rate(tps, seconds) == [tps |-> tps, seconds |-> seconds]

MCSetups ==
    { Setup([Base EXCEPT !.certification.seconds = 3], NoFile, TRUE),
      Setup([Base EXCEPT !.queueCapacity = 8], NoFile, FALSE),
      \* The proofs of the warm-up block and of a certification block are spoilt.
      Setup([Base EXCEPT !.badProofAt = 2], Foreign, TRUE),
      \* Five transactions a second in blocks of 0.3 s: three blocks of one.
      Setup([Base EXCEPT !.blockTimeMillis = 300, !.warmup.seconds = 0,
                         !.certification = Rate(5, 1)], NoFile, FALSE),
      \* No block fits into the second; no transaction fits into a block.
      Setup([Base EXCEPT !.blockTimeMillis = 1500, !.certification.seconds = 1], NoFile, TRUE),
      Setup([Base EXCEPT !.blockTimeMillis = 500, !.warmup.tps = 0,
                         !.certification = Rate(1, 1)], NoFile, TRUE),
      \* More lanes than lane ids.
      Setup([Base EXCEPT !.lanes = 3, !.warmup.tps = 0], NoFile, TRUE),
      \* Refused by Validate; refused by NewRunner.
      Setup([Base EXCEPT !.queueCapacity = 3], NoFile, TRUE),
      Setup(Base, CutOff, TRUE) }

RoomySetup   == { Setup([Base EXCEPT !.queueCapacity = 8], NoFile, FALSE) }

-----------------------------------------------------------------------------
(* The numbers, over more configurations than a run can take. *)

\* Every such pair with a rate up to 100 and a block time up to 1500 ms.
MCFloatBelow == {<<100, 290>>, <<100, 570>>, <<50, 580>>, <<100, 580>>, <<90, 700>>, <<100, 1130>>,
                 <<100, 1150>>, <<25, 1160>>, <<50, 1160>>, <<100, 1160>>, <<75, 1360>>,
                 <<45, 1400>>, <<85, 1400>>, <<90, 1400>>}

Configured(ms, tps, seconds) ==
    [Base EXCEPT !.blockTimeMillis = ms, !.certification = Rate(tps, seconds)]

\* What a run verifies when nothing is lost reaches the goal of the report exactly
\* when the configuration is Exact.
ASSUME GoalReachableIffExact ==
    \A ms \in {1, 7, 290, 300, 400, 500, 580, 700, 1000, 1160, 1400, 2500},
       tps \in {1, 3, 5, 10, 25, 45, 50, 90, 100}, seconds \in {1, 2, 7, 29} :
        LET c == Configured(ms, tps, seconds) IN
        BlocksForPhase(c, c.certification) * TxPerBlock(c, tps) >= tps * seconds <=> Exact(c)

\* The configurations under configs/ (dev-air, its smoke test and cert-ultra) can be passed.
ASSUME ShippedConfigsExact == /\ Exact(Configured(1000, 60000, 300))
                              /\ Exact(Configured(200, 5000, 3))
                              /\ Exact(Configured(1000, 200000, 300))
=============================================================================
