------------------------------ MODULE MCBench ------------------------------
(* A small instance of Bench: a short and a long configuration of one seed,    *)
(* one of another, and one whose warm-up has a duration and no rate.           *)
EXTENDS Bench

Short == [blockTimeMillis |-> 1000, lanes |-> 2, maxLanes |-> 4, queueCapacity |-> 2,
          warmup |-> [tps |-> 1, seconds |-> 1], certification |-> [tps |-> 2, seconds |-> 1],
          proofSeed |-> "seed", proofDatasetPath |-> TRUE, badProofAt |-> 0]

Long  == [Short EXCEPT !.certification.seconds = 2, !.badProofAt = 2]
Other == [Short EXCEPT !.proofSeed = "other"]
Cold  == [Short EXCEPT !.warmup.tps = 0, !.proofDatasetPath = FALSE]

MCConfigs == {Short, Long, Other, Cold}
=============================================================================
