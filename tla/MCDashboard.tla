---------------------------- MODULE MCDashboard ----------------------------
(* Small instances of Dashboard: two setups, bundles of two lanes and up to   *)
(* three calls.                                                               *)
EXTENDS Dashboard

CONSTANTS d1, d2, e1, e2, c1, c2, s1, s2

Setup(key) == IF key = "vk" THEN [key |-> key, prev |-> d1, next |-> d2]
                            ELSE [key |-> key, prev |-> e1, next |-> e2]

NoBundle == [key |-> "vk", laneHeads |-> <<>>, artifacts |-> <<>>, verifiedTxTotal |-> 0]

Stored == ExportBundle(Setup("vk"), BATCH_TX_COUNT, 2, 1)

\* A bundle that was merged of two others in an earlier run.
Halves(f, g) == [f EXCEPT !.laneHeads = <<@[1], g.laneHeads[2]>>, !.artifacts = <<@[1], g.artifacts[2]>>]

MCOptions ==
    LET base == [skipGenerate |-> FALSE, laneCount |-> 2, liveLaneCount |-> 0, batchSize |-> BATCH_TX_COUNT,
                 batchIdBase |-> 1, setup |-> Setup("vk"), replay |-> NoBundle, stored |-> NoBundle,
                 keys |-> <<s1>>, addresses |-> <<c1, c2>>, gasLimit |-> FALSE]
        fitting == ExportBundle(Setup("vk"), BATCH_TX_COUNT, 2, 1)
        foreign == ExportBundle(Setup("other"), BATCH_TX_COUNT, 2, 5)    \* another seed
        replays == {fitting, foreign,
                    ExportBundle(Setup("other"), BATCH_TX_COUNT + 1, 2, 1),  \* another batch size
                    ExportBundle(Setup("vk"), BATCH_TX_COUNT, 1, 1),         \* too few lanes
                    Halves(foreign, fitting),   \* merged: what is taken of it fits,
                    Halves(fitting, foreign)}   \* or only the rest and its key
        merging == {[base EXCEPT !.liveLaneCount = 1, !.replay = r] : r \in replays}
    IN  {base, [base EXCEPT !.setup = Setup("other")], [base EXCEPT !.keys = <<>>],
         [base EXCEPT !.setup = Setup("other"), !.gasLimit = TRUE],
         [base EXCEPT !.batchSize = 0, !.setup = Setup("other")], [base EXCEPT !.laneCount = -1, !.batchSize = -1],
         [base EXCEPT !.liveLaneCount = 1, !.replay = fitting, !.batchSize = -1]}
        \cup merging
        \cup {[base EXCEPT !.skipGenerate = TRUE, !.stored = f, !.keys = p[1], !.addresses = p[2]] :
                f \in {Stored, NoBundle},
                p \in {<< <<s1>>, <<c1, c2, c1>> >>,      \* an address given twice
                       << <<s1, s2>>, <<c1, c2>> >>,
                       << <<s1, s2>>, <<c1>> >>}}          \* not a layout of keys and addresses

MCHeads == [l \in LaneIds |-> d1]
=============================================================================
