------------------------------ MODULE Bundles ------------------------------
(***************************************************************************)
(* Certification bundles: the JSON files that export_sumproof_bundle (Rust)*)
(* makes and kaia-proofctl loads, merges and submits.                      *)
(*                                                                         *)
(* A setup is what the exporter derives from its seed and batch size: the  *)
(* keys, and with the commitment key the two commitments of the demo batch.*)
(***************************************************************************)
EXTENDS LaneHeads, Functions

\* export_sumproof_bundle: one proof for every lane, each from the same demo
\* state to the same demo state.
ExportBundle(setup, batchSize, laneCount, batchIdBase) ==
    [key       |-> setup.key,
     laneHeads |-> [k \in 1..laneCount |-> [laneId |-> k - 1, initialHead |-> setup.prev]],
     artifacts |-> [k \in 1..laneCount |-> Prove(setup.key, k - 1, batchIdBase + k - 1, batchSize,
                                                 setup.prev, setup.next)],
     verifiedTxTotal |-> batchSize * laneCount]

\* The progress events that the exporter writes while it runs.
ExportEvents(batchSize, laneCount) ==
    <<[event |-> "setup_started"], [event |-> "setup_completed"]>>
    \o [k \in 1..(2 * laneCount) |->
          IF k % 2 = 1
          THEN [event |-> "proof_started", total |-> laneCount]
          ELSE [event |-> "proof_completed", current |-> k \div 2, total |-> laneCount,
                generatedTxTotal |-> batchSize * (k \div 2)]]
    \o <<[event |-> "bundle_completed", verifiedTxTotal |-> batchSize * laneCount]>>

-----------------------------------------------------------------------------
(* mergeBundles: the first live lanes of one bundle, the others of another. *)

MergeOK(live, replay, liveLaneCount, totalLaneCount) ==
    /\ Len(live.artifacts) >= liveLaneCount   /\ Len(live.laneHeads) >= liveLaneCount
    /\ Len(replay.artifacts) >= totalLaneCount /\ Len(replay.laneHeads) >= totalLaneCount

SumTxCount(artifacts) ==
    SumFunctionOnSet([k \in DOMAIN artifacts |-> artifacts[k].txCount], DOMAIN artifacts)

\* Mutant: the replayed part starts at the first lane again.
MergeBundlesFromStart(live, replay, liveLaneCount, totalLaneCount) ==
    LET part(s, t) == SubSeq(s, 1, liveLaneCount) \o SubSeq(t, 1, totalLaneCount - liveLaneCount)
    IN  [key |-> live.key,
         laneHeads |-> part(live.laneHeads, replay.laneHeads),
         artifacts |-> part(live.artifacts, replay.artifacts),
         verifiedTxTotal |-> SumTxCount(part(live.artifacts, replay.artifacts))]

\* Mutant: the total is still that of the live bundle.
MergeBundlesLiveTotal(live, replay, liveLaneCount, totalLaneCount) ==
    LET part(s, t) == SubSeq(s, 1, liveLaneCount) \o SubSeq(t, liveLaneCount + 1, totalLaneCount)
    IN  [key |-> live.key,
         laneHeads |-> part(live.laneHeads, replay.laneHeads),
         artifacts |-> part(live.artifacts, replay.artifacts),
         verifiedTxTotal |-> live.verifiedTxTotal]

MergeBundles(live, replay, liveLaneCount, totalLaneCount) ==
    LET part(s, t) == SubSeq(s, 1, liveLaneCount) \o SubSeq(t, liveLaneCount + 1, totalLaneCount)
        artifacts  == part(live.artifacts, replay.artifacts)
    IN  [key       |-> live.key,
         laneHeads |-> part(live.laneHeads, replay.laneHeads),
         artifacts |-> artifacts,
         verifiedTxTotal |-> SumTxCount(artifacts)]
=============================================================================
