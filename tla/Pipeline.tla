------------------------------ MODULE Pipeline ------------------------------
(***************************************************************************)
(* internal/pipeline/runner.go: one certification run.  The main goroutine *)
(* (ingress) cuts blocks, the sequencer splits each into lanes, the        *)
(* aggregator joins the lanes into a commit, the proof replayer attaches a *)
(* proof and submits it to the L1 node; main then builds the report.       *)
(*                                                                         *)
(*    ingress --ingressQ--> sequencer --laneQ--> aggregator                *)
(*            --commitQ--> replayer --> L1CertNode                         *)
(*                                                                         *)
(* Each queue has one producer and one consumer, and RingQueue shows       *)
(* (ExactlyAQueue) that a ring used that way is an atomic bounded queue,   *)
(* so a call to Enqueue or Dequeue is one step here.  A goroutine's look   *)
(* at its context, its call to Dequeue and its load of the upstream done   *)
(* flag are separate steps, as they are in the code.  Sleeps do not order  *)
(* anything and are left out, and so are the gauges that only /metrics     *)
(* shows; of the drop counter only whether it is zero is kept.             *)
(***************************************************************************)
EXTENDS Workload, FiniteSets

CONSTANTS Setups,       \* what a run may be started with: [cfg, dataset, cancel], the last
                        \* for whether its context may be cancelled
          ProofSeed,    \* the seed of the configurations
          LaneIds       \* lane ids wrap here; 65536 in the code

ASSUME SetupAssumption == /\ \A s \in Setups : ConfigTyped(s.cfg) /\ s.cfg.proofSeed = ProofSeed
                          /\ LaneIds \in Nat \ {0}

VARIABLES runner,                      \* [cfg, proofBook]
          cancellable,                 \* the context may be cancelled
          ctxDone,                     \* the context has been cancelled
          ingressQ, laneQ, commitQ,    \* the three rings
          ingress,                     \* main: [pc, phase, left, next]
          sequencer,                   \* [pc, job, lane]
          aggregator,                  \* [pc, commit]
          states,                      \* the aggregator's map of unfinished blocks
          replayer,                    \* [pc, commit]
          ingressDone, sequencerDone, aggregatorDone,
          dropped,                     \* DropCount() # 0
          report                       \* the report, once it is built
VARIABLES blocks, blockLog, state, stateVersion, verifiedTx, answer  \* the L1 node

L1 == INSTANCE L1CertNode WITH
    Accounts   <- UNION {{tx.sender, tx.receiver} :
                    tx \in UNION {UNION {Range(TxsOf(s.cfg, b)) : b \in 0..(TotalBlocks(s.cfg) - 1)} :
                                  s \in Setups}},
    Requests   <- {},
    MaxSubmits <- 0

cfg == runner.cfg

l1vars     == <<blocks, blockLog, state, stateVersion, verifiedTx, answer>>
flags      == <<ingressDone, sequencerDone, aggregatorDone>>
queues     == <<ingressQ, laneQ, commitQ>>
goroutines == <<ingress, sequencer, aggregator, states, replayer>>
vars       == <<runner, cancellable, ctxDone, queues, goroutines, flags, dropped, report, l1vars>>

NoReport == [pass |-> FALSE, built |-> FALSE]

Init == /\ \E s \in Setups : /\ Validate(s.cfg) /\ NewRunnerOK(s.cfg, s.dataset)
                              /\ runner = NewRunner(s.cfg, s.dataset)
                              /\ cancellable = s.cancel
        /\ ctxDone = FALSE
        /\ ingressQ = <<>> /\ laneQ = <<>> /\ commitQ = <<>>
        /\ ingress = [pc |-> "check", phase |-> "warmup",
                      left |-> PhaseBlocks(cfg, cfg.warmup), next |-> 0]
        /\ sequencer = [pc |-> "check", job |-> <<>>, lane |-> 0]
        /\ aggregator = [pc |-> "check", commit |-> <<>>]
        /\ states = <<>>
        /\ replayer = [pc |-> "check", commit |-> <<>>]
        /\ ingressDone = FALSE /\ sequencerDone = FALSE /\ aggregatorDone = FALSE
        /\ dropped = FALSE
        /\ report = NoReport
        /\ L1!Init

Full(q) == Len(q) = cfg.queueCapacity

Cancel == /\ cancellable /\ ~ctxDone
          /\ ctxDone' = TRUE
          /\ UNCHANGED <<runner, cancellable, queues, goroutines, flags, dropped, report, l1vars>>

-----------------------------------------------------------------------------
(* Main: Run and runIngressPhase. *)

IngressFrame == /\ UNCHANGED <<runner, cancellable, ctxDone, laneQ, commitQ, sequencer, aggregator, states, replayer>>
                /\ UNCHANGED <<sequencerDone, aggregatorDone, l1vars>>

\* runIngressPhase returns and Run goes on to the next phase.
PhaseReturns ==
    \/ /\ ingress.phase = "warmup"
       /\ ingress' = [ingress EXCEPT !.pc = "check", !.phase = "certification",
                                     !.left = PhaseBlocks(cfg, cfg.certification)]
    \/ /\ ingress.phase = "certification"
       /\ ingress' = [ingress EXCEPT !.pc = "store"]

IngressCheck ==
    /\ ingress.pc = "check"
    /\ \/ (ingress.left = 0 \/ ctxDone) /\ PhaseReturns
       \/ ingress.left # 0 /\ ~ctxDone /\ ingress' = [ingress EXCEPT !.pc = "enqueue"]
    /\ IngressFrame /\ UNCHANGED <<ingressQ, ingressDone, dropped, report>>

IngressEnqueue ==
    /\ ingress.pc = "enqueue"
    /\ \/ /\ ~Full(ingressQ)
          /\ ingressQ' = Append(ingressQ, [phase |-> ingress.phase, block |-> ingress.next,
                                           txs |-> TxsOf(cfg, ingress.next)])
          /\ ingress' = [ingress EXCEPT !.pc = "check", !.left = @ - 1, !.next = @ + 1]
       \/ /\ Full(ingressQ)
          /\ ingress' = [ingress EXCEPT !.pc = "retry"]
          /\ UNCHANGED ingressQ
    /\ IngressFrame /\ UNCHANGED <<ingressDone, dropped, report>>

\* Mutant: a block that finds the queue full is dropped.
IngressRetryDropsBlock ==
    /\ ingress.pc = "retry"
    /\ \/ ctxDone /\ PhaseReturns /\ UNCHANGED dropped
       \/ /\ ~ctxDone
          /\ ingress' = [ingress EXCEPT !.pc = "check", !.left = @ - 1, !.next = @ + 1]
          /\ dropped' = TRUE
    /\ IngressFrame /\ UNCHANGED <<ingressQ, ingressDone, report>>

IngressRetry ==
    /\ ingress.pc = "retry"
    /\ \/ ctxDone /\ PhaseReturns /\ UNCHANGED dropped
       \/ ~ctxDone /\ ingress' = [ingress EXCEPT !.pc = "enqueue"] /\ dropped' = TRUE
    /\ IngressFrame /\ UNCHANGED <<ingressQ, ingressDone, report>>

IngressStore ==
    /\ ingress.pc = "store"
    /\ ingressDone' = TRUE
    /\ ingress' = [ingress EXCEPT !.pc = "wait"]
    /\ IngressFrame /\ UNCHANGED <<ingressQ, dropped, report>>

\* buildReport: what the log says about the certification phase.
CertificationLog == {i \in DOMAIN blockLog : blockLog[i].phase = "certification"}
VerifiedLog      == {i \in CertificationLog : LET e == blockLog[i] IN
                                              e.finalized /\ e.proofVerified /\ ~e.duplicate}
CertVerifiedTx   == SumFunctionOnSet([i \in DOMAIN blockLog |-> blockLog[i].txCount], VerifiedLog)
ProofFailures    == {i \in CertificationLog : ~blockLog[i].proofVerified}
ExpectedCertTx   == BlocksForPhase(cfg, cfg.certification) * TxPerBlock(cfg, cfg.certification.tps)

\* Mutant: the verified volume is compared with what the blocks can hold, and not
\* with the configured rate.
PassOnExpected == CertVerifiedTx >= ExpectedCertTx /\ ~dropped /\ ProofFailures = {}

Pass == /\ CertVerifiedTx >= cfg.certification.tps * cfg.certification.seconds
        /\ CertVerifiedTx >= ExpectedCertTx
        /\ ~dropped
        /\ ProofFailures = {}

\* wg.Wait, then buildReport.
BuildReport ==
    /\ ingress.pc = "wait"
    /\ sequencer.pc = "exited" /\ aggregator.pc = "exited" /\ replayer.pc = "exited"
    /\ report' = [pass |-> Pass, built |-> TRUE]
    /\ ingress' = [ingress EXCEPT !.pc = "returned"]
    /\ IngressFrame /\ UNCHANGED <<ingressQ, ingressDone, dropped>>

-----------------------------------------------------------------------------
(* runSequencer *)

SequencerFrame == /\ UNCHANGED <<runner, cancellable, ctxDone, commitQ, ingress, aggregator, states, replayer>>
                  /\ UNCHANGED <<ingressDone, aggregatorDone, report, l1vars>>

SequencerCheck ==
    /\ sequencer.pc = "check"
    /\ sequencer' = [sequencer EXCEPT !.pc = IF ctxDone THEN "exit" ELSE "dequeue"]
    /\ SequencerFrame /\ UNCHANGED <<ingressQ, laneQ, sequencerDone, dropped>>

SequencerDequeue ==
    /\ sequencer.pc = "dequeue"
    /\ \/ /\ ingressQ # <<>>
          /\ ingressQ' = Tail(ingressQ)
          /\ sequencer' = [pc |-> "enqueue", job |-> Head(ingressQ), lane |-> 0]
       \/ /\ ingressQ = <<>>
          /\ sequencer' = [sequencer EXCEPT !.pc = "loadDone"]
          /\ UNCHANGED ingressQ
    /\ SequencerFrame /\ UNCHANGED <<laneQ, sequencerDone, dropped>>

SequencerLoadDone ==
    /\ sequencer.pc = "loadDone"
    /\ sequencer' = [sequencer EXCEPT !.pc = IF ingressDone THEN "exit" ELSE "check"]
    /\ SequencerFrame /\ UNCHANGED <<ingressQ, laneQ, sequencerDone, dropped>>

\* Mutant: a last, incomplete row of transactions is cut off.
LaneOfDropsTail(txs, lane) ==
    [k \in 1..(Len(txs) \div cfg.lanes) |-> txs[(k - 1) * cfg.lanes + lane + 1]]

\* Transaction i (from 0) goes to lane i % lanes.
LaneOf(txs, lane) == LET own == {i \in 0..(Len(txs) - 1) : i % cfg.lanes = lane}
                     IN  [k \in 1..Cardinality(own) |-> txs[(k - 1) * cfg.lanes + lane + 1]]

SequencerEnqueue ==
    /\ sequencer.pc = "enqueue"
    /\ \/ /\ ~Full(laneQ)
          /\ laneQ' = Append(laneQ, [phase |-> sequencer.job.phase,
                                     block |-> sequencer.job.block, lane |-> sequencer.lane % LaneIds,
                                     payload |-> LaneOf(sequencer.job.txs, sequencer.lane)])
          /\ sequencer' = IF sequencer.lane + 1 < cfg.lanes
                          THEN [sequencer EXCEPT !.lane = @ + 1]
                          ELSE [pc |-> "check", job |-> <<>>, lane |-> 0]
       \/ /\ Full(laneQ)
          /\ sequencer' = [sequencer EXCEPT !.pc = "retry"]
          /\ UNCHANGED laneQ
    /\ SequencerFrame /\ UNCHANGED <<ingressQ, sequencerDone, dropped>>

\* Mutant: the rest of the block is dropped when the lane queue is full.
SequencerRetryGivesUp ==
    /\ sequencer.pc = "retry"
    /\ sequencer' = IF ctxDone THEN [sequencer EXCEPT !.pc = "exit"]
                               ELSE [pc |-> "check", job |-> <<>>, lane |-> 0]
    /\ dropped' = (dropped \/ ~ctxDone)
    /\ SequencerFrame /\ UNCHANGED <<ingressQ, laneQ, sequencerDone>>

SequencerRetry ==
    /\ sequencer.pc = "retry"
    /\ sequencer' = [sequencer EXCEPT !.pc = IF ctxDone THEN "exit" ELSE "enqueue"]
    /\ dropped' = (dropped \/ ~ctxDone)
    /\ SequencerFrame /\ UNCHANGED <<ingressQ, laneQ, sequencerDone>>

\* The deferred sequencerDone.Store(true), then wg.Done.
SequencerExit ==
    /\ sequencer.pc = "exit"
    /\ sequencerDone' = TRUE
    /\ sequencer' = [pc |-> "exited", job |-> <<>>, lane |-> 0]
    /\ SequencerFrame /\ UNCHANGED <<ingressQ, laneQ, dropped>>

-----------------------------------------------------------------------------
(* runAggregator *)

AggregatorFrame == /\ UNCHANGED <<runner, cancellable, ctxDone, ingressQ, ingress, sequencer, replayer>>
                   /\ UNCHANGED <<ingressDone, sequencerDone, report, l1vars>>

AggregatorCheck ==
    /\ aggregator.pc = "check"
    /\ aggregator' = [aggregator EXCEPT !.pc = IF ctxDone THEN "exit" ELSE "dequeue"]
    /\ AggregatorFrame /\ UNCHANGED <<laneQ, commitQ, states, aggregatorDone, dropped>>

NewState(batch) == [phase |-> batch.phase, lanes |-> {}, txs |-> <<>>]

isPayloadValid(tx) == tx.amount > 0

\* The transactions of a payload that are not dropped.
ValidTxs(payload) ==
    LET kept[i \in 0..Len(payload)] ==
            IF i = 0 THEN <<>>
            ELSE IF isPayloadValid(payload[i]) THEN Append(kept[i - 1], payload[i]) ELSE kept[i - 1]
    IN  kept[Len(payload)]

\* The aggregateState after one more lane batch: its hash is recorded by lane,
\* its valid transactions are appended.
AddLane(st, batch) == [st EXCEPT !.lanes = @ \cup {batch.lane}, !.txs = @ \o ValidTxs(batch.payload)]

AggregatorDequeue ==
    /\ aggregator.pc = "dequeue" /\ laneQ # <<>>
    /\ laneQ' = Tail(laneQ)
    /\ LET batch == Head(laneQ)
           b     == batch.block
           st    == AddLane(IF b \in DOMAIN states THEN states[b] ELSE NewState(batch), batch)
       IN  /\ states' = [x \in DOMAIN states \cup {b} |-> IF x = b THEN st ELSE states[x]]
           /\ dropped' = (dropped \/ \E i \in DOMAIN batch.payload : ~isPayloadValid(batch.payload[i]))
           /\ aggregator' = IF Cardinality(st.lanes) = cfg.lanes
                            THEN [pc |-> "enqueue",
                                  commit |-> [phase |-> st.phase, block |-> b,
                                              commitment |-> L1!CommitmentFromTxs(b, st.txs),
                                              txCount |-> Len(st.txs), txs |-> st.txs]]
                            ELSE [aggregator EXCEPT !.pc = "check"]
    /\ AggregatorFrame /\ UNCHANGED <<commitQ, aggregatorDone>>

AggregatorEmpty ==
    /\ aggregator.pc = "dequeue" /\ laneQ = <<>>
    /\ aggregator' = [aggregator EXCEPT !.pc = "loadDone"]
    /\ AggregatorFrame /\ UNCHANGED <<laneQ, commitQ, states, aggregatorDone, dropped>>

AggregatorLoadDone ==
    /\ aggregator.pc = "loadDone"
    /\ aggregator' = [aggregator EXCEPT
                        !.pc = IF sequencerDone /\ DOMAIN states = {} THEN "exit" ELSE "check"]
    /\ AggregatorFrame /\ UNCHANGED <<laneQ, commitQ, states, aggregatorDone, dropped>>

\* Mutant: a finished block stays in the map.
AggregatorEnqueueKeepsState ==
    /\ aggregator.pc = "enqueue"
    /\ \/ /\ ~Full(commitQ)
          /\ commitQ' = Append(commitQ, aggregator.commit)
          /\ aggregator' = [pc |-> "check", commit |-> <<>>]
       \/ /\ Full(commitQ)
          /\ aggregator' = [aggregator EXCEPT !.pc = "retry"]
          /\ UNCHANGED commitQ
    /\ AggregatorFrame /\ UNCHANGED <<laneQ, states, aggregatorDone, dropped>>

AggregatorEnqueue ==
    /\ aggregator.pc = "enqueue"
    /\ \/ /\ ~Full(commitQ)
          /\ commitQ' = Append(commitQ, aggregator.commit)
          /\ states' = [b \in DOMAIN states \ {aggregator.commit.block} |-> states[b]]
          /\ aggregator' = [pc |-> "check", commit |-> <<>>]
       \/ /\ Full(commitQ)
          /\ aggregator' = [aggregator EXCEPT !.pc = "retry"]
          /\ UNCHANGED <<commitQ, states>>
    /\ AggregatorFrame /\ UNCHANGED <<laneQ, aggregatorDone, dropped>>

AggregatorRetry ==
    /\ aggregator.pc = "retry"
    /\ aggregator' = [aggregator EXCEPT !.pc = IF ctxDone THEN "exit" ELSE "enqueue"]
    /\ dropped' = (dropped \/ ~ctxDone)
    /\ AggregatorFrame /\ UNCHANGED <<laneQ, commitQ, states, aggregatorDone>>

AggregatorExit ==
    /\ aggregator.pc = "exit"
    /\ aggregatorDone' = TRUE
    /\ aggregator' = [pc |-> "exited", commit |-> <<>>]
    /\ states' = <<>>
    /\ AggregatorFrame /\ UNCHANGED <<laneQ, commitQ, dropped>>

-----------------------------------------------------------------------------
(* runProofReplayer *)

ReplayerFrame == /\ UNCHANGED <<runner, cancellable, ctxDone, ingressQ, laneQ, ingress, sequencer, aggregator, states>>
                 /\ UNCHANGED <<flags, dropped, report>>

ReplayerCheck ==
    /\ replayer.pc = "check"
    /\ replayer' = [replayer EXCEPT !.pc = IF ctxDone THEN "exited" ELSE "dequeue"]
    /\ ReplayerFrame /\ UNCHANGED <<commitQ, l1vars>>

ReplayerDequeue ==
    /\ replayer.pc = "dequeue"
    /\ \/ /\ commitQ # <<>>
          /\ commitQ' = Tail(commitQ)
          /\ replayer' = [pc |-> "submit", commit |-> Head(commitQ)]
       \/ /\ commitQ = <<>>
          /\ replayer' = [replayer EXCEPT !.pc = "loadDone"]
          /\ UNCHANGED commitQ
    /\ ReplayerFrame /\ UNCHANGED l1vars

ReplayerLoadDone ==
    /\ replayer.pc = "loadDone"
    /\ replayer' = [replayer EXCEPT !.pc = IF aggregatorDone THEN "exited" ELSE "check"]
    /\ ReplayerFrame /\ UNCHANGED <<commitQ, l1vars>>

ReplayerSubmit ==
    /\ replayer.pc = "submit"
    /\ LET c == replayer.commit IN
       L1!SubmitCertifiedBlock(
           [phase |-> c.phase, block |-> c.block, commitment |-> c.commitment,
            proof |-> BuildProofRecord(c.block, c.commitment, ReplayedProof(runner, c.block)),
            txCount |-> c.txCount, txs |-> c.txs])
    /\ replayer' = [pc |-> "check", commit |-> <<>>]
    /\ ReplayerFrame /\ UNCHANGED commitQ

-----------------------------------------------------------------------------
Main       == IngressCheck \/ IngressEnqueue \/ IngressRetry \/ IngressStore \/ BuildReport
Sequencer  == \/ SequencerCheck \/ SequencerDequeue \/ SequencerLoadDone
              \/ SequencerEnqueue \/ SequencerRetry \/ SequencerExit
Aggregator == \/ AggregatorCheck \/ AggregatorDequeue \/ AggregatorEmpty \/ AggregatorLoadDone
              \/ AggregatorEnqueue \/ AggregatorRetry \/ AggregatorExit
Replayer   == ReplayerCheck \/ ReplayerDequeue \/ ReplayerLoadDone \/ ReplayerSubmit

Returned == ingress.pc = "returned" /\ UNCHANGED vars

Next == Cancel \/ Main \/ Sequencer \/ Aggregator \/ Replayer \/ Returned

Spec == Init /\ [][Next]_vars

\* The Go scheduler runs every goroutine; nothing makes the context end.
FairSpec == Spec /\ WF_vars(Main) /\ WF_vars(Sequencer) /\ WF_vars(Aggregator) /\ WF_vars(Replayer)

-----------------------------------------------------------------------------
(* Properties *)

(***************************************************************************)
(* Three hops, retries, cancellation and an early exit of any goroutine    *)
(* may cut the run short, but never reorder, skip, repeat or change a      *)
(* block: the L1 log is blocks 0, 1, 2, ..., each with every transaction   *)
(* ingress put into it, each once, however its lanes were interleaved, and *)
(* a block is rejected only if its own proof is bad.                       *)
(***************************************************************************)
SubmittedWhole == \A i \in DOMAIN blockLog :
    LET e == blockLog[i] IN
    /\ e.block = i - 1
    /\ e.phase = PhaseOf(cfg, e.block)
    /\ e.txCount = Len(TxsOf(cfg, e.block))
    /\ Range(e.commitment[2]) = Range(TxsOf(cfg, e.block))
    /\ e.finalized = ~Spoilt(runner, e.block)

Stages(b) == <<\E i \in DOMAIN ingressQ : ingressQ[i].block = b,
               sequencer.job # <<>> /\ sequencer.job.block = b,
               aggregator.commit # <<>> /\ aggregator.commit.block = b,
               \E i \in DOMAIN commitQ : commitQ[i].block = b,
               replayer.commit # <<>> /\ replayer.commit.block = b,
               \E i \in DOMAIN blockLog : blockLog[i].block = b>>

LanesSplit(b) == \/ \E i \in DOMAIN laneQ : laneQ[i].block = b
                 \/ b \in DOMAIN states

(***************************************************************************)
(* As long as no goroutine has given up, every block ingress has enqueued  *)
(* is somewhere on its way or in the log.                                  *)
(***************************************************************************)
NothingLostWhileRunning ==
    (\A pc \in {sequencer.pc, aggregator.pc, replayer.pc} : pc \notin {"exit", "exited"})
        => \A b \in 0..(ingress.next - 1) :
              LanesSplit(b) \/ \E s \in DOMAIN Stages(b) : Stages(b)[s]

(***************************************************************************)
(* The report's verdict, exactly: a run passes if and only if no queue was *)
(* ever full, every certification block was accepted, and rate and         *)
(* duration come out of whole blocks of whole transactions.  A run that    *)
(* was cancelled, lost a block or met a bad proof after the warm-up never  *)
(* passes (TestRunnerFailsOnBadProof), and a configuration whose rate does *)
(* not come out exactly never does, whatever it verifies.                  *)
(***************************************************************************)
PassExactly == report.built =>
    (report.pass <=> /\ ~dropped
                     /\ CertificationBlocks(cfg) \subseteq DOMAIN blocks
                     /\ Exact(cfg))

Run == INSTANCE CertificationRun WITH
    submitted <- [i \in DOMAIN blockLog |->
                    [block |-> blockLog[i].block, txs |-> Range(blockLog[i].commitment[2]),
                     finalized |-> blockLog[i].finalized]],
    verdict   <- IF ~report.built THEN "running" ELSE IF report.pass THEN "passed" ELSE "failed"

(***************************************************************************)
(* The four goroutines implement the one-line promise of CertificationRun: *)
(* submissions follow the workload block by block and are never taken      *)
(* back, nothing is submitted after the verdict, and the verdict is not    *)
(* "passed" unless the whole certification phase was certified.            *)
(***************************************************************************)
ImplementsRun == Run!RunSpec

LanesFit == cfg.lanes <= LaneIds

(***************************************************************************)
(* The run ends with a report, cancelled or not, with whatever is lost:    *)
(* nobody waits for ever on a full queue or an unfinished block.  With     *)
(* more lanes than lane ids, which Validate does not exclude, no block is  *)
(* ever finished; such a run ends once it is cancelled.                    *)
(***************************************************************************)
RunReturns == LanesFit \/ ctxDone ~> (ingress.pc = "returned" /\ report.built)

(***************************************************************************)
(* TestRunnerPassesInHappyPath: a run without faults, cancellation or a    *)
(* full queue passes.                                                      *)
(***************************************************************************)
HappyPathPasses == report.built /\ ~ctxDone /\ ~dropped => report.pass
=============================================================================
