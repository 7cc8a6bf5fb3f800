----------------------------- MODULE Dashboard -----------------------------
(***************************************************************************)
(* cmd/kaia-proofctl/dashboard.go: the workflow goroutine that generates   *)
(* (or loads) a bundle and certifies it on the chain, the HTTP server's    *)
(* goroutine, and one goroutine per receipt, all writing or feeding the    *)
(* snapshot that the page shows.                                           *)
(*                                                                         *)
(* Every mutate of the snapshot is a step.  The log, the times and the     *)
(* rates are left out.  An RPC, the exporter or a file may fail; so does   *)
(* everything after the context is cancelled.                              *)
(***************************************************************************)
EXTENDS Bundles, FiniteSets

CONSTANTS Options,          \* dashboardOptions the dashboard may be started with
          DeployedKey,      \* the verifying key of the certifiers
          DeployedHeads,    \* their lane heads
          DefaultBatchSize, DefaultLaneCount,  \* of the exporter
          Uint64s,          \* how many values a uint64 has
          MaxTransactions   \* entries that the page keeps; 100 in the code

ASSUME MaxTransactionsAssumption == MaxTransactions \in Nat \ {0}
ASSUME DefaultsAssumption == DefaultBatchSize \in Nat /\ DefaultLaneCount \in Nat /\ Uint64s \in Nat

\* The exporter takes its default for an argument that is no usize.
parse_arg(n, default) == IF n \in Nat THEN n ELSE default

\* A finite sequence.
IsList(s) == s \in Seq({s[k] : k \in DOMAIN s})

\* The flags -batch-size and -lane-count are ints; counts in a bundle are uint64, and what
\* comes from JSON arrays or lists of flags is a sequence.
ASSUME OptionsAssumption == \A o \in Options :
    /\ o.laneCount \in Int /\ o.batchSize \in Int
    /\ IsList(o.keys) /\ IsList(o.addresses)
    /\ o.stored.verifiedTxTotal \in Nat
    /\ IsList(o.replay.artifacts) /\ \A k \in DOMAIN o.replay.artifacts : o.replay.artifacts[k].txCount \in Nat

\* A verifying key comes from one seed and batch size, and the heads of the certifiers from
\* a bundle of the same setup (initializeLaneHeads): proofs made with the deployed key have
\* its batch size and start from those heads, in whichever exported or merged bundle they are.
ASSUME SetupsAssumption ==
    /\ DeployedKey # NoKey
    /\ \A o \in Options :
         /\ o.setup.key = DeployedKey =>
              /\ parse_arg(o.batchSize, DefaultBatchSize) = BATCH_TX_COUNT /\ isSet(o.setup.prev)
              /\ \A k \in 1..o.laneCount : DeployedHeads[k - 1] = o.setup.prev
         /\ \A k \in DOMAIN o.replay.artifacts :
              LET a == o.replay.artifacts[k]
              IN  a.proof.key = DeployedKey =>
                    /\ a = Prove(DeployedKey, k - 1, a.batchId, BATCH_TX_COUNT, a.prev, a.next)
                    /\ isSet(a.prev) /\ (k <= o.laneCount => DeployedHeads[k - 1] = a.prev)

VARIABLES opts,      \* dashboardOptions
          snapshot,  \* dashboardState.snapshot
          server,    \* is the HTTP server up?
          wf,        \* the workflow: [pc, i, confirmedVerified, firstErr]
          file,      \* the bundle at BundlePath
          call,      \* the submitted transactions: state by job
          told,      \* the jobs whose goroutine has sent its result
          resultsCh, \* receipt results on their way to the workflow
          heads      \* chain: the lane heads of every certifier

vars == <<opts, snapshot, server, wf, file, call, told, resultsCh, heads>>

Init == /\ opts \in Options
        /\ snapshot = [phase |-> "starting", done |-> FALSE, error |-> "", setupDone |-> FALSE,
                       total |-> 0, generated |-> 0, replayLoaded |-> 0, verifiedTxTotal |-> 0,
                       bundlePath |-> FALSE, enabled |-> FALSE, totalCalls |-> 0, sentCalls |-> 0,
                       confirmedCalls |-> 0, failedCalls |-> 0, verifiedTxPerCall |-> 0,
                       verifiedTxConfirmed |-> 0, transactions |-> <<>>]
        /\ server = "up"
        /\ wf = [pc |-> "start", i |-> 1, confirmedVerified |-> 0, firstErr |-> FALSE]
        /\ file = opts.stored
        /\ call = [k \in DOMAIN opts.addresses |-> "none"]
        /\ told = {}
        /\ resultsCh = <<>>
        /\ heads = [a \in {opts.addresses[k] : k \in DOMAIN opts.addresses} |-> DeployedHeads]

-----------------------------------------------------------------------------
(* dashboardState *)

WithError(s, who) == [s EXCEPT !.error = who, !.phase = "failed", !.done = TRUE]

\* Mutant: the error that is shown is forgotten.
WithDoneClearsError(s) == [s EXCEPT !.done = TRUE, !.error = "", !.phase = "completed"]

WithDone(s) == [s EXCEPT !.done = TRUE, !.phase = IF s.error = "" THEN "completed" ELSE @]

WithExporterEvent(s, e) ==
    CASE e.event = "setup_started"   -> [s EXCEPT !.phase = "proof_setup"]
      [] e.event = "setup_completed" -> [s EXCEPT !.phase = "proof_generation", !.setupDone = TRUE]
      [] e.event = "proof_started"   -> [s EXCEPT !.phase = "proof_generation", !.total = e.total]
      [] e.event = "proof_completed" -> [s EXCEPT !.phase = "proof_generation", !.total = e.total,
                                           !.generated = e.current,
                                           !.verifiedTxTotal = e.generatedTxTotal]
      [] e.event = "bundle_completed" -> [s EXCEPT !.phase = "bundle_ready",
                                            !.verifiedTxTotal = e.verifiedTxTotal]

WithSubmission(s, totalCalls, perCall) ==
    [s EXCEPT !.phase = "l1_submitting", !.enabled = TRUE,
              !.totalCalls = totalCalls, !.verifiedTxPerCall = perCall]

WithTxSent(s, k) ==
    [s EXCEPT !.sentCalls = @ + 1, !.transactions = Append(@, [job |-> k, status |-> "sent"])]

\* Mutant: the list is cut at the wrong end.
LastTransactionsFirst(txs) == IF Len(txs) > MaxTransactions THEN SubSeq(txs, 1, MaxTransactions) ELSE txs

LastTransactions(txs) ==
    IF Len(txs) > MaxTransactions THEN SubSeq(txs, Len(txs) - MaxTransactions + 1, Len(txs)) ELSE txs

\* Mutant: the verified transactions are taken from the number of receipts.
WithReceiptCountsAll(s, k, ok, verified) ==
    LET counted == IF ok THEN [s EXCEPT !.confirmedCalls = @ + 1] ELSE [s EXCEPT !.failedCalls = @ + 1]
    IN  [counted EXCEPT !.verifiedTxConfirmed = @ + s.verifiedTxPerCall,
            !.transactions = LastTransactions(Append(@, [job |-> k, status |-> IF ok THEN "confirmed" ELSE "failed"]))]

WithReceipt(s, k, ok, verified) ==
    LET counted == IF ok THEN [s EXCEPT !.confirmedCalls = @ + 1, !.verifiedTxConfirmed = verified]
                         ELSE [s EXCEPT !.failedCalls = @ + 1]
        entry   == [job |-> k, status |-> IF ok THEN "confirmed" ELSE "failed"]
    IN  [counted EXCEPT !.transactions = LastTransactions(Append(@, entry))]

-----------------------------------------------------------------------------
(* The workflow *)

At(pc)    == wf.pc = pc
Goto(pc)  == wf' = [wf EXCEPT !.pc = pc]
Return    == Goto("error")      \* with an error, which setError will show

\* What the exporter proves: liveLaneCount, as generateBundleWithProgress corrects it, or
\* all lanes, and the size of its batches.
LiveLanes == IF opts.liveLaneCount \in 1..opts.laneCount THEN opts.liveLaneCount
             ELSE parse_arg(opts.laneCount, DefaultLaneCount)
BatchSize == parse_arg(opts.batchSize, DefaultBatchSize)

\* The conversion of an int.
uint64(n) == IF n >= 0 THEN n ELSE n + Uint64s

Generate == /\ At("start") /\ ~opts.skipGenerate
            /\ Goto("export")
            /\ UNCHANGED <<opts, snapshot, server, file, call, told, resultsCh, heads>>

SkipGenerate == /\ At("start") /\ opts.skipGenerate
                /\ snapshot' = [snapshot EXCEPT !.phase = "bundle_ready"]
                /\ Goto("load")
                /\ UNCHANGED <<opts, server, file, call, told, resultsCh, heads>>

\* loadBundle and toArtifacts, which refuses a bundle without artifacts.
LoadStored ==
    /\ At("load")
    /\ IF file.artifacts = <<>>
       THEN Return /\ UNCHANGED snapshot
       ELSE /\ snapshot' = [snapshot EXCEPT !.bundlePath = TRUE, !.total = Len(file.artifacts),
                              !.generated = Len(file.artifacts),
                              !.verifiedTxTotal = file.verifiedTxTotal]
            /\ Goto("ready")
    /\ UNCHANGED <<opts, server, file, call, told, resultsCh, heads>>

\* runExporterWithProgress: the events come one by one, then the process ends.
ExporterEvent ==
    LET events == ExportEvents(BatchSize, LiveLanes) IN
    /\ At("export") /\ wf.i <= Len(events)
    /\ wf.i = 1 \/ BatchSize # 0
    /\ snapshot' = WithExporterEvent(snapshot, events[wf.i])
    /\ wf' = [wf EXCEPT !.i = @ + 1]
    /\ UNCHANGED <<opts, server, file, call, told, resultsCh, heads>>

\* There is no setup for batches of size 0.
SetupFails == /\ At("export") /\ wf.i = 2 /\ BatchSize = 0
              /\ Return
              /\ UNCHANGED <<opts, snapshot, server, file, call, told, resultsCh, heads>>

ExporterEnds ==
    LET exported == ExportBundle(opts.setup, BatchSize, LiveLanes, opts.batchIdBase) IN
    /\ At("export") /\ wf.i > Len(ExportEvents(BatchSize, LiveLanes))
    /\ \/ /\ LiveLanes >= opts.laneCount
          /\ file' = exported
          /\ snapshot' = [snapshot EXCEPT !.bundlePath = TRUE]
          /\ wf' = [wf EXCEPT !.pc = "ready", !.i = 1]
       \/ /\ LiveLanes < opts.laneCount
          /\ MergeOK(exported, opts.replay, LiveLanes, opts.laneCount)
          /\ file' = MergeBundles(exported, opts.replay, LiveLanes, opts.laneCount)
          /\ snapshot' = [snapshot EXCEPT !.phase = "bundle_ready", !.total = opts.laneCount,
                            !.generated = opts.laneCount,
                            !.replayLoaded = opts.laneCount - LiveLanes,
                            !.verifiedTxTotal = uint64(opts.batchSize * opts.laneCount)]
          /\ wf' = [wf EXCEPT !.pc = "ready", !.i = 1]
       \/ /\ LiveLanes < opts.laneCount
          /\ ~MergeOK(exported, opts.replay, LiveLanes, opts.laneCount)
          /\ Return /\ UNCHANGED <<file, snapshot>>
    /\ UNCHANGED <<opts, server, call, told, resultsCh, heads>>

\* Without keys or addresses there is nothing to submit.
BundleReady ==
    /\ At("ready")
    /\ snapshot' = [snapshot EXCEPT !.bundlePath = TRUE]
    /\ Goto(IF opts.keys = <<>> \/ opts.addresses = <<>> THEN "finish" ELSE "submit")
    /\ UNCHANGED <<opts, server, file, call, told, resultsCh, heads>>

\* submitBundleWithProgress: one key, or a key for every address.
Configure ==
    /\ At("submit")
    /\ IF Len(opts.keys) \in {1, Len(opts.addresses)}
       THEN /\ snapshot' = WithSubmission(snapshot, Len(opts.addresses), file.verifiedTxTotal)
            /\ wf' = [wf EXCEPT !.pc = "build", !.i = 1]
       ELSE Return /\ UNCHANGED snapshot
    /\ UNCHANGED <<opts, server, file, call, told, resultsCh, heads>>

Succeeds(k) == VerifyOK(DeployedKey, heads[opts.addresses[k]], file.artifacts)

\* buildDashboardJobs: a call whose estimate reverts stops everything; with a gas limit
\* (KAIA_GAS_LIMIT) there is no estimate.
BuildJob ==
    /\ At("build")
    /\ \/ ~opts.gasLimit /\ ~Succeeds(wf.i) /\ Return
       \/ /\ opts.gasLimit \/ Succeeds(wf.i)
          /\ wf' = IF wf.i < Len(opts.addresses) THEN [wf EXCEPT !.i = @ + 1]
                                                 ELSE [wf EXCEPT !.pc = "send", !.i = 1]
    /\ UNCHANGED <<opts, snapshot, server, file, call, told, resultsCh, heads>>

SendTransaction == /\ At("send")
                   /\ call' = [call EXCEPT ![wf.i] = "sent"]
                   /\ Goto("note")
                   /\ UNCHANGED <<opts, snapshot, server, file, told, resultsCh, heads>>

NoteTxSent ==
    /\ At("note")
    /\ snapshot' = WithTxSent(snapshot, wf.i)
    /\ wf' = IF wf.i < Len(opts.addresses) THEN [wf EXCEPT !.pc = "send", !.i = @ + 1]
                                           ELSE [wf EXCEPT !.pc = "collect", !.i = 1]
    /\ UNCHANGED <<opts, server, file, call, told, resultsCh, heads>>

\* Mutant: nothing is sent for a transaction that was reverted.
ReceiptSeenDropsReverted(k) ==
    /\ At("collect") /\ k \notin told /\ call[k] \in {"certified", "reverted"}
    /\ told' = told \cup {k}
    /\ resultsCh' = IF call[k] = "certified" THEN Append(resultsCh, [job |-> k, ok |-> TRUE]) ELSE resultsCh
    /\ UNCHANGED <<opts, snapshot, server, wf, file, call, heads>>

\* The goroutine of job k: waitForReceipt and the status of the receipt.
ReceiptSeen(k) ==
    /\ At("collect") /\ k \notin told /\ call[k] \in {"certified", "reverted"}
    /\ told' = told \cup {k}
    /\ resultsCh' = Append(resultsCh, [job |-> k, ok |-> call[k] = "certified"])
    /\ UNCHANGED <<opts, snapshot, server, wf, file, call, heads>>

\* Its RPC fails, whatever becomes of the transaction.
ReceiptLost(k) ==
    /\ At("collect") /\ k \notin told
    /\ told' = told \cup {k}
    /\ resultsCh' = Append(resultsCh, [job |-> k, ok |-> FALSE])
    /\ UNCHANGED <<opts, snapshot, server, wf, file, call, heads>>

\* Mutant: the error of the last receipt is the one that counts.
CollectLastErr ==
    /\ At("collect") /\ wf.i <= Len(opts.addresses) /\ resultsCh # <<>>
    /\ LET r == Head(resultsCh)
           verified == wf.confirmedVerified + IF r.ok THEN file.verifiedTxTotal ELSE 0
       IN  /\ wf' = [wf EXCEPT !.i = @ + 1, !.confirmedVerified = verified, !.firstErr = ~r.ok]
           /\ snapshot' = WithReceipt(snapshot, r.job, r.ok, verified)
    /\ resultsCh' = Tail(resultsCh)
    /\ UNCHANGED <<opts, server, file, call, told, heads>>

Collect ==
    /\ At("collect") /\ wf.i <= Len(opts.addresses) /\ resultsCh # <<>>
    /\ LET r == Head(resultsCh)
           verified == wf.confirmedVerified + IF r.ok THEN file.verifiedTxTotal ELSE 0
       IN  /\ wf' = [wf EXCEPT !.i = @ + 1, !.confirmedVerified = verified,
                               !.firstErr = @ \/ ~r.ok]
           /\ snapshot' = WithReceipt(snapshot, r.job, r.ok, verified)
    /\ resultsCh' = Tail(resultsCh)
    /\ UNCHANGED <<opts, server, file, call, told, heads>>

CollectEnds == /\ At("collect") /\ wf.i > Len(opts.addresses)
               /\ Goto(IF wf.firstErr THEN "error" ELSE "finish")
               /\ UNCHANGED <<opts, snapshot, server, file, call, told, resultsCh, heads>>

\* runDashboard: what the workflow returned is shown.
ShowError == /\ At("error")
             /\ snapshot' = WithError(snapshot, "workflow")
             /\ Goto("end")
             /\ UNCHANGED <<opts, server, file, call, told, resultsCh, heads>>

ShowDone == /\ At("finish")
            /\ snapshot' = WithDone(snapshot)
            /\ Goto("end")
            /\ UNCHANGED <<opts, server, file, call, told, resultsCh, heads>>

-----------------------------------------------------------------------------
(* Everything else *)

\* The exporter, a file or an RPC fails; a transaction on its way may have
\* reached the node.
WorkflowFails ==
    /\ wf.pc \in {"export", "load", "submit", "build", "send"}
    /\ Return
    /\ \/ UNCHANGED call
       \/ At("send") /\ call' = [call EXCEPT ![wf.i] = "sent"]
    /\ UNCHANGED <<opts, snapshot, server, file, told, resultsCh, heads>>

\* ListenAndServe returns an error, at once (the port is taken) or later.
ServerFails == /\ server = "up"
               /\ server' = "down"
               /\ snapshot' = WithError(snapshot, "server")
               /\ UNCHANGED <<opts, wf, file, call, told, resultsCh, heads>>

\* A block includes call k; calls of one sender come in the order of their nonces.
IncludeTransaction(k) ==
    /\ call[k] = "sent"
    /\ Len(opts.keys) = 1 => \A j \in 1..(k - 1) : call[j] # "sent"
    /\ call' = [call EXCEPT ![k] = IF Succeeds(k) THEN "certified" ELSE "reverted"]
    /\ heads' = IF Succeeds(k) THEN [heads EXCEPT ![opts.addresses[k]] = HeadsVerified(@, file.artifacts)]
                               ELSE heads
    /\ UNCHANGED <<opts, snapshot, server, wf, file, told, resultsCh>>

Workflow == \/ Generate \/ SkipGenerate \/ LoadStored \/ ExporterEvent \/ SetupFails
            \/ ExporterEnds \/ BundleReady \/ Configure \/ BuildJob \/ SendTransaction \/ NoteTxSent
            \/ Collect \/ CollectEnds \/ ShowError \/ ShowDone

Next == \/ Workflow \/ WorkflowFails \/ ServerFails
        \/ \E k \in DOMAIN call : ReceiptSeen(k) \/ ReceiptLost(k) \/ IncludeTransaction(k)

Spec == Init /\ [][Next]_vars

\* The goroutines run on, and blocks keep coming.
FairSpec == /\ Spec
            /\ WF_vars(Workflow)
            /\ WF_vars(\E k \in DOMAIN call : ReceiptSeen(k))
            /\ WF_vars(\E k \in DOMAIN call : IncludeTransaction(k))

-----------------------------------------------------------------------------
(* Properties *)

(***************************************************************************)
(* "completed" is shown only for a run without any error, of the workflow  *)
(* or of the server, in which every call was certified; then the page's    *)
(* verified total is that of all calls.                                    *)
(***************************************************************************)
CompletedMeansCertified == snapshot.phase = "completed" =>
    /\ snapshot.error = "" /\ snapshot.done
    /\ \A k \in DOMAIN call : call[k] = IF snapshot.enabled THEN "certified" ELSE "none"
    /\ snapshot.verifiedTxConfirmed = snapshot.totalCalls * snapshot.verifiedTxPerCall

(***************************************************************************)
(* Receipts arrive in any order and some are lost: the page never shows    *)
(* more than was certified, and its counts agree with each other.          *)
(***************************************************************************)
ShownIsCertified ==
    /\ snapshot.verifiedTxConfirmed = snapshot.confirmedCalls * snapshot.verifiedTxPerCall
    /\ snapshot.confirmedCalls + snapshot.failedCalls <= snapshot.sentCalls
    /\ snapshot.confirmedCalls <= Cardinality({k \in DOMAIN call : call[k] = "certified"})

(***************************************************************************)
(* The total that the page shows for the proofs, which a merge of live and *)
(* replayed proofs takes from the options, is that of the submitted bundle *)
(* whenever a call of it was certified; unless -batch-size is negative,    *)
(* when the exporter takes its own and a merge shows that of the option.   *)
(***************************************************************************)
ProofTotalIsSubmitted ==
    (snapshot.confirmedCalls > 0 /\ (snapshot.replayLoaded > 0 => opts.batchSize \in Nat))
        => snapshot.verifiedTxTotal = snapshot.verifiedTxPerCall

\* What is proved and what is replayed comes from the seed and the batch size of what is
\* deployed; a replayed bundle that was merged may have other proofs in its first lanes.
Fits == /\ opts.setup.key = DeployedKey
        /\ \A k \in (LiveLanes + 1)..opts.laneCount : opts.replay.artifacts[k].proof.key = DeployedKey

(***************************************************************************)
(* A merged bundle has a proof for every lane and is accepted by a         *)
(* certifier that is initialized with its lane heads, if both halves come  *)
(* from the setup that is deployed.                                        *)
(***************************************************************************)
MergedBundleVerifies ==
    (snapshot.replayLoaded > 0 /\ Fits) =>
        /\ VerifyOK(DeployedKey, DeployedHeads, file.artifacts)
        /\ {file.artifacts[k].laneId : k \in DOMAIN file.artifacts} = 0..(opts.laneCount - 1)

(***************************************************************************)
(* The page's list of transactions is cut after every receipt, though not  *)
(* after a send: the latest receipts, as many as it keeps, are its last    *)
(* entries.                                                                *)
(***************************************************************************)
LatestReceiptsShown ==
    LET txs  == snapshot.transactions
        seen == snapshot.confirmedCalls + snapshot.failedCalls
        last == IF seen < MaxTransactions THEN seen ELSE MaxTransactions
    IN  /\ \A k \in (Len(txs) - last + 1)..Len(txs) : txs[k].status # "sent"
        /\ seen > 0 => Len(txs) <= MaxTransactions

Rank(phase) == CASE phase = "starting" -> 0         [] phase = "proof_setup" -> 1
                 [] phase = "proof_generation" -> 2 [] phase = "bundle_ready" -> 3
                 [] phase = "l1_submitting" -> 4    [] OTHER -> 5

(***************************************************************************)
(* The phase on the page goes forward, unless the server has failed: that  *)
(* "failed" is written over by the workflow, which goes on (the error and  *)
(* done stay).                                                             *)
(***************************************************************************)
PhaseAdvances ==
    [][/\ Rank(snapshot'.phase) >= Rank(snapshot.phase) \/ server = "down"
       /\ snapshot.done => snapshot'.done /\ (snapshot.error # "" => snapshot'.error # "")]_vars

(***************************************************************************)
(* The page ends up showing an outcome: the workflow cannot wait for a     *)
(* result that no goroutine sends.                                         *)
(***************************************************************************)
OutcomeShown == <>(snapshot.done /\ At("end"))
=============================================================================
