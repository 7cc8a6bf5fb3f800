# HyperL2: models, checks and proofs

TLA+ models of HyperL2 (Go pipeline and tools, Solidity verifiers, Rust prover),
checked with TLC on small instances and, for the ring queue, the runner, the L1 node, the
contracts with their prover, the orchestrator's files and the daemons' answers, proved with TLAPS for every size.
`PROJECT.json` maps each definition to the source lines it models and lists the runs, the
hazards and, for every property, a plausible bug of the code that breaks it.

    tlc -workers 2 -config RingMpmc.cfg MCRingQueue      one run
    tlapm PipelineProofs.tla                             the proofs of one module

Contents: [1 the system](#1-the-system) · [2 models and code](#2-models-and-code) ·
[3 what the runs show](#3-what-the-runs-show) · [4 bounds](#4-bounds) ·
[5 fairness](#5-fairness) · [6 proofs](#6-proofs) · [7 abstractions](#7-abstractions) ·
[8 disagreements between code and text](#8-disagreements-between-code-and-text) ·
[9 what the code does not promise](#9-what-the-code-does-not-promise) ·
[10 not modelled](#10-not-modelled) · [11 plan](#11-plan)

## 1 The system

HyperL2 exists twice over.  The *simulation* takes synthetic transactions through
ingress, sequencer, aggregator, proof replayer and an in-memory L1 node, either as
four goroutines of one process (`internal/pipeline/runner.go`) or as five daemons
joined by HTTP (`cmd/l2-*`, `cmd/proof-replayer`, `cmd/l1-cert-node`).  The *proved*
path has a Rust prover make batch proofs, `kaia-proofctl` submit them, and Solidity
contracts verify them and advance one commitment, the head, per lane.

| component | state it keeps | operations | talks to | hard part | correct when |
|---|---|---|---|---|---|
| ring queue (`internal/queue`) | two positions, a sequence number and a value per cell, a length | `Enqueue`, `Dequeue`, `Len` | shared by goroutines | lock-free; the values are plain memory | no race on a cell, first in first out, once each, no call waits for another |
| pipeline runner (`runner.go`) | three rings, three done flags, context, aggregator's map | `Run` and its four goroutines | rings, proof book, L1 node | flags against queues, cancellation, full queues | blocks arrive whole and in order, the verdict is honest, it ends |
| L1 certification node (`l1.go`) | blocks, log, balances, versions, verified counter | `SubmitCertifiedBlock` | replayer; metrics | resubmission, conflicts, spoilt proofs | the ledger is the replay of the accepted blocks |
| configuration (`internal/config`) | block time, lanes, queues, two phases | `Validate`, `BlocksForPhase`, `TxPerBlock` | runner, generator | rounding of rates, float64, lanes beyond the width of a lane id | a run that can pass, or one that is refused |
| proof book (`proof.go`) | proofs by block | `ProofForBlock`, `SaveJSONL`, `LoadJSONL` | runner, generator, replayer | a file cut off, of another seed or a longer run; a map without a lock | every block gets the proof of its seed |
| data sets, reports, orchestrator (`datasets.go`, `report.go`, `cmd/bench-orchestrator`) | blob, manifest, proof file, report files | generate, run | proof book, runner | killed or failing while writing, over files of earlier commands; two runs in one second | what is printed is what the files hold |
| metrics | counters | counters, gauges | runner, L1 node | | output only |
| HTTP daemons | ingress' place in its data, channel and buffer of the sequencer, map of the aggregator, proof book, the L1 node | stream writer and reader, select loop, three handlers | each other, over HTTP | broken connections beside restarts, detached handlers, requests that overlap, lane ids of 16 bits | only whole blocks certified, no transaction more often than written |
| wire formats (`internal/frame`) | none | (un)marshal transactions and lane frames | sequencer, aggregator | lengths, widths, cut frames | a frame that decodes is the frame that was encoded |
| Solidity verifiers (`contracts`) | verifying key, lane heads, total | initialize key, initialize heads, verify batches | prover's artifacts | one lane twice in a call, proofs moved to other lanes | a lane is an unbroken chain of proved transitions |
| sum-preserving prover (`hyperl2/*.rs`) | none | slot map, transition builder, circuit, `prove_batch` | contracts | self transfers, overdrafts, infinity | the total of a lane never changes |
| bundle exporter (`export_sumproof_bundle.rs`) | the bundle file, progress events | export | `kaia-proofctl` | one setup for all lanes | the bundle verifies where its heads are set |
| Kaia proof control (`kaia-proofctl/main.go`) | none; acts on the chain | two deploy commands, `init-vk`, `init-lane-heads`, `fund-accounts`, `estimate-bundle`, three submit commands | RPC, pool, contracts | nonces, lost answers, reruns, overtaken calls, addresses without code | nothing certified twice or reported uncertified; a script that is run again gets there |
| proof dashboard (`dashboard.go`) | snapshot, workflow, one goroutine per receipt, HTTP server | live and stored workflows, merge of bundles | exporter, RPC, browser | a server error beside the workflow, receipts in any order | the page shows what was certified, and an outcome |

The hazards these have, each at its line and with the properties that cover it, are
`hazards` of `PROJECT.json`.

## 2 Models and code

| module | models | state and actions |
|---|---|---|
| `BoundedQueue` | the promise of a ring: an atomic bounded queue whose calls have a beginning, an effect and an end | abstract specification |
| `RingQueue` | `internal/queue/ring.go` | one action per access to shared memory; `pc[t]` is the line, `pos[t]` and `arg[t]` the locals; `hist` is a history of what was put, read by no guard |
| `RingQueueProofs` | | theorems about `RingQueue`: races, values, refinement |
| `L1CertNode` | `internal/pipeline/l1.go` | `SubmitCertifiedBlock` as its five outcomes, under the node's mutex: one step |
| `L1CertNodeProofs` | | theorems about `L1CertNode` |
| `Config` | `internal/config/config.go` | operators on a configuration record |
| `ProofBook` | `proof.go`: the book and its file, a sequence of lines of which one may be torn | operators |
| `Workload` | the blocks, transactions and proofs of a run (`runner.go`, `types.go`), `NewRunner` | operators; extends `Config` and `ProofBook` |
| `CertificationRun` | what a run promises: blocks in order, each with the outcome its proof deserves, then a verdict | abstract specification: `SubmitNext`, `Conclude` |
| `Pipeline` | `runner.go`, the drop counter of `metrics` | a record with a `pc` per goroutine; rings are atomic queues; instantiates `L1CertNode`, refines `CertificationRun` |
| `PipelineProofs` | | theorems about `Pipeline` |
| `Bench` | `cmd/bench-orchestrator`, `datasets.go`, `report.go` | the command with its `pc`, and the files; a run takes the steps of `CertificationRun`; a kill or failing write at any step |
| `BenchProofs` | | theorems about `Bench` |
| `Daemons` | `cmd/l2-ingress`, `l2-sequencer`, `l2-aggregator`, `proof-replayer`, `l1-cert-node` | ingress, the sequencer's two goroutines, a record per request in flight; instantiates `L1CertNode` |
| `DaemonsProofs` | | theorems about `Daemons` |
| `Frames` | `internal/frame/frame.go` | operators, on bytes of `Byte` values |
| `LaneHeads` | what the contracts compute, without storage: heads, guards of a call, the statement a proof proves | operators, used by four modules below |
| `BatchVerifier` | `SumPreservingBatchVerifier.sol`, `CCGroth16BatchVerifier.sol` | one action per external function; a call that reverts is no step; `events` is the contract's log, which no function reads |
| `SumProver` | `hyperl2/state.rs`, `sum.rs`, `challenge.rs`, the Pedersen commitment | operators over the field of `Prime` elements; `prove` is what anybody can make with the proving key, `prove_batch` what this crate makes |
| `Rollup` | provers and contracts together | adds `TotalPreserved` to both; a submitted proof may come from any prover |
| `RollupProofs` | | theorems about `BatchVerifier`, `Rollup` and `ProofCtl` |
| `SumTheorems` | | induction over the naturals and sums over finite sets, for the proofs |
| `Bundles` | exporter, bundle, merge of a live and a replayed bundle | operators |
| `ProofCtl` | `kaia-proofctl/main.go`; the chain as it is used (external) | a process per operator, whose script is a sequence of commands: read, build, send, wait, fail, rerun from the start; `IncludeTransaction` is the chain, `contracts` what is deployed at each address |
| `Dashboard` | `kaia-proofctl/dashboard.go` | the workflow, the exporter's events, server, receipt goroutines |
| `DashboardProofs` | | theorems about `Dashboard` |

The pieces fit together as the code's do.  `RingQueue` refines `BoundedQueue`, so
`Pipeline` may use queues; `Pipeline` refines `CertificationRun`, so `Bench` may use
runs; `L1CertNode` is one module inside `Pipeline` and `Daemons`; `LaneHeads` is what the
chain of `ProofCtl` and `Dashboard` runs and `BatchVerifier` stores.

The `MC...` modules give the constants their values.  They also hold pure checks as
assumptions, which TLC evaluates with the run of their module:
`BuilderMeetsReference` (the transition builder against the meaning of a transfer, for
every two transfers between two accounts, self transfers and overdrafts included; the
proof made of it is accepted on its own head and on no other), `DemoBatchIsProved`,
`FramesRoundTrip` (what is decoded is what was encoded; every frame cut short or one
byte longer is refused), `GoalReachableIffExact` (over 432 configurations, a run that
loses nothing reaches the goal of its report exactly when rate and duration come out of
whole blocks of whole transactions), and `ShippedConfigsExact` (those of `configs/` do).

Operators named for a bug (`DeqReleaseOffByOne`, `VerifyOKOnStorage`, ...) stand just
before the definition they spoil and belong to no specification; `mutants` of
`PROJECT.json` says which property each must break.

## 3 What the runs show

| run | shows |
|---|---|
| `ring_mpmc` | Two producers, two consumers, two cells.  `ExclusiveCell`: no two goroutines own a cell.  `ReadsWhatWasPut`: the n-th value dequeued is the n-th enqueued.  `LengthAccounted`: `Len()` is off by exactly the calls on their way.  `RingInv`, `DataInv`: the invariants of the proofs.  `Linearizable`: refinement of `BoundedQueue` with the effect at the CAS.  With several users a call may also report full or empty while another is half way; the refinement allows just that. |
| `ring_spsc` | With one producer and one consumer, as the runner uses it, `ExactlyAQueue`: a call fails only when the queue is full or empty.  This is why `Pipeline` may use atomic queues. |
| `ring_lock_free` | `EveryCallReturns` although two other goroutines may stop anywhere inside a call. |
| `l1_submissions` | `LedgerIsReplay`, `VersionsDense`, `BooksAgree` (log, blocks and counter tell one story), `AcceptedMeansApplied`, `AcceptedIsFinal`, over every sequence of three submissions with every mismatch of payload, commitment, count and proof. |
| `pipeline` | Seven configurations, and two that are refused.  `ImplementsRun`: the four goroutines implement `CertificationRun`.  `SubmittedWhole`: a submitted block has exactly the transactions ingress made.  `NothingLostWhileRunning`: until some goroutine has left, a block that ingress has counted is somewhere on its way or in the log.  `PassExactly`: the verdict is "passed" if and only if no queue was full, every certification block was accepted and the numbers come out exactly.  `RunReturns`: the run ends with a report, cancelled at any step or not. |
| `pipeline_happy` | *violated*, see section 8. |
| `batch_verifier` | `LaneIsChain`, `CertifiedIsProved`, `TotalPreserved`, over every sequence of calls by admin and stranger with what provers, not only this crate's, make of each transition between six states, including unsatisfied circuits, claims of another size, other keys, moved and altered proofs.  One state is the zero state, which commits to infinity, and one has total 0 and does not: a batch from this one to that one unsets a lane, which anybody then initializes again. |
| `proofctl` | `BundleCertifiedOnce`, `ReportIsCertified`, `EveryCommandEnds`, and `Resumes`: a script whose commands deploy, skip what is set or use only what the same run has deployed ends with success if it is run again after every failure.  Four pairs of operators: two submit one bundle, two initialize one certifier, and the preflight sequence of `docs/kaia-endpoint-preflight.md` or `scripts/run-kaia-16p6s-repeat.sh` beside somebody who pays with the same key; one RPC failure, with or without effect, anywhere. |
| `proofctl_burst` | *violated*, see section 8. |
| `dashboard` | `CompletedMeansCertified`, `ShownIsCertified`, `ProofTotalIsSubmitted`, `MergedBundleVerifies`, `LatestReceiptsShown`, `PhaseAdvances`, `OutcomeShown`, for nineteen sets of options and a failure of the server, the exporter or any RPC.  Among them are counts that are 0 or negative, a gas limit that spares the estimate, and replayed bundles that were merged themselves, whose foreign artifacts are in the part that is taken or in the other. |
| `daemons` | `CertifiedWhole`, `OkMeansSubmitted`, `EachTxOnce` (applied no more often than ingress wrote it), and `SealedIsCertified` as long as nothing fails; two broken connections, the stream's included, with requests that overlap in the replayer and may kill it, or a broken connection beside a restart of any daemon, in either order; a full channel, a spoilt proof, a replayer with another seed and a data set.  A restart of the L1 node cuts off any of the submissions on their way.  With more lanes than lane ids every lane is answered with ok and no block leaves the aggregator (the other half of `OkMeansSubmitted`). |
| `bench` | Three commands in any order with four configurations over one set of files.  `DatasetFitsRun`: a proof file spoils no run of its seed.  `ManifestFindsBlocks`: a printed manifest leads to every block of the blob, byte by byte.  `PrintedIsWritten`: a printed verdict is the one in the files of its run. |

## 4 Bounds

The constants marked "bound" in the modules cap how often something happens.  The proofs of
section 6 hold for all their values and no action has a bound of another kind; for what is
proved there, the runs show that the formulas say something, and their mutants that they can
fail.

* Ring: two cells and six calls.  Both sides wrap the ring and meet a full and an empty
  one; `ring_spsc` laps it twice and a half.
* L1 node: two indices and three submissions are a first, a duplicate or conflict and a
  later one for every mismatch; three payloads hold a transfer, a self transfer and a
  zero amount.
* Pipeline: four blocks over two lanes are eight lane batches through rings of two, so
  every ring fills and every retry happens; blocks of three transactions split
  unevenly and the one-transaction warm-up block leaves a lane empty.  Lane ids have two
  values instead of 65536, so that three lanes are too many.  The other configurations
  are one each of a rate that blocks do not divide, a block longer than its phase, blocks
  without transactions, a spoilt proof by injection and one by a foreign data set.
* `Bench`: three commands (`MaxCommands`) are a data set, another that is left unfinished
  over it, and a run; two seconds (`MaxClock` 1) let two runs share a time stamp or not.
  A byte has 16 values (`Byte`), so that a transaction is still twelve digits and no
  number of the instance wraps.  A failing write leaves nothing of a block, a part of its first
  transaction or a part of its second (`Cuts`).
* Contracts: two lanes, five events (`MaxEvents`: initializations and certified batches; a
  lane takes several, or two in a call, or is initialized again), field of three, where
  overdrafts wrap and the zero state commits to infinity.
* `ProofCtl`: two scripts, bundles of two lanes, one RPC failure (`MaxFaults`).  A run of
  a repeatable script can fail for that failure, for a pending transaction of its own last
  run or of the other operator that takes a nonce, and for a lane that another operator
  sets in between; `maxRuns` is above the number of these (four, or five for the two that
  initialize one certifier), so that `Resumes` is never a matter of the bound.
* `Dashboard`: up to three calls and a list cut at two entries, so that it is cut.  The
  exporter's defaults are three transactions and two lanes, and a uint64 has 1000 values, so
  that a negative option converts to a number that is no total of the instance.
* Daemons: three transactions, two blocks, a channel of one.  One fault lets
  requests overlap in the replayer; a second breaks one of those, or the stream.
  Of the four setups of `MCSetups` two have these two faults, one has a fault and a restart,
  in either order, and one besides these fewer lane ids than lanes.  The last two
  start ingress at the second block, with two transactions.  Two blocks are sealed in
  all runs of the sequencer together, so a restarted one may seal its block 0 again.  The
  bounds belong to the setup (`maxFaults`, `maxRestarts`); the proofs hold for any setups, so for
  any number of either in one behaviour.

Deadlock is checked in the ring, L1 and pipeline runs, whose end is an explicit
stuttering step.  It is off in the others, where the system really stops: no call, command
or transaction is left to make within the bounds.

## 5 Fairness

* Ring: weak fairness of the steps *inside* a call, for the goroutines in `Running`
  only.  Nobody has to make a call, nobody outside `Running` has to move.
* Pipeline: weak fairness of each goroutine, which the Go scheduler gives; cancellation
  is never forced.
* `ProofCtl`: of each command's steps and of the chain including what it can.  Reruns
  are fair up to their bound, since `Resumes` is about an operator who tries again.
* `Dashboard`: of the workflow, the receipt goroutines and the chain; failures never.
* Daemons: of posts, answers and handlers, since a client waits until it is answered or
  cut off.  Ingress, sealing, faults and restarts are never forced.
* `Bench` has no liveness property and no fairness.

## 6 Proofs

Every theorem has the form `Spec => []P` or `Spec => P` for a property `P` of section 3
and holds for all values of the constants that meet the named assumptions; two have a
hypothesis besides (`OneOfEach`, `EveryStatusChecked`).  TLC evaluates the assumptions with the runs, and has checked each inductive invariant, as an invariant,
over the whole instance of the run of its module.

| module | theorems | about |
|---|---|---|
| `RingQueueProofs` | `TypeCorrect`, `NoDataRace`, `Bookkeeping`, `ValuesInPlace`, `FirstInFirstOut`, `LengthIsAccounted`, `RingIsLinearizable`, `RingIsExactQueue` | `TypeOK`, `ExclusiveCell`, `RingInv`, `DataInv`, `ReadsWhatWasPut`, `LengthAccounted`, `Linearizable` and, for one producer and one consumer, `ExactlyAQueue`: `RingQueue` implements `BoundedQueue` |
| `L1CertNodeProofs` | `AcceptedIsApplied`, `AcceptedStaysFinal`, `VersionsAreDense`, `LedgerReplaysBlocks`, `BooksAlwaysAgree` | `AcceptedMeansApplied`, `AcceptedIsFinal`, `VersionsDense`, `LedgerIsReplay`, `BooksAgree` |
| `RollupProofs` | `LanesAreChains`, `CertifiedBatchesAreProved`, `TotalsArePreserved`, `SubmittedCertifiedOnce`, `ReportsAreCertified` | `LaneIsChain`, `CertifiedIsProved`, `TotalPreserved`, and of `ProofCtl` `BundleCertifiedOnce`, `ReportIsCertified` |
| `PipelineProofs` | `BlocksArriveWhole`, `NoBlockIsLost`, `VerdictIsExact`, `RunnerImplementsRun` | `SubmittedWhole`, `NothingLostWhileRunning`, `PassExactly`, `ImplementsRun`: `Pipeline` implements `CertificationRun` |
| `DaemonsProofs` | `OkIsSubmitted`, `TxAppliedOnce`, `CertifiedIsWhole` | `OkMeansSubmitted`, `EachTxOnce`, `CertifiedWhole` |
| `BenchProofs` | `DatasetNeverSpoilsRun`, `PrintedVerdictIsWritten` | `DatasetFitsRun`, `PrintedIsWritten` |
| `DashboardProofs` | `ReceiptsShownAreCertified`, `CompletedIsCertified`, `PhaseGoesForward`, `LatestReceiptsStay`, `ProofTotalIsTheBundles`, `MergedBundleIsAccepted` | `ShownIsCertified`, `CompletedMeansCertified`, `PhaseAdvances`, `LatestReceiptsShown`, `ProofTotalIsSubmitted`, `MergedBundleVerifies` |

### The ring

For any sets of producers and consumers, any number of calls and any capacity of at least
two (`CapacityAssumption`, which `NewRing` guarantees; `CallsAssumption`,
`ThreadsAssumption`: the goroutines are finitely many; `ZeroAssumption`: the zero value is
not one that is put).

`ExclusiveCell` is not inductive: nothing in it stops a claimed position from being
claimed again a lap later.  `RingInv` says why that cannot happen.  The positions between
`dequeuePos` and `enqueuePos`, at most `Capacity` (`Positions`), are stored or being
stored (`StoredCells`), the positions of the next lap free or being freed
(`FreeCells`), and a cell's sequence number tells which; a loaded position is never
ahead of the shared one and what was seen of its cell still holds while the CAS can
succeed (`LoadedPositions`); a claimed position lies in its range and its cell still has
the old sequence number (`ClaimedPositions`); no two goroutines claim one position
(`DistinctClaims`).  The capacity of two is needed: with a single cell "stored" of one
lap and "free" of the next are the same number.

For the values `DataInv` says what each cell holds by its sequence number and by how far
its owner has got; a step of one goroutine touches one cell, and `DistinctClaims` keeps it
away from the cells that the others speak of.  `LengthAccounted` counts the goroutines
between CAS and `length.Add`: a step moves one of them in or out of a finite set.

The refinement maps the queue to `hist` between the two positions.  A call that fails may do
so because another is half way, so the proof has to name that other call: `OwnerInv` says
that a claimed cell that is not published has a producer inside its call, and one that is
not handed back has a consumer.

`RingIsExactQueue` is the stronger refinement for a ring with at most one producer and one
consumer (`OneOfEach`), which is how `runner.go` uses its rings and why `Pipeline` may use
queues: a call fails only when the queue is full or empty.  Here the effect of a call
is at its store of the sequence number, so the queue lies between the positions `Taken` and
`Stored`.  A goroutine keeps to the calls of its role (`RolesInv`), and nobody else moves the
position that it has loaded or claimed (`SoleInv`); what it found in the cell is then still
so when it gives up.

### The L1 node

For any finite or infinite set of requests whose payloads are sequences of transactions
(`RequestsAssumption`; `SubmitsAssumption` is the bound of the instance, any natural).
Each submission either leaves blocks, balances, versions and counter alone
(`RejectedChangesNothing`) or adds one block, version and log entry (`AcceptedChanges`).
The invariants then follow a sum over the accepted blocks through one added term.  What
`applyTxs` computes, a recursive function over a payload, is shown to be the sum of its
transfers by induction on the payload's length; a self transfer is why the order of its
two assignments matters.

### Contracts and prover

For any lanes, callers, keys, artifacts, prime and batch size.  `KeysAreSet`: a key that
is set is not "no key".  `CallsTyped`: calls have the types the ABI gives them; points may
be infinity.  `ProofsAreMade`: CC-Groth16 is sound, a proof that is good for a statement was
made of some transition that satisfies the circuit.  It says nothing of what a prover refuses: that this
crate's makes no batch from or to infinity (`ChallengeOK`) is not assumed of a proof, for
`verifyBatches` is open to any caller and does not look at the next head.
Only `TotalPreserved` needs it.

`LaneIsChain` is not inductive, for one call may have several batches of one lane,
each checked against a head that is not stored yet.  The invariant says it for all calls at
once: the heads are what a single loop over all events, initializations and batches, would
have made of none (`HeadInv`), and each event started at the head
that those before it had made (`PastInv`).  A call appends to this list, and lemmas on
`HeadAt` say that a longer list computes the same heads for its beginning.  A lane is
initialized only where the last event of the lane has left infinity; a batch from a state of
total 0 may do that, an initialization with infinity does.  `TotalPreserved`
follows along the batches since the last initialization by induction on their number, one at a
time, by the sum constraint of the circuit.

### The operators at the contracts

The theorems about `ProofCtl` (`CtlSpec`) are in `RollupProofs`, for they need its lemmas on
the contract's loop.  They hold for any scripts, accounts, reruns and failing RPCs, and for any order in which blocks take
transactions.

The scenarios are assumed to be what the code accepts (`ScenariosAssumption`): commands pass
their flag checks, as many keys as certifiers in `submit-multisender-burst`
(`main.go:1057`) and at least one certifier; the contracts that are there at the start
have certified nothing; scripts submit to contracts, given or deployed before; bundles are
those of exporter and merge.  One condition limits what is claimed: the bundles submitted
do not follow on one another (`DoesNotFollow`), as is so for those of one demo state, for
a certifier may well certify a bundle that goes on where another ends.

`CtlInv` says whose each transaction is.  `IdInv`: a transaction, in the pool or with a
receipt, belongs to one job of one command of one run of one script, and that script is
past the job (`Past`), so that no step sends it again.  `PoolInv`: its call is the one that
this command makes, and a submission goes to a contract.  `ReceiptInv`: a submission that
succeeded has certified the bundle of its command.  `AddressInv`: the address of a
contract comes from an account and a nonce that the account has used, so that a deployment
replaces nothing.  `CertInv`: a certifier has certified nothing, or one bundle, and then
its heads are still where this bundle ends; initializing does not move a head that is set,
and no submission finds its first head there.  `ScriptInv`: names stand for deployed
contracts, and a command that looks at the status has seen what it reports succeed.

`BundleCertifiedOnce` follows from `CertInv`.  `ReportIsCertified` follows from `ReceiptInv`
and `ScriptInv` by a constant sum, if no script has a `submit-burst` (`EveryStatusChecked`):
for that command it is false (`proofctl_burst`, section 8).

### The runner

For every set of configurations whose fields are integers (`SetupAssumption`) and any table
of products that float64 puts too low (`FloatAssumption`), any number of lanes, lane ids,
blocks and cancellation at any moment.

The lane batches of a run have a fixed order, `Batch(0)`, `Batch(1)`, and so on, the lanes of
block 0, of block 1, and so on.  The invariant says that whatever has not been given up by a
goroutine that left is a contiguous stretch of this order, cut at the places where the
goroutines stand: what ingress has queued (`IngressInv`), what the sequencer has cut of its
job (`SequencerInv`), what is queued for the aggregator and what of the unfinished block lies
in its map (`AggregatorInv`), what is queued for the replayer and what is logged
(`ReplayerInv`).  While a goroutine lives, its stretch begins where the next one's ends; once
it has left, only what it handed on still counts.  `ReportInv` says that nothing moves after
the report.  Every action moves one cut by one place.  With more lanes than lane ids two lanes
of a block share an id and the aggregator's map never completes; the invariant covers this
case, in which nothing is ever committed.

`SubmittedWhole` is part of `ReplayerInv`.  `NothingLostWhileRunning` finds a block by the
cut it lies between.  `PassExactly` needs arithmetic besides: with every block certified the
log's transactions are blocks times transactions per block (`SumConstant`), and two roundings
down give the exact product only if both are exact (`TightProduct`).  For the refinement
each step but the replayer's submission and the report leaves the log and the verdict alone.

### The daemons

For any stream, number of lanes and lane ids, blocks, broken connections and restarts, the
last two in any order (`DaemonsAssumption`, `DaemonSetupsAssumption`: at least one lane and one id, and natural bounds).
`OkMeansSubmitted` speaks of runs in which no daemon
was restarted, since a restarted aggregator has forgotten lanes that it answered with ok, and a
restarted L1 node its log.  What it says depends on whether there are as many lane ids as
lanes, since the sequencer cuts a lane's number to 16 bits and the aggregator counts ids
(`LaneId`).

The aggregator answers a lane with ok as soon as it has stored it, so the answers to
all lanes but the last say nothing about the L1 node.  The argument rests on which
lane is the last: the sequencer never repeats a post, so each lane of a block has at most one
request (`BatchInv`), and the aggregator has handled every lane exactly when one of these
requests has completed the block.  `BlockInv` says of each block that either lanes are
missing, and then nothing of it has left the aggregator (`Open`), or that all were handled
(`Closed`): then one request completed it, that request is on its way or the truth was told
about it, its commit reaches the replayer at most once, and until then the L1 node does not
know the block.  The last point is why the L1 node cannot reject it as a duplicate; why it
does not reject it as malformed is that the commit holds only transactions with an amount
(`ValidArePayload`, by induction on the payload) and its commitment and proof are computed
from them (`FirstSubmission`).  Broken connections leave
handlers running whose callers have given up; they answer to nobody, and `AnswerInv` counts
an ok only when the sequencer has read it.

With more lanes than ids the opposite holds: an unfinished block has at most as many ids as
there are, less than `Lanes`, so `HandleBatch` never forwards it (`WideInv`, for `NeverSubmitted`).

The other two theorems need neither restriction.  For `EachTxOnce` the places
that a transaction can be at are the channel, the sequencer's buffer or the lanes it has
still to post, the requests and forwards on their way, the aggregator's unfinished blocks
and the blocks of the L1 node.  `Conserved` says that these together never hold it more
often than ingress has written it.  Every step moves what it takes from one place to the
next or loses it; a restart loses.  The lanes of a block partition it
(`LanesCountAll`), so sealing moves the buffer and adds nothing.

`CertifiedWhole` speaks of the sequencer's first run, whichever other daemon is restarted.
`FirstRun` says that there is a plan, how the sequencer has split each sealed block into
lanes, and that what is on its way is what the plan says: a posted lane is that lane of its
block (`BatchesFit`), an unfinished block holds exactly the valid transactions of the lanes
it has collected (`StatesFit`), and what has been forwarded or certified holds those of all
lanes (`CommitsFit`, `BlocksFit`).  No two requests are for one lane of one block
(`KeysInv`), so an aggregator that has lost its memory can collect no lane a second time.

### The orchestrator

For any configurations, commands and time, with a kill or a failing write at any step.
(`BenchAssumption` bounds the instance.)  `FileInv` says that the proof file has lines of one
seed only, the one it was last created for: it is truncated when it is created, and a
generator that is stopped leaves a beginning of its lines and perhaps a part of one.
`BookInv` follows a run from there: either the file is refused, or no line was cut off and
every block's last line, which exists by induction on the number of lines, has the right
proof; a block without one gets it from the seed.  `ReportInv` says which report files of the
run that is under way have been written: the name of a file has only seconds in it, so that
the three of an earlier run may be in its place, and each has to be replaced before the verdict
is printed.  That `passed` leaves no certification block out comes from `CertificationRun`,
which the runner implements.

### The dashboard

For any options whose two counts are integers, as those flags are, whose bundles have natural
counts and whose lists are sequences (`OptionsAssumption`), any defaults of the exporter and
width of a uint64 (`DefaultsAssumption`), any deployed key and heads (but for `MergedBundleVerifies`, see below) and any positive size of the list
(`MaxTransactionsAssumption`, 100 in the code).  The counters of the page are not inductive
by themselves.  `PlaceInv` says for each place of the workflow which calls are sent and which of
them are shown, and that no result comes in before the last call is sent.  `ChannelInv`
counts the results: each receipt goroutine puts one into the channel, a good one only if its
call is certified, and the confirmed calls with the good results still in the channel are
no more than the certified calls whose goroutine has reported.  `ShownIsCertified` follows at
once; `CompletedMeansCertified` follows by cardinality, since a run that ends without an error has
confirmed as many calls as there are (`OutcomeInv`).

Four further invariants lean on this one.  `PhaseInv` bounds the phase by the place of the
workflow and, while the exporter runs, by the number of its event.  `ListInv` says how many
entries at the end of the list are receipts, through the cut after each receipt.
`TotalInv` deals with merged bundles, whose total on the page comes from the options and
not from the artifacts: a contract accepts only artifacts of `BATCH_TX_COUNT` transactions, so
that once a call is certified the artifacts' sum is lanes times batch size (`SumConstant`).  The
exporter takes its default for an option that is not a natural number (`parse_arg`) and the page
does not, so the property leaves out a merge with a negative `-batch-size` (section 9).

`MergeInv` is behind `MergedBundleVerifies`: only the end of the exporter shows replayed
proofs, and it writes the merged bundle, which no later step touches.  Artifact `i` of that
bundle is the exporter's or the replayed one of lane `i - 1` (`Spliced`), so the call writes no
lane twice, and each artifact meets the head from before the call (`FittingVerifies`).  That
this head is its `prev` comes from `SetupsAssumption`: a verifying key stands for a seed
and a batch size, and the certifiers are initialized from a bundle of the deployed setup,
so a proof made with the deployed key has the contract's batch size and starts from their heads,
whichever bundle it is in.  Nothing is assumed of other proofs: a replayed bundle that was
itself merged may have the deployed key in its header and foreign artifacts.  `Fits`, the
property's own hypothesis, asks for the deployed key of the exporter's setup and of each
replayed artifact that is taken.  The run has several merges that fit and several that do not.

### What is left to TLC

* Liveness: `EveryCallReturns`, `RunReturns`, `EveryCommandEnds`, `Resumes`, `OutcomeShown`,
  `SealedIsCertified`.  Fairness is outside the prover.
* `ManifestFindsBlocks` of `Bench`: it rests on what a fold over bytes computes, and on
  account numbers that fit four bytes, where those of the model grow without a bound.
* What is computed by assumptions of the `MC...` modules (section 2).

Induction over data is done by sets: the library's induction theorems take an operator,
which no installed prover can instantiate, but "a set that holds 0 and all successors holds
every natural" (`NatSetInduction`, from the well-foundedness of `<`) does not.  What
is proved by it is a membership.  `SumTheorems` derives from it what `SumFunctionOnSet`
means, and the other modules use only its lemmas.

## 7 Abstractions

* SHA-256 commitments, Keccak and Pedersen commitments are injective; CC-Groth16 is
  complete and sound: a proof verifies for the statement it was made for, if the circuit
  is satisfied, and for no other.  The challenge of a batch is not predictable.  A
  prover's key is determined by seed and batch size.
* Sleeps, gauges, latencies, logs and page layout are left out.  The runner's drop
  counter is zero or not.No counter of the code comes near 2^64 and none wraps, totals
  of transactions included; the only conversion that wraps is that of a negative `-batch-size`.
* `TxPerBlock` multiplies float64 in the code.  The model multiplies integers and subtracts
  one for the pairs of rate and block time in `FloatBelow`, whose float64 product falls
  just below a whole number.  `MCFloatBelow` is the table of these up to 100 tps and 1.5 s.
* Synthetic senders are 1000 apart per block instead of 1000000, and the receiver is a sum
  instead of an XOR: distinct, as in the code.
* Files: a write that is cut off leaves a torn line or a cut-off file, which no reader
  takes for a whole one.
* The demo states of the exporter are alike for every lane, as in the code.
* The chain's pool holds a transaction until it can be included and never drops it; a
  transaction is not replaced by one of equal nonce.
* The daemons' messages hold decoded frames; `Frames` shows what the coding does.
  Writing a record to the stream and reading it is one step: what the old connection had
  buffered is read before ingress starts again.  Ingress starts again at a block it is
  given (`-start-block`).  The aggregator has a `-proof-endpoint`.  The replayer's settings
  are its data set, seed and byte to flip; the seed may differ from the L1 node's.
* Writing the proof book's map from two handlers at once either goes well or ends the
  replayer, as the Go runtime may detect it (`BookRace`).
* In `Daemons` a request ends when it is answered or broken; a handler whose caller has
  gone runs on.

## 8 Disagreements between code and text

* `pipeline_happy`.  Each consumer of the runner loads the done flag *after* it found its
  queue empty (`runner.go:182-184`, also 240 and 304).  The producer's last enqueue and its
  flag may both fall in between; the consumer leaves and the item stays queued.  A run
  without faults then fails, which `runner_test.go:46-48` says it must not.  Loading the
  flag before trying the queue would do.
* `proofctl_burst`.  `runSubmitBurst` multiplies by the number of transactions sent and
  does not look at the receipts' status (`main.go:972`), so a reverted call counts as
  certified throughput, against `docs/current state.md:145`.

## 9 What the code does not promise

Found while looking for properties; the properties are stated so that they do not claim
these.

* After a restart of the sequencer a block may mix transactions of both runs, because
  block numbers start again while lanes of the old run wait (`CertifiedWhole` is about
  the first run).  An ingress that starts again at a block repeats the transactions of
  that block it had written (`EachTxOnce` counts what was written).
* The replayer daemon's handlers write the proof book's map without a lock
  (`proof.go:38`); requests that overlap may end the process.
* With more lanes than a 16-bit lane id has values, which `Validate` allows, no block is
  ever finished; the run ends only when it is cancelled (`RunReturns`).  The daemons answer
  every lane with ok all the same, and the aggregator keeps every block (`OkMeansSubmitted`).
* A batch may end at infinity, which unsets its lane: `verifyBatches` does not look at the
  next head.  The circuit lets this happen only to a lane of total 0, this crate's prover never does
  it, but anybody may submit a proof, and anybody may initialize the lane afterwards
  (`LaneIsChain` and `TotalPreserved` say what still holds).
* With a negative `-batch-size` the exporter proves with its default, and a dashboard that
  merges shows the total of the option (`dashboard.go:540`).
* A configuration whose rate or duration does not come out of whole blocks is accepted
  and can never pass (`PassExactly`, `Exact`).  So can one whose product float64 puts
  just below a whole number, such as 45 tps in blocks of 1.4 s.
* The generator numbers the blocks of a warm-up with a duration and no rate, the runner
  skips them: the two then number certification blocks differently (`SameNumbering`).
* The error of the CSV's deferred flush is lost (`report.go`); the CSV may be cut off
  under a printed verdict.  Two runs of one second write the same report files.
* A transaction to an address without code succeeds, so a command that is given a wrong
  address reports success.  `init-vk` has no option to skip a key that is set: after a lost
  answer it fails ("vk already initialized"), so a script that initializes a verifier it
  has not deployed is not one of those `Resumes` is about.
* `scripts/run-kaia-16p6s-repeat.sh` reads `.aggregate_receipt_tps` from the output of
  `submit-multisender-burst`, which does not print it; its summary is not part of the model.
* The dashboard's phase "failed", shown for an error of its HTTP server, is written over
  by the next phase of the workflow.  The error itself stays, and "completed" is not
  reached (`CompletedMeansCertified`, `PhaseAdvances`).
* The prover does not compare a debit with the balance: an overdraft wraps in the field
  and keeps the total (`BuilderMeetsReference` has such cases).
* A rerun of a burst stops at the first certifier that has certified the bundle before.

## 10 Not modelled

* `Bn254.sol` and the VECTIS library: curve and field arithmetic, without state.
* The text of reports, the page of the dashboard, the metrics' Prometheus text, rates and
  latencies: output that nothing reads back.  The receipt throughput of `kaia-proofctl` is
  computed from block time stamps of whole seconds and is left out with them.
* Parsing of flags, JSON and hex, and the answers to malformed requests, which no daemon
  sends; `api.go`, the records of the messages.
* `kaia-proofctl`'s `discover`, `account-status` and `generate-key`, which only read or
  print; `AggregateCommitment` of `proof.go`, which nothing calls.

## 11 Plan

Done: ring queue with its abstract specification and its theorems; L1 node; runner with
its abstract specification; configuration and proof book; data sets, reports and
orchestrator; contracts and prover; proof control with deployments and scripts; bundles;
dashboard; daemons with ingress and restarts; frames.  Proved: ring with both refinements, L1
node, contracts and prover, operators at the contracts, runner with its refinement,
daemons across restarts, the orchestrator's files, the dashboard (section 6).

Open, in this order.

1. `ManifestFindsBlocks`: needs account numbers of four bytes in `Bench` and what the fold
   over bytes in `Frames` computes.
2. The bundles of `ProofCtl` that do follow on one another: "at most once" then becomes
   "each at most once", by the chain of heads that `RollupProofs` has for one contract.
