------------------------------ MODULE ProofCtl ------------------------------
(***************************************************************************)
(* cmd/kaia-proofctl/main.go: the commands that send transactions to a     *)
(* Kaia endpoint, run by several operators at once against the contracts   *)
(* of LaneHeads.                                                           *)
(*                                                                         *)
(* A command is a list of jobs (one transaction each) taken through        *)
(* PendingNonceAt, EstimateGas, SendTransaction and waitForReceipt.  The   *)
(* commands differ in how the four are ordered:                            *)
(*   sequential  one job after the other, all four steps each;             *)
(*   burst       one nonce for all, then estimate and send job by job,     *)
(*               then all receipts;                                        *)
(*   upfront     nonce and estimate of every job, then all sends, then all *)
(*               receipts;                                                 *)
(*   estimate    an estimate and nothing else.                             *)
(* An operator runs a script of commands, as scripts/ and docs/ do: the    *)
(* contract that one command deploys is an argument of a later one, and a  *)
(* failing command ends the script, which may be run again from its start. *)
(*                                                                         *)
(* Every RPC is a step and may fail, SendTransaction also after the node   *)
(* has taken the transaction.  Waiting for confirmations only delays a     *)
(* receipt, and the context's timeout of a sequential command is one of    *)
(* the failures.  Times are left out.                                      *)
(***************************************************************************)
EXTENDS Bundles, FiniteSets

CONSTANTS Senders,      \* accounts with a private key
          Scenarios,    \* by name, [script, contracts, env, maxRuns]: the scripts that are run,
                        \* the contracts that exist, their names, and a bound: how often a script
                        \* is run
          MaxFaults     \* bound: RPC failures

ASSUME RunsAssumption ==
    /\ MaxFaults \in Nat
    /\ \A s \in DOMAIN Scenarios : \A p \in DOMAIN Scenarios[s].script : Scenarios[s].maxRuns[p] \in Nat \ {0}

VARIABLES scenario,   \* the name of the scenario that happens
          nonce,      \* chain: the next nonce of every sender
          pool,       \* chain: transactions that are not in a block yet
          receipt,    \* chain: the receipts, by transaction
          contracts,  \* chain: the contracts, by address
          proc,       \* the scripts: [pc, run, i, nonces, lanes, env, reported]; reported
                      \* has an entry for every command that has printed its result
          faults      \* RPC failures so far

chain   == <<nonce, pool, receipt, contracts>>
ctlVars == <<scenario, chain, proc, faults>>

Scripts  == Scenarios[scenario].script
Procs    == DOMAIN Scripts
AllProcs == UNION {DOMAIN Scenarios[s].script : s \in DOMAIN Scenarios}

\* The command that script p is at: [kind, keys, to, as, bundle, ...]; to and as are
\* the names of contracts.
CommandNo(p) == Len(proc[p].reported) + 1
Command(p)   == Scripts[p][CommandNo(p)]

-----------------------------------------------------------------------------
(* Commands *)

\* The orders in which a command takes its jobs through the four steps.
Burst   == {"submit-burst", "fund-accounts"}
Upfront == {"submit-multisender-burst"}

Deploys == {"deploy-verifier", "deploy-certifier"}
Submit  == {"submit-bundle", "submit-burst", "submit-multisender-burst"}

\* The recipient of a transaction that creates a contract.
Nil == <<>>

Verifier(admin)     == [admin |-> admin, key |-> NoKey]
Certifier(verifier) == [verifier |-> verifier, heads |-> Unset, total |-> 0]

DeployVerifierJobs(c) ==
    <<[from |-> c.keys[1], to |-> Nil, call |-> [op |-> "create", contract |-> Verifier(c.keys[1])]]>>

DeployCertifierJobs(c, to) ==
    <<[from |-> c.keys[1], to |-> Nil, call |-> [op |-> "create", contract |-> Certifier(to[1])]]>>

\* init-lane-heads: one transaction in bulk, or one for every lane; lanes are the
\* lane heads of the bundle that it has found unset.
InitLaneHeadsJobs(c, to, lanes) ==
    LET InitJob(ls) == [from |-> c.keys[1], to |-> to[1],
                        call |-> [op |-> "init", lanes |-> [k \in DOMAIN ls |-> ls[k].laneId],
                                  points |-> [k \in DOMAIN ls |-> ls[k].initialHead]]]
    IN  IF ~c.bulk           THEN [k \in DOMAIN lanes |-> InitJob(<<lanes[k]>>)]
        ELSE IF lanes = <<>> THEN <<>>
        ELSE <<InitJob(lanes)>>

InitVerifyingKeyJobs(c, to) ==
    <<[from |-> c.keys[1], to |-> to[1], call |-> [op |-> "vk", key |-> c.bundle.key]]>>

FundJobs(c, to) == [k \in DOMAIN to |-> [from |-> c.keys[1], to |-> to[k], call |-> [op |-> "pay"]]]

\* submit-bundle and estimate-bundle have one certifier, the bursts have a list of them.
SubmitJobs(c, to) ==
    [k \in DOMAIN to |-> [from |-> IF c.kind \in Upfront THEN c.keys[k] ELSE c.keys[1],
                          to   |-> to[k],
                          call |-> [op |-> "verify", artifacts |-> c.bundle.artifacts]]]

\* The transactions of the command that script p is at.
Jobs(p) ==
    LET c  == Command(p)
        to == [k \in DOMAIN c.to |-> proc[p].env[c.to[k]]]
    IN  CASE c.kind = "deploy-verifier"  -> DeployVerifierJobs(c)
          [] c.kind = "deploy-certifier" -> DeployCertifierJobs(c, to)
          [] c.kind = "init-lane-heads"  -> InitLaneHeadsJobs(c, to, proc[p].lanes)
          [] c.kind = "init-vk"          -> InitVerifyingKeyJobs(c, to)
          [] c.kind = "fund-accounts"    -> FundJobs(c, to)
          [] OTHER                       -> SubmitJobs(c, to)

Job(p) == Jobs(p)[proc[p].i]

\* Where a command begins; without skipExisting no lane head is read.
Start(st, c) ==
    [st EXCEPT !.pc = CASE c.kind = "init-lane-heads" /\ c.skipExisting -> "read"
                        [] c.kind = "estimate-bundle" -> "build"
                        [] OTHER -> "nonce",
               !.i = 1, !.nonces = <<>>,
               !.lanes = IF c.kind = "init-lane-heads" /\ ~c.skipExisting THEN c.bundle.laneHeads
                         ELSE <<>>]

StartScript(p, run) ==
    Start([pc |-> "", run |-> run, i |-> 1, nonces |-> <<>>, lanes |-> <<>>,
           env |-> Scenarios[scenario].env, reported |-> <<>>],
          Scripts[p][1])

CtlInit == /\ scenario \in DOMAIN Scenarios
           /\ nonce = [s \in Senders |-> 0]
           /\ pool = {}
           /\ receipt = <<>>
           /\ contracts = Scenarios[scenario].contracts
           /\ proc = [p \in Procs |-> StartScript(p, 1)]
           /\ faults = 0

-----------------------------------------------------------------------------
(* What the scenarios are *)

\* The bundles that ExportBundle and MergeBundles make: one artifact for each lane, and
\* a total that is theirs.
BundleOK(b) ==
    /\ b.artifacts \in Seq(Range(b.artifacts)) /\ b.artifacts # <<>>
    /\ \A i \in DOMAIN b.artifacts : b.artifacts[i].laneId \in LaneIds /\ b.artifacts[i].next \in Points
    /\ \A i, j \in DOMAIN b.artifacts : b.artifacts[i].laneId = b.artifacts[j].laneId => i = j
    /\ b.verifiedTxTotal = SumTxCount(b.artifacts)

\* A lane on which bundle b does not go on where bundle a ends.
DoesNotFollow(b, a) == \E i \in DOMAIN a.artifacts, j \in DOMAIN b.artifacts :
    a.artifacts[i].laneId = b.artifacts[j].laneId /\ a.artifacts[i].next # b.artifacts[j].prev

\* A command that its flag checks let through: it has a key and a contract for every
\* transaction, and a bundle or lane heads where it needs them.
CommandOK(c) ==
    /\ c.kind \in Deploys \cup Submit \cup {"init-lane-heads", "init-vk", "fund-accounts", "estimate-bundle"}
    /\ c.keys \in Seq(Senders) /\ c.keys # <<>> /\ c.to \in Seq(STRING)
    /\ c.kind \in Upfront => Len(c.keys) = Len(c.to)
    /\ c.kind \in Submit \cup {"estimate-bundle", "fund-accounts"} => c.to # <<>>
    /\ c.kind \in Submit \cup {"estimate-bundle"} => BundleOK(c.bundle)
    /\ c.kind = "init-lane-heads" =>
          /\ c.bundle.laneHeads \in Seq([laneId : LaneIds, initialHead : Points])
          /\ c.bundle.laneHeads # <<>>

\* The name n is given to the script with a contract, or the first k commands deploy one.
Known(S, script, k, n) ==
    \/ n \in DOMAIN S.env /\ S.env[n] \in DOMAIN S.contracts
    \/ \E j \in 1..k : script[j].kind \in Deploys /\ script[j].as = n

\* The contracts that exist have certified nothing, the scripts submit to contracts,
\* and their bundles do not follow on one another.
ScenarioOK(S) ==
    /\ \A a \in DOMAIN S.contracts :
          /\ a \notin Senders \X Nat
          /\ "total" \in DOMAIN S.contracts[a] =>
                /\ DOMAIN S.contracts[a] = {"verifier", "heads", "total"}
                /\ S.contracts[a].heads \in Heads /\ S.contracts[a].total = 0
    /\ \A p \in DOMAIN S.script : LET script == S.script[p] IN
          /\ script \in Seq(Range(script)) /\ script # <<>>
          /\ \A k \in DOMAIN script :
                /\ CommandOK(script[k])
                /\ script[k].kind \in Submit =>
                      \A n \in DOMAIN script[k].to : Known(S, script, k - 1, script[k].to[n])
    /\ \A p, q \in DOMAIN S.script : \A j \in DOMAIN S.script[p], k \in DOMAIN S.script[q] :
          S.script[p][j].kind \in Submit /\ S.script[q][k].kind \in Submit
              => DoesNotFollow(S.script[p][j].bundle, S.script[q][k].bundle)

ScenariosOK == \A s \in DOMAIN Scenarios : ScenarioOK(Scenarios[s])

ASSUME ScenariosAssumption == ScenariosOK

-----------------------------------------------------------------------------
(* The chain, as the RPC client sees it *)

\* A call as it would run, or does run, on the latest state.  A call to an address
\* without a contract does nothing and succeeds.
Succeeds(from, to, call) ==
    LET c == contracts[to] IN
    \/ call.op \in {"pay", "create"} \/ to \notin DOMAIN contracts
    \/ call.op = "verify" /\ VerifyOK(contracts[c.verifier].key, c.heads, call.artifacts)
    \/ call.op = "init"   /\ InitializeOK(c.heads, call.lanes, call.points)
    \/ call.op = "vk"     /\ from = c.admin /\ c.key = NoKey

\* What a call that succeeds makes of the contract.
Called(c, call) ==
    CASE call.op = "verify" -> [c EXCEPT !.heads = HeadsVerified(@, call.artifacts),
                                         !.total = @ + VerifiedTx(call.artifacts)]
      [] call.op = "init"   -> [c EXCEPT !.heads = HeadsAfter(@, call.lanes, call.points)]
      [] call.op = "vk"     -> [c EXCEPT !.key = call.key]
      [] call.op = "pay"    -> c

PendingNonceAt(s) ==
    CHOOSE n \in nonce[s]..(nonce[s] + Cardinality(pool)) :
        /\ \A m \in nonce[s]..(n - 1) : \E tx \in pool : tx.from = s /\ tx.nonce = m
        /\ \A tx \in pool : ~(tx.from = s /\ tx.nonce = n)

\* The node refuses a used nonce and a second transaction with the same one.
Acceptable(tx) == /\ tx.nonce >= nonce[tx.from]
                  /\ \A other \in pool : ~(other.from = tx.from /\ other.nonce = tx.nonce)

Put(f, x, v) == [y \in DOMAIN f \cup {x} |-> IF y = x THEN v ELSE f[y]]

\* The address of a contract follows from its creator and the nonce.
CreateAddress(tx) == <<tx.from, tx.nonce>>

\* A block includes a transaction whose turn it is; a failed require reverts it.
IncludeTransaction(tx) ==
    /\ tx \in pool /\ tx.nonce = nonce[tx.from]
    /\ LET call   == tx.call
           ok     == Succeeds(tx.from, tx.to, call)
           at     == IF call.op = "create" THEN CreateAddress(tx) ELSE tx.to
           exists == tx.to \in DOMAIN contracts
       IN  /\ receipt' = Put(receipt, tx.id,
                 [ok |-> ok, at |-> at,
                  certified |-> IF ok /\ exists /\ call.op = "verify" THEN VerifiedTx(call.artifacts) ELSE 0])
           /\ contracts' = IF call.op = "create" THEN Put(contracts, at, call.contract)
                           ELSE IF ok /\ exists  THEN [contracts EXCEPT ![at] = Called(@, call)]
                           ELSE contracts
    /\ nonce' = [nonce EXCEPT ![tx.from] = @ + 1]
    /\ pool' = pool \ {tx}
    /\ UNCHANGED <<scenario, proc, faults>>

-----------------------------------------------------------------------------
(* The steps of a command *)

Go(p, st) == proc' = [proc EXCEPT ![p] = st]
At(p, pc) == p \in Procs /\ proc[p].pc = pc

Fails(p) == Go(p, [proc[p] EXCEPT !.pc = "failed"])

TxId(p) == <<p, proc[p].run, CommandNo(p), proc[p].i>>

\* printJSON: what the command reports as verified.  The script keeps the address of
\* a new contract, which is in the receipt, and goes on to its next command.
Finished(p) ==
    LET c    == Command(p)
        st   == [proc[p] EXCEPT
                   !.reported = Append(@, IF c.kind \in Submit THEN c.bundle.verifiedTxTotal * Len(c.to) ELSE 0),
                   !.env = IF c.kind \in Deploys
                           THEN Put(@, c.as, receipt[TxId(p)].at) ELSE @]
        next == CommandNo(p) + 1
    IN  IF next \in DOMAIN Scripts[p] THEN Start(st, Scripts[p][next])
        ELSE [st EXCEPT !.pc = "done", !.nonces = <<>>]

\* Mutant: a lane is initialized although it has a head.
ReadLaneHeadIgnoresHead(p) ==
    /\ At(p, "read")
    /\ LET c     == Command(p)
           st    == proc[p]
           found == Append(st.lanes, c.bundle.laneHeads[st.i])
       IN  Go(p, IF st.i < Len(c.bundle.laneHeads) THEN [st EXCEPT !.i = @ + 1, !.lanes = found]
                 ELSE [st EXCEPT !.pc = "nonce", !.i = 1, !.lanes = found])
    /\ UNCHANGED <<scenario, chain, faults>>

\* init-lane-heads looks at one lane head after the other; an address without a
\* contract has no answer.
ReadLaneHead(p) ==
    /\ At(p, "read")
    /\ LET c     == Command(p)
           st    == proc[p]
           to    == st.env[c.to[1]]
           lane  == c.bundle.laneHeads[st.i]
           found == IF isSet(contracts[to].heads[lane.laneId]) THEN st.lanes
                                                               ELSE Append(st.lanes, lane)
       IN  IF to \notin DOMAIN contracts THEN Fails(p)
           ELSE Go(p, IF st.i < Len(c.bundle.laneHeads) THEN [st EXCEPT !.i = @ + 1, !.lanes = found]
                      ELSE IF found = <<>> THEN Finished(p)
                      ELSE [st EXCEPT !.pc = "nonce", !.i = 1, !.lanes = found])
    /\ UNCHANGED <<scenario, chain, faults>>

\* Mutant: the nonce of a burst is advanced twice for every transaction.
ReadNonceLeavesGap(p) ==
    /\ At(p, "nonce")
    /\ LET st == proc[p]
           n  == PendingNonceAt(Job(p).from)
       IN  Go(p, [st EXCEPT !.pc = "build",
                            !.nonces = IF Command(p).kind \in Burst
                                       THEN [k \in DOMAIN Jobs(p) |-> n + 2 * (k - 1)]
                                       ELSE Append(@, n)])
    /\ UNCHANGED <<scenario, chain, faults>>

\* A burst numbers its transactions from one nonce.
ReadNonce(p) ==
    /\ At(p, "nonce")
    /\ LET st == proc[p]
           n  == PendingNonceAt(Job(p).from)
       IN  Go(p, [st EXCEPT !.pc = "build",
                            !.nonces = IF Command(p).kind \in Burst
                                       THEN [k \in DOMAIN Jobs(p) |-> n + k - 1]
                                       ELSE Append(@, n)])
    /\ UNCHANGED <<scenario, chain, faults>>

\* With a gas limit (KAIA_GAS_LIMIT) only estimate-bundle still estimates.
Estimates(c) == ~c.gasLimitSet \/ c.kind = "estimate-bundle"

\* buildSignedTransactionValue: a call whose estimate reverts fails here.
BuildTransaction(p) ==
    /\ At(p, "build")
    /\ LET st == proc[p]
           j  == Job(p)
       IN  \/ /\ Estimates(Command(p)) => Succeeds(j.from, j.to, j.call)
              /\ Go(p, IF Command(p).kind = "estimate-bundle" THEN Finished(p)
                       ELSE IF Command(p).kind \notin Upfront THEN [st EXCEPT !.pc = "send"]
                       ELSE IF st.i < Len(Jobs(p)) THEN [st EXCEPT !.pc = "nonce", !.i = @ + 1]
                       ELSE [st EXCEPT !.pc = "send", !.i = 1])
           \/ /\ Estimates(Command(p)) /\ ~Succeeds(j.from, j.to, j.call)
              /\ Fails(p)
    /\ UNCHANGED <<scenario, chain, faults>>

Signed(p) == [id |-> TxId(p), from |-> Job(p).from,
              nonce |-> proc[p].nonces[proc[p].i], to |-> Job(p).to, call |-> Job(p).call]

AfterSend(p) ==
    LET st   == proc[p]
        last == st.i = Len(Jobs(p))
        kind == Command(p).kind
    IN  CASE kind \in Burst /\ ~last   -> [st EXCEPT !.pc = "build", !.i = @ + 1]
          [] kind \in Upfront /\ ~last -> [st EXCEPT !.i = @ + 1]
          [] kind \in Burst \cup Upfront /\ last -> [st EXCEPT !.pc = "wait", !.i = 1]
          [] OTHER -> [st EXCEPT !.pc = "wait"]

SendTransaction(p) ==
    /\ At(p, "send")
    /\ \/ /\ Acceptable(Signed(p))
          /\ pool' = pool \cup {Signed(p)}
          /\ Go(p, AfterSend(p))
       \/ ~Acceptable(Signed(p)) /\ Fails(p) /\ UNCHANGED pool
    /\ UNCHANGED <<scenario, nonce, receipt, contracts, faults>>

\* Mutant: no command looks at receipt.Status.
ChecksStatusNever(kind) == FALSE

\* submit-burst is the one command that does not look at receipt.Status.
ChecksStatus(kind) == kind # "submit-burst"

WaitForReceipt(p) ==
    /\ At(p, "wait")
    /\ TxId(p) \in DOMAIN receipt
    /\ LET st == proc[p] IN
       IF receipt[TxId(p)].ok \/ ~ChecksStatus(Command(p).kind)
       THEN Go(p, IF st.i = Len(Jobs(p)) THEN Finished(p)
                  ELSE [st EXCEPT !.i = @ + 1,
                          !.pc = IF Command(p).kind \in Burst \cup Upfront THEN "wait" ELSE "nonce"])
       ELSE Fails(p)
    /\ UNCHANGED <<scenario, chain, faults>>

\* An RPC fails, or the context of a sequential command runs out; a transaction
\* on its way may have reached the node.
RpcFails(p) ==
    /\ proc[p].pc \in {"read", "nonce", "build", "send", "wait"}
    /\ faults < MaxFaults
    /\ faults' = faults + 1
    /\ Fails(p)
    /\ \/ UNCHANGED pool
       \/ At(p, "send") /\ Acceptable(Signed(p)) /\ pool' = pool \cup {Signed(p)}
    /\ UNCHANGED <<scenario, nonce, receipt, contracts>>

\* The operator runs a script again that has failed.
Rerun(p) == /\ At(p, "failed") /\ proc[p].run < Scenarios[scenario].maxRuns[p]
            /\ Go(p, StartScript(p, proc[p].run + 1))
            /\ UNCHANGED <<scenario, chain, faults>>

Step(p) == \/ ReadLaneHead(p) \/ ReadNonce(p) \/ BuildTransaction(p)
           \/ SendTransaction(p) \/ WaitForReceipt(p)

CtlNext == \/ \E p \in Procs : Step(p) \/ RpcFails(p) \/ Rerun(p)
           \/ \E tx \in pool : IncludeTransaction(tx)

CtlSpec == CtlInit /\ [][CtlNext]_ctlVars

\* A command runs on, a failed script is run again, and blocks keep coming.
FairSpec == /\ CtlSpec
            /\ \A p \in AllProcs : WF_ctlVars(Step(p)) /\ WF_ctlVars(Rerun(p))
            /\ WF_ctlVars(\E tx \in pool : IncludeTransaction(tx))

-----------------------------------------------------------------------------
(* Properties *)

Certifications(a) == {id \in DOMAIN receipt : receipt[id].at = a /\ receipt[id].certified > 0}

(***************************************************************************)
(* A bundle is certified at most once by a certifier, however many         *)
(* operators submit it, however often after a lost answer or a timeout,    *)
(* and whichever of their transactions a block takes first; the contract's *)
(* total agrees with the receipts.                                         *)
(***************************************************************************)
BundleCertifiedOnce ==
    \A a \in DOMAIN contracts : "total" \in DOMAIN contracts[a] =>
        /\ Cardinality(Certifications(a)) <= 1
        /\ contracts[a].total =
             SumFunctionOnSet([id \in DOMAIN receipt |-> receipt[id].certified], Certifications(a))

(***************************************************************************)
(* docs/current state.md: "total certified volume", and TPS is "certified  *)
(* throughput": what a command reports as verified is what its own         *)
(* transactions have certified, at the contracts that the script has       *)
(* deployed before or was given.                                           *)
(***************************************************************************)
ReportIsCertified == \A p \in Procs : \A k \in DOMAIN proc[p].reported :
    LET c == Scripts[p][k] IN
    c.kind \in Submit =>
        proc[p].reported[k] =
            SumFunctionOnSet([i \in DOMAIN c.to |-> receipt[<<p, proc[p].run, k, i>>].certified], DOMAIN c.to)

(***************************************************************************)
(* Every command ends: no two of them can leave each other waiting for a   *)
(* receipt or a nonce, even if they share an account.                      *)
(***************************************************************************)
EveryCommandEnds == \A p \in AllProcs : []<>(p \in Procs => proc[p].pc \in {"done", "failed"})

\* Commands that do not depend on what earlier runs have left: they deploy a contract,
\* use only contracts of the same run, or skip the lanes that are set already.
Repeatable(script, k) ==
    \/ script[k].kind \in Deploys
    \/ script[k].kind = "init-lane-heads" /\ script[k].skipExisting
    \/ \A n \in DOMAIN script[k].to : \E j \in 1..(k - 1) : script[k].to[n] = script[j].as

(***************************************************************************)
(* A script of repeatable commands (init-lane-heads with its defaults, the *)
(* preflight sequence, scripts/run-kaia-16p6s-repeat.sh) can be resumed:   *)
(* run again after every failure, whatever contracts, lane heads and       *)
(* pending transactions its failed runs and another operator have left     *)
(* behind, it ends with success within maxRuns runs.                       *)
(***************************************************************************)
Resumes == \A p \in AllProcs :
    (p \in Procs /\ \A k \in DOMAIN Scripts[p] : Repeatable(Scripts[p], k))
        => <>At(p, "done")
=============================================================================
