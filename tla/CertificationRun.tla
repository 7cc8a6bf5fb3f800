-------------------------- MODULE CertificationRun --------------------------
(***************************************************************************)
(* What one run of the benchmark promises, whatever its goroutines do:     *)
(* blocks 0, 1, 2, ... of the workload are submitted in order, each whole  *)
(* and with the outcome its proof deserves; the run may stop short; and    *)
(* its verdict is "passed" only if every certification block was certified *)
(* and together they are the configured rate over the configured time.     *)
(*                                                                         *)
(* Pipeline implements this specification; Bench builds on it.             *)
(***************************************************************************)
EXTENDS Workload

VARIABLES runner,      \* [cfg, proofBook]
          submitted,   \* the outcomes of the blocks submitted so far
          verdict      \* "running", "passed" or "failed"

Outcome(b) == [block |-> b, txs |-> Range(TxsOf(runner.cfg, b)), finalized |-> ~Spoilt(runner, b)]

Begin == submitted = <<>> /\ verdict = "running"

SubmitNext ==
    /\ verdict = "running"
    /\ Len(submitted) < TotalBlocks(runner.cfg)
    /\ submitted' = Append(submitted, Outcome(Len(submitted)))
    /\ UNCHANGED <<runner, verdict>>

Certified == {submitted[i].block : i \in {j \in DOMAIN submitted : submitted[j].finalized}}

MayPass == CertificationBlocks(runner.cfg) \subseteq Certified /\ Exact(runner.cfg)

Conclude ==
    /\ verdict = "running"
    /\ verdict' \in IF MayPass THEN {"passed", "failed"} ELSE {"failed"}
    /\ UNCHANGED <<runner, submitted>>

runVars == <<runner, submitted, verdict>>

RunSpec == Begin /\ [][SubmitNext \/ Conclude]_runVars
=============================================================================
