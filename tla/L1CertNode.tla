----------------------------- MODULE L1CertNode -----------------------------
(***************************************************************************)
(* internal/pipeline/l1.go: the certification node that checks a block's   *)
(* proof and payload, applies its transactions once and keeps a log.       *)
(* SubmitCertifiedBlock holds the node's mutex throughout, so a submission *)
(* is one step.                                                            *)
(*                                                                         *)
(* A commitment is the pair it hashes: SHA-256 is taken to be injective.   *)
(* Latencies are left out.                                                 *)
(***************************************************************************)
EXTENDS ProofBook, FiniteSets, Functions

CONSTANTS Accounts,    \* sender and receiver indexes
          ProofSeed,   \* the seed the node derives expected proofs from
          Requests,    \* the submissions that may arrive
          MaxSubmits   \* bound: number of submissions

\* frame.Tx12, its amount unsigned.
Transactions == [sender : Accounts, receiver : Accounts, amount : Nat]

ASSUME SubmitsAssumption  == MaxSubmits \in Nat
ASSUME RequestsAssumption == \A req \in Requests : req.txs \in Seq(Transactions)

VARIABLES blocks,        \* accepted blocks by index
          blockLog,      \* one entry per submission
          state,         \* balance of every account
          stateVersion,  \* number of blocks applied
          verifiedTx,    \* metrics counter cert_l1_verified_tps
          answer         \* the last response, with the block and payload it is about

l1vars == <<blocks, blockLog, state, stateVersion, verifiedTx, answer>>

CommitmentFromTxs(block, txs) == <<block, txs>>

NoAnswer == [accepted |-> FALSE]

Init == /\ blocks = <<>>
        /\ blockLog = <<>>
        /\ state = [a \in Accounts |-> 0]
        /\ stateVersion = 0
        /\ verifiedTx = 0
        /\ answer = NoAnswer

-----------------------------------------------------------------------------
\* Mutant: the proof's bytes are not compared.
ProofOKIgnoresBytes(req) == /\ req.proof.block = req.block
                            /\ req.proof.commitment = req.commitment

ProofOK(req) == /\ req.proof.bytes = GenerateProofBytes(ProofSeed, req.block)
                /\ req.proof.block = req.block
                /\ req.proof.commitment = req.commitment

PayloadOK(req) == /\ req.txCount = Len(req.txs)
                  /\ \A i \in DOMAIN req.txs : req.txs[i].amount # 0
                  /\ CommitmentFromTxs(req.block, req.txs) = req.commitment

\* Mutant: the credit is computed from the balance before the debit.
TransferStaleCredit(balances, tx) ==
    [balances EXCEPT ![tx.sender] = balances[tx.sender] - tx.amount,
                     ![tx.receiver] = balances[tx.receiver] + tx.amount]

Transfer(balances, tx) ==
    LET debited == [balances EXCEPT ![tx.sender] = @ - tx.amount]
    IN  [debited EXCEPT ![tx.receiver] = @ + tx.amount]

\* One transaction after the other.
applyTxs(balances, txs) ==
    LET after[i \in 0..Len(txs)] == IF i = 0 THEN balances ELSE Transfer(after[i - 1], txs[i])
    IN  after[Len(txs)]

Touched(txs) == UNION {{txs[i].sender, txs[i].receiver} : i \in DOMAIN txs}

LogEntry(req, verified, finalized, duplicate, applied, version, delta) ==
    [phase |-> req.phase, block |-> req.block, txCount |-> req.txCount,
     proofVerified |-> verified, finalized |-> finalized, duplicate |-> duplicate,
     stateApplied |-> applied, stateVersion |-> version, deltaCount |-> delta,
     commitment |-> req.commitment]

Respond(req, entry, accepted, duplicate, proofOK) ==
    /\ blockLog' = Append(blockLog, entry)
    /\ answer' = [block |-> req.block, txs |-> req.txs, accepted |-> accepted,
                  duplicate |-> duplicate, proofOK |-> proofOK, finalized |-> accepted]

\* Mutant: a block is known only if it is the same.
KnownOnlyIfSame(req) == /\ req.block \in DOMAIN blocks
                        /\ blocks[req.block].commitment = req.commitment

Known(req) == req.block \in DOMAIN blocks

Same(req) == /\ blocks[req.block].commitment = req.commitment
             /\ blocks[req.block].txCount = req.txCount

\* Mutant: a duplicate bumps the state version.
SubmitDuplicateBumpsVersion(req) ==
    /\ Known(req) /\ Same(req)
    /\ LET known == blocks[req.block] IN
       Respond(req, LogEntry(req, ProofOK(req), ProofOK(req), TRUE, FALSE,
                             known.stateVer, known.deltaCount),
               ProofOK(req) /\ PayloadOK(req), TRUE, ProofOK(req))
    /\ stateVersion' = stateVersion + 1
    /\ UNCHANGED <<blocks, state, verifiedTx>>

\* Mutant: a duplicate's log entry is not marked as one.
SubmitDuplicateNotMarked(req) ==
    /\ Known(req) /\ Same(req)
    /\ LET known == blocks[req.block] IN
       Respond(req, LogEntry(req, ProofOK(req), ProofOK(req), FALSE, FALSE,
                             known.stateVer, known.deltaCount),
               ProofOK(req) /\ PayloadOK(req), TRUE, ProofOK(req))
    /\ UNCHANGED <<blocks, state, stateVersion, verifiedTx>>

\* Mutant: the answer to a duplicate looks at the proof alone, as its log
\* entry does.
SubmitDuplicateOnProofAlone(req) ==
    /\ Known(req) /\ Same(req)
    /\ LET known == blocks[req.block] IN
       Respond(req, LogEntry(req, ProofOK(req), ProofOK(req), TRUE, FALSE,
                             known.stateVer, known.deltaCount),
               ProofOK(req), TRUE, ProofOK(req))
    /\ UNCHANGED <<blocks, state, stateVersion, verifiedTx>>

\* Nothing is applied again; the log says finalized on the proof alone, the
\* response also looks at the payload.
SubmitDuplicate(req) ==
    /\ Known(req) /\ Same(req)
    /\ LET known == blocks[req.block] IN
       Respond(req, LogEntry(req, ProofOK(req), ProofOK(req), TRUE, FALSE,
                             known.stateVer, known.deltaCount),
               ProofOK(req) /\ PayloadOK(req), TRUE, ProofOK(req))
    /\ UNCHANGED <<blocks, state, stateVersion, verifiedTx>>

SubmitConflict(req) ==
    /\ Known(req) /\ ~Same(req)
    /\ Respond(req, LogEntry(req, FALSE, FALSE, FALSE, FALSE, stateVersion, Len(req.txs)),
               FALSE, TRUE, FALSE)
    /\ UNCHANGED <<blocks, state, stateVersion, verifiedTx>>

SubmitBadPayload(req) ==
    /\ ~Known(req) /\ ~PayloadOK(req)
    /\ Respond(req, LogEntry(req, ProofOK(req), FALSE, FALSE, FALSE, stateVersion, Len(req.txs)),
               FALSE, FALSE, ProofOK(req))
    /\ UNCHANGED <<blocks, state, stateVersion, verifiedTx>>

SubmitBadProof(req) ==
    /\ ~Known(req) /\ PayloadOK(req) /\ ~ProofOK(req)
    /\ Respond(req, LogEntry(req, FALSE, FALSE, FALSE, FALSE, stateVersion, Len(req.txs)),
               FALSE, FALSE, FALSE)
    /\ UNCHANGED <<blocks, state, stateVersion, verifiedTx>>

Accepted(req, version) ==
    [commitment |-> req.commitment, txCount |-> req.txCount, stateVer |-> version,
     deltaCount |-> Cardinality(Touched(req.txs))]

SubmitAccepted(req) ==
    /\ ~Known(req) /\ PayloadOK(req) /\ ProofOK(req)
    /\ state' = applyTxs(state, req.txs)
    /\ stateVersion' = stateVersion + 1
    /\ blocks' = [b \in DOMAIN blocks \cup {req.block} |->
                    IF b = req.block THEN Accepted(req, stateVersion + 1) ELSE blocks[b]]
    /\ verifiedTx' = verifiedTx + req.txCount
    /\ Respond(req, LogEntry(req, TRUE, TRUE, FALSE, TRUE, stateVersion + 1,
                             Cardinality(Touched(req.txs))), TRUE, FALSE, TRUE)

SubmitCertifiedBlock(req) == \/ SubmitDuplicate(req)  \/ SubmitConflict(req)
                             \/ SubmitBadPayload(req) \/ SubmitBadProof(req)
                             \/ SubmitAccepted(req)

\* The end of a bounded run.
NoMoreSubmits == Len(blockLog) = MaxSubmits /\ UNCHANGED l1vars

Next == \/ /\ Len(blockLog) < MaxSubmits
           /\ \E req \in Requests : SubmitCertifiedBlock(req)
        \/ NoMoreSubmits

Spec == Init /\ [][Next]_l1vars

-----------------------------------------------------------------------------
(* Properties *)

\* What a payload does to one account, from the transactions' meaning.
Amounts(txs)     == [i \in DOMAIN txs |-> txs[i].amount]
Received(txs, a) == SumFunctionOnSet(Amounts(txs), {i \in DOMAIN txs : txs[i].receiver = a})
Sent(txs, a)     == SumFunctionOnSet(Amounts(txs), {i \in DOMAIN txs : txs[i].sender = a})
Net(txs, a)      == Received(txs, a) - Sent(txs, a)

PayloadOf(b) == blocks[b].commitment[2]

(***************************************************************************)
(* Every balance is what the accepted blocks' payloads add up to, each     *)
(* counted once, however often and in whatever order blocks were submitted *)
(* and resubmitted, with whatever proofs and payloads.                     *)
(***************************************************************************)
LedgerIsReplay == \A a \in Accounts :
    state[a] = SumFunctionOnSet([b \in DOMAIN blocks |-> Net(PayloadOf(b), a)], DOMAIN blocks)

\* The log entries up to the i-th whose block was applied.
AppliedUpTo(i) == {j \in 1..i : blockLog[j].stateApplied}

(***************************************************************************)
(* State versions number the accepted blocks 1..stateVersion without gap   *)
(* or repetition, and the log shows them in that order.                    *)
(***************************************************************************)
VersionsDense ==
    /\ {blocks[b].stateVer : b \in DOMAIN blocks} = 1..stateVersion
    /\ Cardinality(DOMAIN blocks) = stateVersion
    /\ Cardinality(AppliedUpTo(Len(blockLog))) = stateVersion
    /\ \A i \in AppliedUpTo(Len(blockLog)) : blockLog[i].stateVersion = Cardinality(AppliedUpTo(i))

\* The log entries that buildReport counts as certified.
Certified(log) == {i \in DOMAIN log : log[i].finalized /\ log[i].proofVerified /\ ~log[i].duplicate}

(***************************************************************************)
(* The three books agree: what buildReport adds up from the log, what the  *)
(* verified-transactions counter says and what the accepted blocks hold.   *)
(* A duplicate that is logged as finalized is counted by none of them.     *)
(***************************************************************************)
BooksAgree ==
    /\ verifiedTx = SumFunctionOnSet([i \in DOMAIN blockLog |-> blockLog[i].txCount],
                                     Certified(blockLog))
    /\ verifiedTx = SumFunctionOnSet([b \in DOMAIN blocks |-> blocks[b].txCount], DOMAIN blocks)

(***************************************************************************)
(* A submitter that is told its block is accepted, at once or as a         *)
(* duplicate, finds exactly the payload it sent in the ledger.             *)
(***************************************************************************)
AcceptedMeansApplied ==
    answer.accepted =>
        /\ answer.block \in DOMAIN blocks
        /\ PayloadOf(answer.block) = answer.txs
        /\ blocks[answer.block].txCount = Len(answer.txs)

(***************************************************************************)
(* An accepted block is final: no later submission replaces it, and no     *)
(* balance moves without a new version.                                    *)
(***************************************************************************)
AcceptedIsFinal == [][/\ \A b \in DOMAIN blocks : b \in DOMAIN blocks' /\ blocks'[b] = blocks[b]
                      /\ state' # state => stateVersion' = stateVersion + 1]_l1vars
=============================================================================
