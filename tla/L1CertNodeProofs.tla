-------------------------- MODULE L1CertNodeProofs --------------------------
(***************************************************************************)
(* Proofs about L1CertNode for every set of submissions, in any order and  *)
(* of any number.                                                          *)
(***************************************************************************)
EXTENDS L1CertNode, SumTheorems

\* What a submission that is not accepted as a new block leaves alone.
Rejected(req) == \/ SubmitDuplicate(req)  \/ SubmitConflict(req)
                 \/ SubmitBadPayload(req) \/ SubmitBadProof(req)

\* A submission that is rejected leaves the ledger alone.
LEMMA RejectedChangesNothing ==
    ASSUME NEW req, Rejected(req) PROVE UNCHANGED <<blocks, state, stateVersion, verifiedTx>>
  BY DEF Rejected, SubmitDuplicate, SubmitConflict, SubmitBadPayload, SubmitBadProof

\* What a new block changes, its effect on the balances aside.
LEMMA AcceptedChanges ==
    ASSUME NEW req, SubmitAccepted(req)
    PROVE  /\ req.block \notin DOMAIN blocks
           /\ req.txCount = Len(req.txs) /\ req.commitment = <<req.block, req.txs>>
           /\ DOMAIN blocks' = DOMAIN blocks \cup {req.block}
           /\ \A b \in DOMAIN blocks : blocks'[b] = blocks[b]
           /\ blocks'[req.block].commitment = req.commitment
           /\ blocks'[req.block].txCount = req.txCount
           /\ blocks'[req.block].stateVer = stateVersion + 1
           /\ stateVersion' = stateVersion + 1
           /\ verifiedTx' = verifiedTx + req.txCount
  BY DEF SubmitAccepted, Known, PayloadOK, CommitmentFromTxs, Accepted

(***************************************************************************)
(* Whoever is told that a block is accepted finds the payload it sent in   *)
(* the ledger: on the first submission and on every later one.             *)
(***************************************************************************)
THEOREM AcceptedIsApplied == Spec => []AcceptedMeansApplied
  <1>1. Init => AcceptedMeansApplied  BY DEF Init, NoAnswer, AcceptedMeansApplied
  <1>2. AcceptedMeansApplied /\ [Next]_l1vars => AcceptedMeansApplied'
    <2> SUFFICES ASSUME AcceptedMeansApplied, [Next]_l1vars PROVE AcceptedMeansApplied'
      OBVIOUS
    <2>1. ASSUME NEW req \in Requests, SubmitDuplicate(req) PROVE AcceptedMeansApplied'
      <3>1. answer' = [block |-> req.block, txs |-> req.txs,
                       accepted |-> ProofOK(req) /\ PayloadOK(req),
                       duplicate |-> TRUE, proofOK |-> ProofOK(req),
                       finalized |-> ProofOK(req) /\ PayloadOK(req)]
        BY <2>1 DEF SubmitDuplicate, Respond
      <3>2. /\ answer'.block = req.block /\ answer'.txs = req.txs
            /\ answer'.accepted = (ProofOK(req) /\ PayloadOK(req))
        BY <3>1
      <3>3. answer'.accepted => PayloadOK(req)  BY <3>2
      <3>4. PayloadOK(req) => req.txCount = Len(req.txs) /\ req.commitment[2] = req.txs
        BY DEF PayloadOK, CommitmentFromTxs
      <3>5. /\ req.block \in DOMAIN blocks /\ blocks' = blocks
            /\ blocks[req.block].commitment = req.commitment
            /\ blocks[req.block].txCount = req.txCount
        BY <2>1 DEF SubmitDuplicate, Known, Same
      <3>6. QED  BY <3>2, <3>3, <3>4, <3>5 DEF AcceptedMeansApplied, PayloadOf
    <2>2. ASSUME NEW req \in Requests,
                 SubmitConflict(req) \/ SubmitBadPayload(req) \/ SubmitBadProof(req)
          PROVE  AcceptedMeansApplied'
      <3>1. PICK entry, dup, proofOK : Respond(req, entry, FALSE, dup, proofOK)
        BY <2>2 DEF SubmitConflict, SubmitBadPayload, SubmitBadProof
      <3>2. answer'.accepted = FALSE  BY <3>1 DEF Respond
      <3>3. QED  BY <3>2 DEF AcceptedMeansApplied
    <2>3. ASSUME NEW req \in Requests, SubmitAccepted(req) PROVE AcceptedMeansApplied'
      <3>1. answer'.block = req.block /\ answer'.txs = req.txs
        BY <2>3 DEF SubmitAccepted, Respond
      <3>2. /\ req.block \in DOMAIN blocks' /\ req.txCount = Len(req.txs)
            /\ blocks'[req.block].commitment = <<req.block, req.txs>>
            /\ blocks'[req.block].txCount = req.txCount
        BY <2>3, AcceptedChanges
      <3>3. <<req.block, req.txs>>[2] = req.txs  OBVIOUS
      <3>4. QED  BY <3>1, <3>2, <3>3 DEF AcceptedMeansApplied, PayloadOf
    <2>4. CASE UNCHANGED l1vars  BY <2>4 DEF l1vars, AcceptedMeansApplied, PayloadOf
    <2>5. QED  BY <2>1, <2>2, <2>3, <2>4 DEF Next, SubmitCertifiedBlock, NoMoreSubmits
  <1>3. QED  BY <1>1, <1>2, PTL DEF Spec

(***************************************************************************)
(* An accepted block is final, and no balance moves without a new version. *)
(***************************************************************************)
THEOREM AcceptedStaysFinal == Spec => AcceptedIsFinal
  <1>1. ASSUME [Next]_l1vars
        PROVE  [/\ \A b \in DOMAIN blocks : b \in DOMAIN blocks' /\ blocks'[b] = blocks[b]
                /\ state' # state => stateVersion' = stateVersion + 1]_l1vars
    <2>1. ASSUME NEW req \in Requests, Rejected(req)
          PROVE  blocks' = blocks /\ state' = state
      BY <2>1, RejectedChangesNothing
    <2>2. ASSUME NEW req \in Requests, SubmitAccepted(req)
          PROVE  /\ \A b \in DOMAIN blocks : b \in DOMAIN blocks' /\ blocks'[b] = blocks[b]
                 /\ stateVersion' = stateVersion + 1
      BY <2>2, AcceptedChanges
    <2>3. QED  BY <1>1, <2>1, <2>2 DEF Next, SubmitCertifiedBlock, NoMoreSubmits, Rejected
  <1>2. QED  BY <1>1, PTL DEF Spec, AcceptedIsFinal

-----------------------------------------------------------------------------
(* State versions. *)

\* The log is a sequence; the accepted blocks are finitely many and are numbered.
LogType == \E E : blockLog \in Seq(E)

Numbered == /\ stateVersion \in Nat
            /\ IsFiniteSet(DOMAIN blocks) /\ Cardinality(DOMAIN blocks) = stateVersion
            /\ {blocks[b].stateVer : b \in DOMAIN blocks} = 1..stateVersion

LoggedInOrder ==
    /\ Cardinality(AppliedUpTo(Len(blockLog))) = stateVersion
    /\ \A i \in AppliedUpTo(Len(blockLog)) : blockLog[i].stateVersion = Cardinality(AppliedUpTo(i))

VersionInv == LogType /\ Numbered /\ LoggedInOrder

\* What is logged about a submission.
LEMMA Logged ==
    ASSUME NEW req, SubmitCertifiedBlock(req)
    PROVE  \E entry : /\ blockLog' = Append(blockLog, entry)
                      /\ Rejected(req) => entry.stateApplied = FALSE
                      /\ SubmitAccepted(req) => /\ entry.stateApplied = TRUE
                                                /\ entry.stateVersion = stateVersion + 1
  <1>1. CASE SubmitAccepted(req)
    <2> DEFINE entry == LogEntry(req, TRUE, TRUE, FALSE, TRUE, stateVersion + 1,
                                 Cardinality(Touched(req.txs)))
    <2>1. blockLog' = Append(blockLog, entry)  BY <1>1 DEF SubmitAccepted, Respond
    <2>2. entry.stateApplied = TRUE /\ entry.stateVersion = stateVersion + 1  BY DEF LogEntry
    <2>3. ~Rejected(req)
      BY <1>1 DEF Rejected, SubmitAccepted, SubmitDuplicate, SubmitConflict,
                  SubmitBadPayload, SubmitBadProof
    <2>4. QED  BY <2>1, <2>2, <2>3
  <1>2. CASE Rejected(req)
    <2>1. PICK v, f, d, n, c : blockLog' = Append(blockLog, LogEntry(req, v, f, d, FALSE, n, c))
      BY <1>2 DEF Rejected, SubmitDuplicate, SubmitConflict, SubmitBadPayload, SubmitBadProof,
                  Respond
    <2>2. LogEntry(req, v, f, d, FALSE, n, c).stateApplied = FALSE  BY DEF LogEntry
    <2>3. ~SubmitAccepted(req)
      BY <1>2 DEF Rejected, SubmitAccepted, SubmitDuplicate, SubmitConflict,
                  SubmitBadPayload, SubmitBadProof
    <2>4. QED  BY <2>1, <2>2, <2>3
  <1>3. QED  BY <1>1, <1>2 DEF SubmitCertifiedBlock, Rejected

\* The applied entries of a log and of its extension by one entry.
AppliedIn(log, i) == {j \in 1..i : log[j].stateApplied}

Extended(E, log, entry, n) ==
    LET new == Append(log, entry)
    IN  /\ n \in Nat /\ Len(new) = n + 1 /\ new \in Seq(E \cup {entry})
        /\ \A i \in 1..n : new[i] = log[i]
        /\ new[n + 1] = entry
        /\ \A i \in 0..n : AppliedIn(new, i) = AppliedIn(log, i)
        /\ entry.stateApplied = FALSE => AppliedIn(new, n + 1) = AppliedIn(log, n)
        /\ entry.stateApplied = TRUE => AppliedIn(new, n + 1) = AppliedIn(log, n) \cup {n + 1}
        /\ IsFiniteSet(AppliedIn(log, n)) /\ n + 1 \notin AppliedIn(log, n)

\* An entry that is appended to the log leaves what the earlier ones say.
LEMMA AppliedAppend ==
    ASSUME NEW E, NEW log \in Seq(E), NEW entry PROVE Extended(E, log, entry, Len(log))
  <1> DEFINE n == Len(log)
  <1> DEFINE new == Append(log, entry)
  <1>1. /\ n \in Nat /\ Len(new) = n + 1 /\ new \in Seq(E \cup {entry})
        /\ new[n + 1] = entry
    OBVIOUS
  <1>2. \A i \in 1..n : new[i] = log[i]  OBVIOUS
  <1> HIDE DEF new
  <1>3. ASSUME NEW i \in 0..n PROVE AppliedIn(new, i) = AppliedIn(log, i)
    <2>1. \A j \in 1..i : new[j] = log[j]  BY <1>1, <1>2
    <2>2. QED  BY <2>1 DEF AppliedIn
  <1>4. 1..(n + 1) = (1..n) \cup {n + 1}  BY <1>1
  <1>5. ASSUME entry.stateApplied = FALSE PROVE AppliedIn(new, n + 1) = AppliedIn(log, n)
    BY <1>1, <1>2, <1>4, <1>5 DEF AppliedIn
  <1>6. ASSUME entry.stateApplied = TRUE
        PROVE  AppliedIn(new, n + 1) = AppliedIn(log, n) \cup {n + 1}
    BY <1>1, <1>2, <1>4, <1>6 DEF AppliedIn
  <1>7. IsFiniteSet(AppliedIn(log, n)) /\ n + 1 \notin AppliedIn(log, n)
    <2>1. AppliedIn(log, n) \in SUBSET (1..n) /\ IsFiniteSet(1..n)
      BY <1>1, FS_Interval DEF AppliedIn
    <2>2. QED  BY <1>1, <2>1, FS_Subset
  <1>8. QED  BY <1>1, <1>2, <1>3, <1>5, <1>6, <1>7 DEF new, Extended

\* A new block gets the next version, and its entry shows it.
LEMMA NextVersionInv == VersionInv /\ [Next]_l1vars => VersionInv'
  <1> SUFFICES ASSUME VersionInv, [Next]_l1vars PROVE VersionInv'  OBVIOUS
  <1> DEFINE n == Len(blockLog)
  <1>1. PICK E : blockLog \in Seq(E)  BY DEF VersionInv, LogType
  <1>2. /\ stateVersion \in Nat /\ IsFiniteSet(DOMAIN blocks)
        /\ Cardinality(DOMAIN blocks) = stateVersion
        /\ {blocks[b].stateVer : b \in DOMAIN blocks} = 1..stateVersion
    BY DEF VersionInv, Numbered
  <1>3. /\ Cardinality(AppliedIn(blockLog, n)) = stateVersion
        /\ \A i \in AppliedIn(blockLog, n) :
               blockLog[i].stateVersion = Cardinality(AppliedIn(blockLog, i))
    BY DEF VersionInv, LoggedInOrder, AppliedIn, AppliedUpTo
  <1>4. \A i : AppliedUpTo(i)' = AppliedIn(blockLog', i)  BY DEF AppliedUpTo, AppliedIn
  <1>a. n = Len(blockLog)  OBVIOUS
  <1> HIDE DEF n
  <1>5. ASSUME NEW req, SubmitCertifiedBlock(req) PROVE VersionInv'
    <2>1. PICK entry : /\ blockLog' = Append(blockLog, entry)
                       /\ Rejected(req) => entry.stateApplied = FALSE
                       /\ SubmitAccepted(req) => /\ entry.stateApplied = TRUE
                                                 /\ entry.stateVersion = stateVersion + 1
      BY <1>5, Logged
    <2> DEFINE new == Append(blockLog, entry)
    <2>2. /\ n \in Nat /\ Len(new) = n + 1 /\ new \in Seq(E \cup {entry})
          /\ \A i \in 1..n : new[i] = blockLog[i]
          /\ new[n + 1] = entry
          /\ \A i \in 0..n : AppliedIn(new, i) = AppliedIn(blockLog, i)
          /\ entry.stateApplied = FALSE => AppliedIn(new, n + 1) = AppliedIn(blockLog, n)
          /\ entry.stateApplied = TRUE =>
                AppliedIn(new, n + 1) = AppliedIn(blockLog, n) \cup {n + 1}
          /\ IsFiniteSet(AppliedIn(blockLog, n)) /\ n + 1 \notin AppliedIn(blockLog, n)
      <3>1. Extended(E, blockLog, entry, n)  BY <1>1, <1>a, AppliedAppend
      <3>2. QED  BY <3>1 DEF Extended
    <2>3. LogType'  BY <2>1, <2>2 DEF LogType
    <2>4. ASSUME NEW i \in AppliedIn(blockLog, n)
          PROVE  new[i].stateVersion = Cardinality(AppliedIn(new, i))
      <3>1. i \in 1..n /\ i \in 0..n  BY <2>2 DEF AppliedIn
      <3>2. QED  BY <1>3, <2>2, <3>1
    <2>5. Len(blockLog') = n + 1 /\ blockLog' = new  BY <2>1, <2>2
    <2> HIDE DEF new
    <2>6. CASE Rejected(req)
      <3>1. UNCHANGED <<blocks, stateVersion>>  BY <2>6, RejectedChangesNothing
      <3>2. AppliedIn(new, n + 1) = AppliedIn(blockLog, n)  BY <2>1, <2>2, <2>6
      <3>3. Numbered'  BY <1>2, <3>1 DEF Numbered
      <3>4. LoggedInOrder'  BY <1>3, <1>4, <2>4, <2>5, <3>1, <3>2 DEF LoggedInOrder
      <3>5. QED  BY <2>3, <3>3, <3>4 DEF VersionInv
    <2>7. CASE SubmitAccepted(req)
      <3>1. /\ req.block \notin DOMAIN blocks /\ DOMAIN blocks' = DOMAIN blocks \cup {req.block}
            /\ \A b \in DOMAIN blocks : blocks'[b] = blocks[b]
            /\ blocks'[req.block].stateVer = stateVersion + 1
            /\ stateVersion' = stateVersion + 1
        BY <2>7, AcceptedChanges
      <3>2. IsFiniteSet(DOMAIN blocks') /\ Cardinality(DOMAIN blocks') = stateVersion'
        BY <1>2, <3>1, FS_AddElement
      <3>3. {blocks'[b].stateVer : b \in DOMAIN blocks'} = 1..stateVersion'
        <4>1. 1..stateVersion' = (1..stateVersion) \cup {stateVersion + 1}  BY <1>2, <3>1
        <4>2. {blocks'[b].stateVer : b \in DOMAIN blocks'}
                = {blocks[b].stateVer : b \in DOMAIN blocks} \cup {stateVersion + 1}
          BY <3>1
        <4>3. QED  BY <1>2, <4>1, <4>2
      <3>4. Numbered'  BY <1>2, <3>1, <3>2, <3>3 DEF Numbered
      <3>5. /\ entry.stateVersion = stateVersion + 1
            /\ AppliedIn(new, n + 1) = AppliedIn(blockLog, n) \cup {n + 1}
        BY <2>1, <2>2, <2>7
      <3>6. Cardinality(AppliedIn(new, n + 1)) = stateVersion + 1
        <4>1. PICK A : A = AppliedIn(blockLog, n)  OBVIOUS
        <4>2. IsFiniteSet(A) /\ n + 1 \notin A /\ Cardinality(A) = stateVersion  BY <1>3, <2>2, <4>1
        <4>3. Cardinality(A \cup {n + 1}) = stateVersion + 1  BY <4>2, FS_AddElement
        <4>4. QED  BY <3>5, <4>1, <4>3
      <3>7. ASSUME NEW i \in AppliedIn(new, n + 1)
            PROVE  new[i].stateVersion = Cardinality(AppliedIn(new, i))
        <4>1. CASE i = n + 1  BY <2>2, <3>5, <3>6, <4>1
        <4>2. CASE i # n + 1  BY <2>4, <3>5, <4>2
        <4>3. QED  BY <4>1, <4>2
      <3>8. LoggedInOrder'  BY <1>4, <2>5, <3>1, <3>6, <3>7 DEF LoggedInOrder
      <3>9. QED  BY <2>3, <3>4, <3>8 DEF VersionInv
    <2>8. QED  BY <1>5, <2>6, <2>7 DEF SubmitCertifiedBlock, Rejected
  <1>6. CASE UNCHANGED l1vars
    BY <1>6 DEF l1vars, VersionInv, LogType, Numbered, LoggedInOrder, AppliedUpTo
  <1>7. QED  BY <1>5, <1>6 DEF Next, NoMoreSubmits

\* The empty ledger is at version 0.
LEMMA InitVersionInv == Init => VersionInv
  <1> SUFFICES ASSUME Init PROVE VersionInv  OBVIOUS
  <1>1. blocks = <<>> /\ blockLog = <<>> /\ stateVersion = 0  BY DEF Init
  <1>2. DOMAIN blocks = {} /\ Len(blockLog) = 0 /\ blockLog \in Seq({})  BY <1>1
  <1>3. AppliedUpTo(Len(blockLog)) = {}  BY <1>2 DEF AppliedUpTo
  <1>4. IsFiniteSet({}) /\ Cardinality({}) = 0  BY FS_EmptySet
  <1>5. Numbered  BY <1>1, <1>2, <1>4 DEF Numbered
  <1>6. LoggedInOrder  BY <1>1, <1>3, <1>4 DEF LoggedInOrder
  <1>7. LogType  BY <1>2 DEF LogType
  <1>8. QED  BY <1>5, <1>6, <1>7 DEF VersionInv

\* Versions count the accepted blocks in every reachable state.
LEMMA VersionInvHolds == Spec => []VersionInv
  BY InitVersionInv, NextVersionInv, PTL DEF Spec

(***************************************************************************)
(* State versions number the accepted blocks 1, 2, 3, ... without gap or   *)
(* repetition and the log shows them in order: rejected submissions and    *)
(* duplicates consume none, however many there are.                        *)
(***************************************************************************)
THEOREM VersionsAreDense == Spec => []VersionsDense
  <1>1. VersionInv => VersionsDense
    BY DEF VersionInv, Numbered, LoggedInOrder, VersionsDense
  <1>2. QED  BY <1>1, VersionInvHolds, PTL

-----------------------------------------------------------------------------
(* The balances. *)

\* A transaction takes the amount from the sender and gives it to the receiver,
\* who may be the same account.
LEMMA TransferEffect ==
    ASSUME NEW bal \in [Accounts -> Int], NEW tx \in Transactions
    PROVE  /\ Transfer(bal, tx) \in [Accounts -> Int]
           /\ \A a \in Accounts : Transfer(bal, tx)[a]
                 = (bal[a] + (IF tx.receiver = a THEN tx.amount ELSE 0))
                   - (IF tx.sender = a THEN tx.amount ELSE 0)
  <1>1. tx.sender \in Accounts /\ tx.receiver \in Accounts /\ tx.amount \in Nat
    BY DEF Transactions
  <1> DEFINE debited == [bal EXCEPT ![tx.sender] = @ - tx.amount]
  <1>2. debited \in [Accounts -> Int]  BY <1>1
  <1>3. \A a \in Accounts : debited[a] = bal[a] - (IF tx.sender = a THEN tx.amount ELSE 0)
    BY <1>1
  <1>4. Transfer(bal, tx) = [debited EXCEPT ![tx.receiver] = @ + tx.amount]  BY DEF Transfer
  <1> HIDE DEF debited
  <1>5. Transfer(bal, tx) \in [Accounts -> Int]  BY <1>1, <1>2, <1>4
  <1>6. ASSUME NEW a \in Accounts
        PROVE  Transfer(bal, tx)[a] = debited[a] + (IF tx.receiver = a THEN tx.amount ELSE 0)
    BY <1>1, <1>2, <1>4
  <1>7. QED  BY <1>1, <1>3, <1>5, <1>6

\* run holds the balances after each of the first n transactions.
IsRun(run, bal, txs, n) ==
    run = [i \in 0..n |-> IF i = 0 THEN bal ELSE Transfer(run[i - 1], txs[i])]

\* applyTxs, with its table of intermediate balances named.
LEMMA ApplyByRun ==
    ASSUME NEW bal, NEW txs
    PROVE  applyTxs(bal, txs) = (CHOOSE run : IsRun(run, bal, txs, Len(txs)))[Len(txs)]
  BY DEF applyTxs, IsRun

\* The loop of applyTxs has balances after each transaction.
LEMMA RunExists == ASSUME NEW bal, NEW txs, NEW n \in Nat PROVE \E run : IsRun(run, bal, txs, n)
  <1> DEFINE N == {k \in Nat : \E run : IsRun(run, bal, txs, k)}
  <1>1. 0 \in N
    <2>1. 0..0 = {0}  OBVIOUS
    <2>2. IsRun([i \in 0..0 |-> bal], bal, txs, 0)  BY <2>1 DEF IsRun
    <2>3. QED  BY <2>2
  <1>2. ASSUME NEW k \in Nat, k \in N PROVE k + 1 \in N
    <2>1. PICK old : IsRun(old, bal, txs, k)  BY <1>2
    <2> DEFINE new == [i \in 0..(k + 1) |-> IF i = 0 THEN bal ELSE Transfer(old[i - 1], txs[i])]
    <2>2. ASSUME NEW i \in 0..k PROVE i \in 0..(k + 1) /\ new[i] = old[i]
      <3>1. old[i] = IF i = 0 THEN bal ELSE Transfer(old[i - 1], txs[i])  BY <2>1 DEF IsRun
      <3>2. i \in 0..(k + 1)  OBVIOUS
      <3>3. QED  BY <3>1, <3>2
    <2>3. ASSUME NEW i \in 0..(k + 1)
          PROVE  new[i] = IF i = 0 THEN bal ELSE Transfer(new[i - 1], txs[i])
      <3>1. i # 0 => i - 1 \in 0..k  OBVIOUS
      <3>2. i # 0 => new[i - 1] = old[i - 1]  BY <2>2, <3>1
      <3>3. new[i] = IF i = 0 THEN bal ELSE Transfer(old[i - 1], txs[i])  OBVIOUS
      <3> HIDE DEF new
      <3>4. QED  BY <3>2, <3>3
    <2>4. new = [i \in 0..(k + 1) |-> new[i]]  OBVIOUS
    <2> HIDE DEF new
    <2>5. IsRun(new, bal, txs, k + 1)  BY <2>3, <2>4 DEF IsRun
    <2>6. k + 1 \in Nat  OBVIOUS
    <2>7. QED  BY <2>5, <2>6
  <1>3. n \in N
    <2> HIDE DEF N
    <2>1. QED  BY <1>1, <1>2, NatSetInduction
  <1>4. QED  BY <1>3

\* What the first n transactions do to account a.
ReceivedUpTo(txs, n, a) == SumFunctionOnSet(Amounts(txs), {i \in 1..n : txs[i].receiver = a})
SentUpTo(txs, n, a)     == SumFunctionOnSet(Amounts(txs), {i \in 1..n : txs[i].sender = a})

\* One more transaction adds its amount to what its receiver got, and to what its sender paid.
LEMMA UpToStep ==
    ASSUME NEW txs \in Seq(Transactions), NEW n \in Nat, n + 1 <= Len(txs), NEW a
    PROVE  /\ ReceivedUpTo(txs, n, a) \in Int /\ SentUpTo(txs, n, a) \in Int
           /\ ReceivedUpTo(txs, n + 1, a) = ReceivedUpTo(txs, n, a)
                 + (IF txs[n + 1].receiver = a THEN txs[n + 1].amount ELSE 0)
           /\ SentUpTo(txs, n + 1, a) = SentUpTo(txs, n, a)
                 + (IF txs[n + 1].sender = a THEN txs[n + 1].amount ELSE 0)
  <1> DEFINE f == Amounts(txs)
             R(k) == {i \in 1..k : txs[i].receiver = a}
             P(k) == {i \in 1..k : txs[i].sender = a}
  <1>1. ASSUME NEW i \in 1..(n + 1) PROVE f[i] = txs[i].amount /\ f[i] \in Int
    <2>1. i \in 1..Len(txs)  OBVIOUS
    <2>2. txs[i] \in Transactions  BY <2>1
    <2>3. QED  BY <2>1, <2>2 DEF Amounts, Transactions
  <1>2. 1..(n + 1) = (1..n) \cup {n + 1} /\ n + 1 \notin 1..n  OBVIOUS
  <1>3. IsFiniteSet(R(n)) /\ IsFiniteSet(P(n))
    <2>1. R(n) \in SUBSET (1..n) /\ P(n) \in SUBSET (1..n) /\ IsFiniteSet(1..n)  BY FS_Interval
    <2>2. QED  BY <2>1, FS_Subset
  <1>4. f[n + 1] = txs[n + 1].amount /\ f[n + 1] \in Int  BY <1>1
  <1> HIDE DEF f
  <1>5. Summable(f, R(n)) /\ Summable(f, P(n))  BY <1>1, <1>3 DEF Summable
  <1>6. n + 1 \notin R(n) /\ n + 1 \notin P(n)  OBVIOUS
  <1>7. R(n + 1) = IF txs[n + 1].receiver = a THEN R(n) \cup {n + 1} ELSE R(n)  BY <1>2
  <1>8. P(n + 1) = IF txs[n + 1].sender = a THEN P(n) \cup {n + 1} ELSE P(n)  BY <1>2
  <1> HIDE DEF R, P
  <1>9. SumFunctionOnSet(f, R(n)) \in Int /\ SumFunctionOnSet(f, P(n)) \in Int
    BY <1>5, SumType
  <1>10. SumFunctionOnSet(f, R(n + 1)) = SumFunctionOnSet(f, R(n))
             + (IF txs[n + 1].receiver = a THEN txs[n + 1].amount ELSE 0)
    <2>1. CASE txs[n + 1].receiver = a
      <3>1. SumFunctionOnSet(f, R(n) \cup {n + 1}) = SumFunctionOnSet(f, R(n)) + f[n + 1]
        BY <1>4, <1>5, <1>6, SumAdd
      <3>2. QED  BY <1>4, <1>7, <2>1, <3>1
    <2>2. CASE txs[n + 1].receiver # a  BY <1>7, <1>9, <2>2
    <2>3. QED  BY <2>1, <2>2
  <1>11. SumFunctionOnSet(f, P(n + 1)) = SumFunctionOnSet(f, P(n))
             + (IF txs[n + 1].sender = a THEN txs[n + 1].amount ELSE 0)
    <2>1. CASE txs[n + 1].sender = a
      <3>1. SumFunctionOnSet(f, P(n) \cup {n + 1}) = SumFunctionOnSet(f, P(n)) + f[n + 1]
        BY <1>4, <1>5, <1>6, SumAdd
      <3>2. QED  BY <1>4, <1>8, <2>1, <3>1
    <2>2. CASE txs[n + 1].sender # a  BY <1>8, <1>9, <2>2
    <2>3. QED  BY <2>1, <2>2
  <1>12. QED  BY <1>9, <1>10, <1>11 DEF f, R, P, ReceivedUpTo, SentUpTo

\* Nothing is received or sent by no transaction.
LEMMA UpToZero ==
    ASSUME NEW txs, NEW a PROVE ReceivedUpTo(txs, 0, a) = 0 /\ SentUpTo(txs, 0, a) = 0
  <1>1. {i \in 1..0 : txs[i].receiver = a} = {} /\ {i \in 1..0 : txs[i].sender = a} = {}
    OBVIOUS
  <1>2. QED  BY <1>1, SumEmpty DEF ReceivedUpTo, SentUpTo

\* What applyTxs computes, for every payload: each account's balance moves by what the
\* payload's transactions mean for it, self transfers and repeated accounts included.
LEMMA ApplyEffect ==
    ASSUME NEW bal \in [Accounts -> Int], NEW txs \in Seq(Transactions)
    PROVE  /\ applyTxs(bal, txs) \in [Accounts -> Int]
           /\ \A a \in Accounts : /\ applyTxs(bal, txs)[a] = bal[a] + Net(txs, a)
                                  /\ Net(txs, a) \in Int
  <1> DEFINE n == Len(txs)
             run == CHOOSE r : IsRun(r, bal, txs, n)
             Right(k) == /\ run[k] \in [Accounts -> Int]
                         /\ \A a \in Accounts :
                               /\ ReceivedUpTo(txs, k, a) \in Int /\ SentUpTo(txs, k, a) \in Int
                               /\ run[k][a] = (bal[a] + ReceivedUpTo(txs, k, a)) - SentUpTo(txs, k, a)
             N == {k \in Nat : k <= n => Right(k)}
  <1>1. n \in Nat  OBVIOUS
  <1>2. IsRun(run, bal, txs, n)
    <2>1. \E r : IsRun(r, bal, txs, n)  BY <1>1, RunExists
    <2>2. QED  BY <2>1
  <1>3. applyTxs(bal, txs) = run[n]  BY ApplyByRun
  <1> HIDE DEF run
  <1>4. ASSUME NEW i \in 0..n PROVE run[i] = IF i = 0 THEN bal ELSE Transfer(run[i - 1], txs[i])
    BY <1>2 DEF IsRun
  <1>5. Right(0)
    <2>1. run[0] = bal  BY <1>1, <1>4
    <2>2. ASSUME NEW a \in Accounts PROVE ReceivedUpTo(txs, 0, a) = 0 /\ SentUpTo(txs, 0, a) = 0
      BY UpToZero
    <2>3. QED  BY <2>1, <2>2
  <1>6. ASSUME NEW k \in Nat, k + 1 <= n, Right(k) PROVE Right(k + 1)
    <2>1. run[k + 1] = Transfer(run[k], txs[k + 1])
      <3>1. k + 1 \in 0..n /\ k + 1 # 0 /\ (k + 1) - 1 = k  BY <1>6
      <3>2. QED  BY <1>4, <3>1
    <2>2. txs[k + 1] \in Transactions  BY <1>6
    <2>3. txs[k + 1].amount \in Int  BY <2>2 DEF Transactions
    <2>4. run[k] \in [Accounts -> Int]  BY <1>6
    <2>5. run[k + 1] \in [Accounts -> Int]  BY <2>1, <2>2, <2>4, TransferEffect
    <2>6. ASSUME NEW a \in Accounts
          PROVE  /\ ReceivedUpTo(txs, k + 1, a) \in Int /\ SentUpTo(txs, k + 1, a) \in Int
                 /\ run[k + 1][a] = (bal[a] + ReceivedUpTo(txs, k + 1, a)) - SentUpTo(txs, k + 1, a)
      <3> DEFINE in  == IF txs[k + 1].receiver = a THEN txs[k + 1].amount ELSE 0
                 out == IF txs[k + 1].sender = a THEN txs[k + 1].amount ELSE 0
      <3>1. in \in Int /\ out \in Int  BY <2>3
      <3>2. run[k + 1][a] = (run[k][a] + in) - out
        <4>1. Transfer(run[k], txs[k + 1])[a] = (run[k][a] + in) - out
          <5> DEFINE b == run[k]
                     tx == txs[k + 1]
          <5>1. b \in [Accounts -> Int] /\ tx \in Transactions  BY <2>2, <2>4
          <5> HIDE DEF b, tx
          <5>2. Transfer(b, tx)[a] = (b[a] + (IF tx.receiver = a THEN tx.amount ELSE 0))
                                         - (IF tx.sender = a THEN tx.amount ELSE 0)
            BY <5>1, TransferEffect
          <5>3. QED  BY <5>2 DEF b, tx
        <4>2. QED  BY <2>1, <4>1
      <3>3. /\ ReceivedUpTo(txs, k, a) \in Int /\ SentUpTo(txs, k, a) \in Int
            /\ ReceivedUpTo(txs, k + 1, a) = ReceivedUpTo(txs, k, a) + in
            /\ SentUpTo(txs, k + 1, a) = SentUpTo(txs, k, a) + out
        BY <1>6, UpToStep
      <3>4. run[k][a] = (bal[a] + ReceivedUpTo(txs, k, a)) - SentUpTo(txs, k, a)  BY <1>6
      <3>5. bal[a] \in Int  OBVIOUS
      <3> HIDE DEF in, out
      <3>6. QED  BY <3>1, <3>2, <3>3, <3>4, <3>5
    <2>7. QED  BY <2>5, <2>6
  <1> HIDE DEF Right
  <1>7. n \in N
    <2>1. 0 \in N  BY <1>5
    <2>2. ASSUME NEW k \in Nat, k \in N PROVE k + 1 \in N
      <3>1. k + 1 \in Nat /\ (k + 1 <= n => k <= n)  BY <1>1
      <3>2. QED  BY <1>6, <2>2, <3>1
    <2> HIDE DEF N
    <2>3. QED  BY <1>1, <2>1, <2>2, NatSetInduction
  <1>8. Right(n)  BY <1>1, <1>7
  <1>9. ASSUME NEW a \in Accounts
        PROVE  Net(txs, a) = ReceivedUpTo(txs, n, a) - SentUpTo(txs, n, a)
    <2>1. DOMAIN txs = 1..n  OBVIOUS
    <2>2. QED  BY <2>1 DEF Net, Received, Sent, ReceivedUpTo, SentUpTo
  <1> HIDE DEF n
  <1>10. QED  BY <1>3, <1>8, <1>9 DEF Right

\* What the accepted blocks do to account a, block by block.
Nets(a) == [b \in DOMAIN blocks |-> Net(PayloadOf(b), a)]

LedgerInv == /\ state \in [Accounts -> Int]
             /\ IsFiniteSet(DOMAIN blocks)
             /\ \A b \in DOMAIN blocks : PayloadOf(b) \in Seq(Transactions)
             /\ \A a \in Accounts : state[a] = SumFunctionOnSet(Nets(a), DOMAIN blocks)

\* No block, and balances of zero.
LEMMA InitLedgerInv == Init => LedgerInv
  <1> SUFFICES ASSUME Init PROVE LedgerInv  OBVIOUS
  <1>1. DOMAIN blocks = {} /\ state = [a \in Accounts |-> 0]  BY DEF Init
  <1>2. IsFiniteSet({})  BY FS_EmptySet
  <1>3. ASSUME NEW a \in Accounts PROVE SumFunctionOnSet(Nets(a), {}) = 0  BY SumEmpty
  <1>4. QED  BY <1>1, <1>2, <1>3 DEF LedgerInv

\* Accepting a block adds its payload's effect, once; nothing else moves a balance.
LEMMA NextLedgerInv == LedgerInv /\ [Next]_l1vars => LedgerInv'
  <1> SUFFICES ASSUME LedgerInv, [Next]_l1vars PROVE LedgerInv'  OBVIOUS
  <1>1. ASSUME NEW req \in Requests, SubmitAccepted(req) PROVE LedgerInv'
    <2> DEFINE new == req.block
               B   == DOMAIN blocks
    <2>1. /\ new \notin B /\ DOMAIN blocks' = B \cup {new}
          /\ \A b \in B : blocks'[b] = blocks[b]
          /\ blocks'[new].commitment = <<new, req.txs>>
      BY <1>1, AcceptedChanges
    <2>2. req.txs \in Seq(Transactions)  BY RequestsAssumption
    <2>3. state' = applyTxs(state, req.txs)  BY <1>1 DEF SubmitAccepted
    <2>4. /\ state \in [Accounts -> Int] /\ IsFiniteSet(B)
          /\ \A b \in B : PayloadOf(b) \in Seq(Transactions)
          /\ \A a \in Accounts : state[a] = SumFunctionOnSet(Nets(a), B)
      BY DEF LedgerInv
    <2>5. state' \in [Accounts -> Int]  BY <2>2, <2>3, <2>4, ApplyEffect
    <2>6. /\ \A b \in B : PayloadOf(b)' = PayloadOf(b)
          /\ PayloadOf(new)' = req.txs
      <3>1. <<new, req.txs>>[2] = req.txs  OBVIOUS
      <3>2. QED  BY <2>1, <3>1 DEF PayloadOf
    <2>7. IsFiniteSet(B \cup {new})  BY <2>4, FS_AddElement
    <2>8. ASSUME NEW a \in Accounts PROVE state'[a] = SumFunctionOnSet(Nets(a)', B \cup {new})
      <3>1. /\ state'[a] = state[a] + Net(req.txs, a) /\ Net(req.txs, a) \in Int
        BY <2>2, <2>3, <2>4, ApplyEffect
      <3>2. ASSUME NEW b \in B PROVE Nets(a)[b] \in Int
        <4>1. PayloadOf(b) \in Seq(Transactions)  BY <2>4
        <4>2. Net(PayloadOf(b), a) \in Int  BY <2>4, <4>1, ApplyEffect
        <4>3. QED  BY <4>2 DEF Nets
      <3>3. Summable(Nets(a), B)  BY <2>4, <3>2 DEF Summable
      <3>4. Nets(a)' = [b \in B \cup {new} |-> Net(PayloadOf(b)', a)]
        BY <2>1 DEF Nets, Net, Received, Sent, Amounts
      <3>5. Agree(Nets(a), Nets(a)', B)
        <4>1. \A b \in B : Nets(a)[b] = Net(PayloadOf(b), a)  BY DEF Nets
        <4>2. \A b \in B : Nets(a)'[b] = Net(PayloadOf(b)', a)  BY <3>4
        <4>3. QED  BY <2>6, <4>1, <4>2 DEF Agree
      <3>6. Nets(a)'[new] = Net(req.txs, a)  BY <2>6, <3>4
      <3>7. SumFunctionOnSet(Nets(a)', B \cup {new}) = SumFunctionOnSet(Nets(a), B) + Nets(a)'[new]
        <4> DEFINE f == Nets(a)
                   g == Nets(a)'
                   y == new
        <4>1. /\ Summable(f, B) /\ Agree(f, g, B) /\ y \notin B /\ g[y] \in Int
          BY <2>1, <3>1, <3>3, <3>5, <3>6
        <4> HIDE DEF f, g, y
        <4>2. SumFunctionOnSet(g, B \cup {y}) = SumFunctionOnSet(f, B) + g[y]
          BY <4>1, SumExtend
        <4>3. QED  BY <4>2 DEF f, g, y
      <3>8. state[a] = SumFunctionOnSet(Nets(a), B)  BY <2>4
      <3>9. QED  BY <3>1, <3>6, <3>7, <3>8
    <2>9. \A b \in B \cup {new} : PayloadOf(b)' \in Seq(Transactions)  BY <2>2, <2>4, <2>6
    <2>10. QED  BY <2>1, <2>5, <2>7, <2>8, <2>9 DEF LedgerInv
  <1>2. CASE UNCHANGED <<blocks, state>>
    BY <1>2 DEF LedgerInv, Nets, Net, Received, Sent, Amounts, PayloadOf
  <1>3. ASSUME NEW req \in Requests, Rejected(req) PROVE LedgerInv'
    BY <1>2, <1>3, RejectedChangesNothing
  <1>4. QED  BY <1>1, <1>2, <1>3 DEF Next, NoMoreSubmits, SubmitCertifiedBlock, Rejected, l1vars

(***************************************************************************)
(* The ledger is the replay of the accepted blocks: for any submissions,   *)
(* in any order and number, every balance is the sum of what each accepted *)
(* payload means for the account, each counted once.                       *)
(***************************************************************************)
THEOREM LedgerReplaysBlocks == Spec => []LedgerIsReplay
  <1>1. LedgerInv => LedgerIsReplay  BY DEF LedgerInv, LedgerIsReplay, Nets
  <1>2. QED  BY <1>1, InitLedgerInv, NextLedgerInv, PTL DEF Spec

-----------------------------------------------------------------------------
(* The books. *)

LoggedCounts == [i \in DOMAIN blockLog |-> blockLog[i].txCount]
BlockCounts  == [b \in DOMAIN blocks |-> blocks[b].txCount]

BookInv == /\ LogType
           /\ verifiedTx \in Int
           /\ Summable(LoggedCounts, Certified(blockLog))
           /\ verifiedTx = SumFunctionOnSet(LoggedCounts, Certified(blockLog))
           /\ Summable(BlockCounts, DOMAIN blocks)
           /\ verifiedTx = SumFunctionOnSet(BlockCounts, DOMAIN blocks)

\* No block, and no log.
LEMMA InitBookInv == Init => BookInv
  <1> SUFFICES ASSUME Init PROVE BookInv  OBVIOUS
  <1>1. DOMAIN blocks = {} /\ blockLog = <<>> /\ verifiedTx = 0  BY DEF Init
  <1>2. blockLog \in Seq({}) /\ Certified(blockLog) = {}  BY <1>1 DEF Certified
  <1>3. ASSUME NEW f PROVE Summable(f, {}) /\ SumFunctionOnSet(f, {}) = 0
    BY FS_EmptySet, SumEmpty DEF Summable
  <1>4. QED  BY <1>1, <1>2, <1>3 DEF BookInv, LogType

\* Which entries buildReport counts.
Counts(e) == e.finalized /\ e.proofVerified /\ ~e.duplicate

\* Only the entry of a new block counts.
LEMMA LoggedCount ==
    ASSUME NEW req, SubmitCertifiedBlock(req)
    PROVE  \E entry : /\ blockLog' = Append(blockLog, entry)
                      /\ Rejected(req) => ~Counts(entry)
                      /\ SubmitAccepted(req) => Counts(entry) /\ entry.txCount = req.txCount
  <1>1. CASE SubmitAccepted(req)
    <2> DEFINE entry == LogEntry(req, TRUE, TRUE, FALSE, TRUE, stateVersion + 1,
                                 Cardinality(Touched(req.txs)))
    <2>1. blockLog' = Append(blockLog, entry)  BY <1>1 DEF SubmitAccepted, Respond
    <2>2. Counts(entry) /\ entry.txCount = req.txCount  BY DEF LogEntry, Counts
    <2>3. ~Rejected(req)
      BY <1>1 DEF Rejected, SubmitAccepted, SubmitDuplicate, SubmitConflict,
                  SubmitBadPayload, SubmitBadProof
    <2>4. QED  BY <2>1, <2>2, <2>3
  <1>2. CASE Rejected(req)
    <2>1. \/ \E v, f, n, c : blockLog' = Append(blockLog, LogEntry(req, v, f, TRUE, FALSE, n, c))
          \/ \E v, d, n, c : blockLog' = Append(blockLog, LogEntry(req, v, FALSE, d, FALSE, n, c))
      BY <1>2 DEF Rejected, SubmitDuplicate, SubmitConflict, SubmitBadPayload, SubmitBadProof,
                  Respond
    <2>2. ASSUME NEW v, NEW f, NEW n, NEW c
          PROVE  ~Counts(LogEntry(req, v, f, TRUE, FALSE, n, c))
      BY DEF Counts, LogEntry
    <2>3. ASSUME NEW v, NEW d, NEW n, NEW c
          PROVE  ~Counts(LogEntry(req, v, FALSE, d, FALSE, n, c))
      BY DEF Counts, LogEntry
    <2>4. ~SubmitAccepted(req)
      BY <1>2 DEF Rejected, SubmitAccepted, SubmitDuplicate, SubmitConflict,
                  SubmitBadPayload, SubmitBadProof
    <2>5. QED  BY <2>1, <2>2, <2>3, <2>4
  <1>3. QED  BY <1>1, <1>2 DEF SubmitCertifiedBlock, Rejected

\* The counted entries of a log and of its extension by one entry.
Recorded(E, log, entry, n, new) ==
    /\ n \in Nat /\ new \in Seq(E \cup {entry})
    /\ DOMAIN new = DOMAIN log \cup {n + 1} /\ n + 1 \notin DOMAIN log
    /\ \A i \in DOMAIN log : new[i] = log[i]
    /\ new[n + 1] = entry
    /\ ~Counts(entry) => Certified(new) = Certified(log)
    /\ Counts(entry) => Certified(new) = Certified(log) \cup {n + 1}

\* The certified entries of the log, with one entry appended.
LEMMA CertifiedAppend ==
    ASSUME NEW E, NEW log \in Seq(E), NEW entry
    PROVE  Recorded(E, log, entry, Len(log), Append(log, entry))
  <1> DEFINE n == Len(log)
             new == Append(log, entry)
  <1>1. n \in Nat /\ new \in Seq(E \cup {entry}) /\ DOMAIN log = 1..n /\ DOMAIN new = 1..(n + 1)
    OBVIOUS
  <1>2. 1..(n + 1) = (1..n) \cup {n + 1} /\ n + 1 \notin 1..n  BY <1>1
  <1>3. (\A i \in DOMAIN log : new[i] = log[i]) /\ new[n + 1] = entry  OBVIOUS
  <1> HIDE DEF n, new
  <1>4. \A i \in DOMAIN log : Counts(new[i]) <=> Counts(log[i])  BY <1>3
  <1>5. Certified(new) = {i \in DOMAIN new : Counts(new[i])}  BY DEF Certified, Counts
  <1>6. Certified(log) = {i \in DOMAIN log : Counts(log[i])}  BY DEF Certified, Counts
  <1>7. ~Counts(entry) => Certified(new) = Certified(log)
    BY <1>1, <1>2, <1>3, <1>4, <1>5, <1>6
  <1>8. Counts(entry) => Certified(new) = Certified(log) \cup {n + 1}
    BY <1>1, <1>2, <1>3, <1>4, <1>5, <1>6
  <1>9. QED  BY <1>1, <1>2, <1>3, <1>7, <1>8 DEF n, new, Recorded

\* Each submission keeps blocks, log and counter in agreement.
LEMMA NextBookInv == BookInv /\ [Next]_l1vars => BookInv'
  <1> SUFFICES ASSUME BookInv, [Next]_l1vars PROVE BookInv'  OBVIOUS
  <1>1. PICK E : blockLog \in Seq(E)  BY DEF BookInv, LogType
  <1>2. /\ verifiedTx \in Int
        /\ Summable(LoggedCounts, Certified(blockLog))
        /\ verifiedTx = SumFunctionOnSet(LoggedCounts, Certified(blockLog))
        /\ Summable(BlockCounts, DOMAIN blocks)
        /\ verifiedTx = SumFunctionOnSet(BlockCounts, DOMAIN blocks)
    BY DEF BookInv
  <1> DEFINE n == Len(blockLog)
  <1>3. ASSUME NEW req \in Requests, SubmitCertifiedBlock(req) PROVE BookInv'
    <2>1. PICK entry : /\ blockLog' = Append(blockLog, entry)
                       /\ Rejected(req) => ~Counts(entry)
                       /\ SubmitAccepted(req) => Counts(entry) /\ entry.txCount = req.txCount
      BY <1>3, LoggedCount
    <2>2. /\ n \in Nat /\ blockLog' \in Seq(E \cup {entry})
          /\ DOMAIN blockLog' = DOMAIN blockLog \cup {n + 1} /\ n + 1 \notin DOMAIN blockLog
          /\ \A i \in DOMAIN blockLog : blockLog'[i] = blockLog[i]
          /\ blockLog'[n + 1] = entry
          /\ ~Counts(entry) => Certified(blockLog') = Certified(blockLog)
          /\ Counts(entry) => Certified(blockLog') = Certified(blockLog) \cup {n + 1}
      <3>1. Recorded(E, blockLog, entry, n, blockLog')  BY <1>1, <2>1, CertifiedAppend
      <3>2. QED  BY <3>1 DEF Recorded
    <2> HIDE DEF n
    <2>3. LogType'  BY <2>2 DEF LogType
    <2>4. LoggedCounts' = [i \in DOMAIN blockLog' |-> blockLog'[i].txCount]  BY DEF LoggedCounts
    <2>5. Certified(blockLog) \subseteq DOMAIN blockLog  BY DEF Certified
    <2>6. Agree(LoggedCounts, LoggedCounts', Certified(blockLog))
      BY <2>2, <2>4, <2>5 DEF Agree, LoggedCounts
    <2>7. CASE Rejected(req)
      <3>1. UNCHANGED <<blocks, verifiedTx>>  BY <2>7, RejectedChangesNothing
      <3>2. Certified(blockLog') = Certified(blockLog)  BY <2>1, <2>2, <2>7
      <3>3. /\ Summable(LoggedCounts', Certified(blockLog'))
            /\ verifiedTx = SumFunctionOnSet(LoggedCounts', Certified(blockLog'))
        <4>1. Summable(LoggedCounts', Certified(blockLog))
          BY <1>2, <2>6 DEF Summable, Agree
        <4>2. SumFunctionOnSet(LoggedCounts, Certified(blockLog))
                = SumFunctionOnSet(LoggedCounts', Certified(blockLog))
          BY <1>2, <2>6, SumSame
        <4>3. QED  BY <1>2, <3>2, <4>1, <4>2
      <3>4. BlockCounts' = BlockCounts  BY <3>1 DEF BlockCounts
      <3>5. QED  BY <1>2, <2>3, <3>1, <3>3, <3>4 DEF BookInv
    <2>8. CASE SubmitAccepted(req)
      <3> DEFINE new == req.block
                 B   == DOMAIN blocks
                 C   == Certified(blockLog)
      <3>1. /\ new \notin B /\ DOMAIN blocks' = B \cup {new}
            /\ \A b \in B : blocks'[b] = blocks[b]
            /\ blocks'[new].txCount = req.txCount /\ req.txCount = Len(req.txs)
            /\ verifiedTx' = verifiedTx + req.txCount
        BY <2>8, AcceptedChanges
      <3>2. req.txCount \in Int  BY <3>1, RequestsAssumption
      <3>3. BlockCounts' = [b \in B \cup {new} |-> blocks'[b].txCount]  BY <3>1 DEF BlockCounts
      <3>4. Agree(BlockCounts, BlockCounts', B)  BY <3>1, <3>3 DEF Agree, BlockCounts
      <3>5. BlockCounts'[new] = req.txCount  BY <3>1, <3>3
      <3>6. Certified(blockLog') = C \cup {n + 1} /\ entry.txCount = req.txCount
        BY <2>1, <2>2, <2>8
      <3>7. LoggedCounts'[n + 1] = req.txCount  BY <2>2, <2>4, <3>6
      <3>8. n + 1 \notin C  BY <2>2, <2>5
      <3> HIDE DEF new, B, C
      <3>9. /\ Summable(BlockCounts', B \cup {new})
            /\ SumFunctionOnSet(BlockCounts', B \cup {new}) = verifiedTx + req.txCount
        <4> DEFINE f == BlockCounts
                   g == BlockCounts'
        <4>1. Summable(f, B) /\ Agree(f, g, B) /\ new \notin B /\ g[new] \in Int
          BY <1>2, <3>1, <3>2, <3>4, <3>5 DEF B
        <4>2. verifiedTx = SumFunctionOnSet(f, B) /\ g[new] = req.txCount  BY <1>2, <3>5 DEF B
        <4> HIDE DEF f, g
        <4>3. /\ Summable(g, B \cup {new})
              /\ SumFunctionOnSet(g, B \cup {new}) = SumFunctionOnSet(f, B) + g[new]
          BY <4>1, SumExtend
        <4>4. QED  BY <4>2, <4>3 DEF f, g
      <3>10. /\ Summable(LoggedCounts', C \cup {n + 1})
             /\ SumFunctionOnSet(LoggedCounts', C \cup {n + 1}) = verifiedTx + req.txCount
        <4> DEFINE f == LoggedCounts
                   g == LoggedCounts'
                   y == n + 1
        <4>1. Summable(f, C) /\ Agree(f, g, C) /\ y \notin C /\ g[y] \in Int
          BY <1>2, <2>6, <3>2, <3>7, <3>8 DEF C
        <4>2. verifiedTx = SumFunctionOnSet(f, C) /\ g[y] = req.txCount  BY <1>2, <3>7 DEF C
        <4> HIDE DEF f, g, y
        <4>3. /\ Summable(g, C \cup {y})
              /\ SumFunctionOnSet(g, C \cup {y}) = SumFunctionOnSet(f, C) + g[y]
          BY <4>1, SumExtend
        <4>4. QED  BY <4>2, <4>3 DEF f, g, y
      <3>11. verifiedTx' \in Int  BY <1>2, <3>1, <3>2
      <3>12. QED  BY <2>3, <3>1, <3>6, <3>9, <3>10, <3>11 DEF BookInv
    <2>9. QED  BY <1>3, <2>7, <2>8 DEF SubmitCertifiedBlock, Rejected
  <1>4. CASE UNCHANGED l1vars
    BY <1>4 DEF l1vars, BookInv, LogType, LoggedCounts, BlockCounts, Certified
  <1>5. QED  BY <1>3, <1>4 DEF Next, NoMoreSubmits

(***************************************************************************)
(* The report's sum over the log, the counter and the accepted blocks hold *)
(* the same number of transactions after any submissions: duplicates that  *)
(* are logged as finalized are counted by none of them.                    *)
(***************************************************************************)
THEOREM BooksAlwaysAgree == Spec => []BooksAgree
  <1>1. BookInv => BooksAgree  BY DEF BookInv, BooksAgree, LoggedCounts, BlockCounts
  <1>2. QED  BY <1>1, InitBookInv, NextBookInv, PTL DEF Spec
=============================================================================
