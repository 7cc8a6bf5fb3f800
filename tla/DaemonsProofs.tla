--------------------------- MODULE DaemonsProofs ---------------------------
(***************************************************************************)
(* Proofs about the daemons, for any stream, number of lanes, blocks and   *)
(* broken connections.                                                     *)
(*                                                                         *)
(* OkIsSubmitted: a lane of a block is posted at most once, so a block is  *)
(* completed by the request of its last lane, and by that one alone; only  *)
(* the answer to this request says something about the L1 node.            *)
(*                                                                         *)
(* TxAppliedOnce: a step moves a transaction from one place to the next or *)
(* loses it; the places together never hold it more often than it was      *)
(* written, whatever is restarted.                                         *)
(*                                                                         *)
(* CertifiedIsWhole: the lanes of a block hold what the block holds, a     *)
(* lane is collected once, and a block leaves with all its lanes.          *)
(*                                                                         *)
(* With more lanes than ids a block never has as many ids as lanes, and    *)
(* the aggregator waits for ever.                                          *)
(***************************************************************************)
EXTENDS Daemons, SumTheorems

-----------------------------------------------------------------------------
(* The inductive invariant, as long as no daemon was restarted and the lanes have *)
(* an id each *)

IsSeq(q) == \E S : q \in Seq(S)

LaneSet == 0..(Lanes - 1)

\* A lane keeps its number when it is cut to an id.
OwnIds == Lanes <= args.laneIds

SeqInv ==
    /\ DOMAIN seq = {"run", "pc", "buffer", "rr", "currentBlock", "laned", "lane", "failed"}
    /\ seq.run = 0
    /\ seq.pc \in {"select", "post", "await"}
    /\ seq.currentBlock \in Nat /\ seq.lane \in LaneSet
    /\ seq.pc = "select" => seq.lane = 0
    /\ IsSeq(txCh) /\ IsSeq(seq.buffer)
    /\ seq.pc # "select" => \A l \in LaneSet : IsSeq(seq.laned[l])

\* The lanes that have been posted, and those whose post has returned.
Returned(x, l) == x < seq.currentBlock \/ (x = seq.currentBlock /\ l < seq.lane)
Posted(x, l)   == Returned(x, l) \/ (x = seq.currentBlock /\ l = seq.lane /\ seq.pc = "await")

\* What a commit holds: transactions that have an amount.
Payload(txs) == IsSeq(txs) /\ \A i \in DOMAIN txs : txs[i].amount # 0

\* Of a request.
Fields == {"run", "block", "lane", "txs", "pc", "ok"}

BatchOK(b) ==
    /\ DOMAIN b = Fields /\ b.run = 0
    /\ b.block \in Nat /\ b.lane \in LaneSet /\ IsSeq(b.txs)
    /\ b.pc \in {"arrived", "forward", "await", "done"}
    /\ Posted(b.block, b.lane)
    /\ b.pc # "done" => b.ok = FALSE
    /\ b.pc = "forward" => Payload(b.txs)

BatchInv ==
    /\ \A b \in batches : BatchOK(b)
    /\ \A b, c \in batches : b.block = c.block /\ b.lane = c.lane => b = c
    /\ seq.pc = "await" => \E b \in batches : b.block = seq.currentBlock /\ b.lane = seq.lane

\* The sequencer was told ok for a lane.
ToldOk(x, l) == \E b \in batches : b.block = x /\ b.lane = l /\ b.pc = "done" /\ b.ok

AnswerInv == \A x \in Nat, l \in LaneSet : x \notin seq.failed /\ Returned(x, l) => ToldOk(x, l)

Logged(x) == \E i \in DOMAIN blockLog :
                 blockLog[i].block = x /\ (blockLog[i].finalized \/ Spoilt(x))

CommitOK(c) ==
    /\ DOMAIN c = Fields /\ c.run = 0
    /\ c.block \in Nat /\ Payload(c.txs)
    /\ c.pc \in {"arrived", "done"}
    /\ c.pc = "arrived" => c.ok = FALSE
    /\ c.pc = "done" /\ c.ok => Logged(c.block)

CommitInv == IsSeq(blockLog) /\ \A c \in commits : CommitOK(c)

\* The requests of block x at the aggregator and at the replayer, and the lanes
\* that the aggregator has handled.
BatchesOf(x) == {b \in batches : b.block = x}
CommitsOf(x) == {c \in commits : c.block = x}
Handled(x)   == {b.lane : b \in {b \in BatchesOf(x) : b.pc # "arrived"}}

\* While lanes of block x are missing, nothing of it has left the aggregator.
Open(x) == /\ x \notin DOMAIN states => Handled(x) = {}
           /\ \A b \in BatchesOf(x) : b.pc \in {"arrived", "done"}
           /\ CommitsOf(x) = {} /\ x \notin DOMAIN blocks

\* Its last request completes it: it is on its way, or its answer is the truth.
Closed(x) == /\ x \notin DOMAIN states
             /\ \E b \in BatchesOf(x) : b.pc = "done" /\ b.ok => Logged(x)
             /\ \A b, c \in BatchesOf(x) : b.pc = "forward" /\ c.pc = "forward" => b = c
             /\ (\E b \in BatchesOf(x) : b.pc = "forward") => CommitsOf(x) = {} /\ x \notin DOMAIN blocks
             /\ \A c, d \in CommitsOf(x) : c = d
             /\ (\E c \in CommitsOf(x) : c.pc = "arrived") => x \notin DOMAIN blocks

BlockInv(x) ==
    /\ x \in DOMAIN states => states[x].lanes = Handled(x) /\ Payload(states[x].txs)
    /\ IF Handled(x) = LaneSet THEN Closed(x) ELSE Open(x)

Undisturbed == SeqInv /\ BatchInv /\ AnswerInv /\ CommitInv /\ \A x \in Nat : BlockInv(x)

IInv == restarts \in Nat /\ args \in Setups /\ (OwnIds /\ restarts = 0 => Undisturbed)

-----------------------------------------------------------------------------
(* Sequences *)

\* What appending to a sequence does.
LEMMA AppendFacts ==
    ASSUME NEW q, IsSeq(q), NEW x
    PROVE  /\ IsSeq(Append(q, x)) /\ Len(q) \in Nat /\ Len(Append(q, x)) = Len(q) + 1
           /\ DOMAIN q = 1..Len(q) /\ DOMAIN Append(q, x) = 1..(Len(q) + 1)
           /\ \A i \in 1..Len(q) : Append(q, x)[i] = q[i]
           /\ Append(q, x)[Len(q) + 1] = x
  <1>1. PICK S : q \in Seq(S)  BY DEF IsSeq
  <1>2. q \in Seq(S \cup {x})  BY <1>1
  <1>3. Append(q, x) \in Seq(S \cup {x})  BY <1>2
  <1>4. QED  BY <1>2, <1>3 DEF IsSeq

\* The indices of a sequence.
LEMMA SeqFacts ==
    ASSUME NEW q, IsSeq(q) PROVE Len(q) \in Nat /\ DOMAIN q = 1..Len(q)
  BY DEF IsSeq

\* The empty sequence is one.
LEMMA EmptyFacts == IsSeq(<<>>) /\ DOMAIN <<>> = {}
  <1>1. <<>> \in Seq({})  OBVIOUS
  <1>2. QED  BY <1>1 DEF IsSeq

\* What is left of a channel after a receive is a sequence.
LEMMA TailFacts == ASSUME NEW q, IsSeq(q), q # <<>> PROVE IsSeq(Tail(q))
  BY DEF IsSeq

\* What the aggregator collects has an amount.
LEMMA EmptyPayload == Payload(<<>>)
  BY EmptyFacts DEF Payload

\* A transaction that has an amount may be added.
LEMMA PayloadAppend ==
    ASSUME NEW q, Payload(q), NEW tx, tx.amount # 0 PROVE Payload(Append(q, tx))
  <1>1. IsSeq(q) /\ \A i \in DOMAIN q : q[i].amount # 0  BY DEF Payload
  <1> DEFINE r == Append(q, tx)
  <1>2. /\ IsSeq(r) /\ Len(q) \in Nat /\ DOMAIN q = 1..Len(q) /\ DOMAIN r = 1..(Len(q) + 1)
        /\ \A i \in 1..Len(q) : r[i] = q[i]
        /\ r[Len(q) + 1] = tx
    BY <1>1, AppendFacts
  <1> HIDE DEF r
  <1>3. ASSUME NEW i \in 1..(Len(q) + 1) PROVE r[i].amount # 0
    <2>1. CASE i = Len(q) + 1  BY <1>2, <2>1
    <2>2. CASE i # Len(q) + 1
      <3>1. i \in 1..Len(q)  BY <1>2, <2>2
      <3>2. QED  BY <1>1, <1>2, <3>1
    <2>3. QED  BY <2>1, <2>2
  <1>4. Payload(r)  BY <1>2, <1>3 DEF Payload
  <1>5. QED  BY <1>4 DEF r

\* The transactions of one lane may be added to those of others.
LEMMA PayloadConcat ==
    ASSUME NEW p, Payload(p), NEW q, Payload(q) PROVE Payload(p \o q)
  <1>1. PICK S : p \in Seq(S)  BY DEF Payload, IsSeq
  <1>2. PICK T : q \in Seq(T)  BY DEF Payload, IsSeq
  <1>3. p \in Seq(S \cup T) /\ q \in Seq(S \cup T)  BY <1>1, <1>2
  <1>4. /\ p \o q \in Seq(S \cup T)
        /\ Len(p) \in Nat /\ Len(q) \in Nat
        /\ DOMAIN p = 1..Len(p) /\ DOMAIN q = 1..Len(q) /\ DOMAIN (p \o q) = 1..(Len(p) + Len(q))
        /\ \A i \in 1..Len(p) : (p \o q)[i] = p[i]
        /\ \A i \in 1..Len(q) : (p \o q)[Len(p) + i] = q[i]
    BY <1>3
  <1> DEFINE pq == p \o q
  <1> HIDE DEF pq
  <1>5. ASSUME NEW i \in 1..(Len(p) + Len(q)) PROVE pq[i].amount # 0
    <2>1. CASE i <= Len(p)
      <3>1. i \in 1..Len(p)  BY <1>4, <2>1
      <3>2. QED  BY <1>4, <3>1 DEF Payload, pq
    <2>2. CASE i > Len(p)
      <3>1. i - Len(p) \in 1..Len(q) /\ i = Len(p) + (i - Len(p))  BY <1>4, <2>2
      <3>2. pq[i] = q[i - Len(p)]  BY <1>4, <3>1 DEF pq
      <3>3. QED  BY <1>4, <3>1, <3>2 DEF Payload
    <2>3. QED  BY <1>4, <2>1, <2>2
  <1>6. QED  BY <1>4, <1>5 DEF Payload, IsSeq, pq

\* What the loop over a payload does with one transaction, and what it has kept
\* after each of the first n.
Keep(kept, tx) == IF tx.amount = 0 THEN kept ELSE Append(kept, tx)

IsKept(kept, p, n) == kept = [i \in 0..n |-> IF i = 0 THEN <<>> ELSE Keep(kept[i - 1], p[i])]

\* ValidTxs, with its table named.
LEMMA ValidByKept ==
    ASSUME NEW p PROVE ValidTxs(p) = (CHOOSE kept : IsKept(kept, p, Len(p)))[Len(p)]
  BY DEF ValidTxs, IsKept, Keep

\* The loop over a payload has an outcome after each transaction.
LEMMA KeptExists == ASSUME NEW p, NEW n \in Nat PROVE \E kept : IsKept(kept, p, n)
  <1> DEFINE N == {k \in Nat : \E kept : IsKept(kept, p, k)}
  <1>1. 0 \in N
    <2>1. 0..0 = {0}  OBVIOUS
    <2>2. IsKept([i \in 0..0 |-> <<>>], p, 0)  BY <2>1 DEF IsKept
    <2>3. QED  BY <2>2
  <1>2. ASSUME NEW k \in Nat, k \in N PROVE k + 1 \in N
    <2>1. PICK old : IsKept(old, p, k)  BY <1>2
    <2> DEFINE new == [i \in 0..(k + 1) |-> IF i = 0 THEN <<>> ELSE Keep(old[i - 1], p[i])]
    <2>2. ASSUME NEW i \in 0..k PROVE i \in 0..(k + 1) /\ new[i] = old[i]
      <3>1. old[i] = IF i = 0 THEN <<>> ELSE Keep(old[i - 1], p[i])  BY <2>1 DEF IsKept
      <3>2. i \in 0..(k + 1)  OBVIOUS
      <3>3. QED  BY <3>1, <3>2
    <2>3. ASSUME NEW i \in 0..(k + 1) PROVE new[i] = IF i = 0 THEN <<>> ELSE Keep(new[i - 1], p[i])
      <3>1. i # 0 => i - 1 \in 0..k  OBVIOUS
      <3>2. i # 0 => new[i - 1] = old[i - 1]  BY <2>2, <3>1
      <3>3. new[i] = IF i = 0 THEN <<>> ELSE Keep(old[i - 1], p[i])  OBVIOUS
      <3> HIDE DEF new
      <3>4. QED  BY <3>2, <3>3
    <2>4. new = [i \in 0..(k + 1) |-> new[i]]  OBVIOUS
    <2> HIDE DEF new
    <2>5. IsKept(new, p, k + 1)  BY <2>3, <2>4 DEF IsKept
    <2>6. QED  BY <2>5
  <1>3. n \in N
    <2> HIDE DEF N
    <2>1. QED  BY <1>1, <1>2, NatSetInduction
  <1>4. QED  BY <1>3

\* Only transactions with an amount are kept.
LEMMA ValidArePayload == ASSUME NEW p, IsSeq(p) PROVE Payload(ValidTxs(p))
  <1> DEFINE n == Len(p)
             kept == CHOOSE f : IsKept(f, p, n)
             N == {i \in Nat : i \in 0..n => Payload(kept[i])}
  <1>1. n \in Nat  BY SeqFacts
  <1>2. IsKept(kept, p, n)  BY <1>1, KeptExists
  <1>3. ValidTxs(p) = kept[n]  BY ValidByKept
  <1> HIDE DEF kept, n
  <1>4. \A i \in 0..n : kept[i] = IF i = 0 THEN <<>> ELSE Keep(kept[i - 1], p[i])
    BY <1>2 DEF IsKept
  <1>5. 0 \in N  BY <1>1, <1>4, EmptyPayload
  <1>6. ASSUME NEW i \in Nat, i \in N PROVE i + 1 \in N
    <2>1. SUFFICES ASSUME i + 1 \in 0..n PROVE Payload(kept[i + 1])  OBVIOUS
    <2>2. i \in 0..n /\ (i + 1) - 1 = i /\ i + 1 # 0  BY <1>1, <2>1
    <2>3. kept[i + 1] = Keep(kept[i], p[i + 1])  BY <1>4, <2>1, <2>2
    <2>4. Payload(kept[i])  BY <1>6, <2>2
    <2>5. QED  BY <2>3, <2>4, PayloadAppend DEF Keep
  <1>7. \A i \in Nat : i \in N
    <2> HIDE DEF N
    <2>1. QED  BY <1>5, <1>6, NatSetInduction
  <1>8. QED  BY <1>1, <1>3, <1>7

-----------------------------------------------------------------------------
(* The L1 node *)

\* A commit of a block that the node does not know is logged, and finalized unless
\* its proof was spoilt.
LEMMA FirstSubmission ==
    ASSUME NEW c, c.block \in Nat, Payload(c.txs), c.block \notin DOMAIN blocks, SubmitToL1(c)
    PROVE  \E e : /\ blockLog' = Append(blockLog, e)
                  /\ e.block = c.block /\ (e.finalized \/ Spoilt(c.block))
                  /\ DOMAIN blocks \subseteq DOMAIN blocks'
                  /\ DOMAIN blocks' \subseteq DOMAIN blocks \cup {c.block}
  <1> DEFINE hash == L1!CommitmentFromTxs(c.block, c.txs)
             req == [phase |-> "certification", block |-> c.block, commitment |-> hash,
                     proof |-> L1!BuildProofRecord(c.block, hash, ReplayedProof(c.block)),
                     txCount |-> Len(c.txs), txs |-> c.txs]
  <1>1. L1!SubmitCertifiedBlock(req)  BY DEF SubmitToL1
  <1>2. /\ req.block = c.block /\ req.commitment = hash
        /\ req.txCount = Len(c.txs) /\ req.txs = c.txs
        /\ req.proof.bytes = ReplayedProof(c.block)
        /\ req.proof.block = c.block /\ req.proof.commitment = hash
    BY DEF L1!BuildProofRecord
  <1> HIDE DEF req
  <1>3. ~L1!Known(req)  BY <1>2 DEF L1!Known
  <1>4. L1!PayloadOK(req)  BY <1>2 DEF L1!PayloadOK, Payload
  <1>5. ~L1!ProofOK(req) => Spoilt(c.block)
    BY <1>2 DEF L1!ProofOK, Spoilt
  <1>6. \/ Spoilt(c.block) /\ L1!SubmitBadProof(req)
        \/ L1!SubmitAccepted(req)
    BY <1>1, <1>3, <1>4, <1>5
       DEF L1!SubmitCertifiedBlock, L1!SubmitDuplicate, L1!SubmitConflict, L1!SubmitBadPayload,
           L1!SubmitBadProof, L1!SubmitAccepted
  <1>7. CASE Spoilt(c.block) /\ L1!SubmitBadProof(req)
    <2> DEFINE e == L1!LogEntry(req, FALSE, FALSE, FALSE, FALSE, stateVersion, Len(req.txs))
    <2>1. blockLog' = Append(blockLog, e) /\ blocks' = blocks
      BY <1>7 DEF L1!SubmitBadProof, L1!Respond
    <2>2. e.block = c.block  BY <1>2 DEF L1!LogEntry
    <2> HIDE DEF e
    <2>3. QED  BY <1>7, <2>1, <2>2
  <1>8. CASE L1!SubmitAccepted(req)
    <2>0. PICK delta : blockLog' = Append(blockLog, L1!LogEntry(req, TRUE, TRUE, FALSE, TRUE,
                                                                stateVersion + 1, delta))
      BY <1>8 DEF L1!SubmitAccepted, L1!Respond
    <2> DEFINE e == L1!LogEntry(req, TRUE, TRUE, FALSE, TRUE, stateVersion + 1, delta)
    <2>1. blockLog' = Append(blockLog, e)  BY <2>0
    <2>2. blocks' = [x \in DOMAIN blocks \cup {req.block} |->
                          IF x = req.block THEN L1!Accepted(req, stateVersion + 1) ELSE blocks[x]]
      BY <1>8 DEF L1!SubmitAccepted
    <2>3. DOMAIN blocks' = DOMAIN blocks \cup {c.block}  BY <1>2, <2>2
    <2>4. e.block = c.block /\ e.finalized = TRUE  BY <1>2 DEF L1!LogEntry
    <2> HIDE DEF e
    <2>5. QED  BY <2>1, <2>3, <2>4
  <1>9. QED  BY <1>6, <1>7, <1>8

-----------------------------------------------------------------------------
(* What a step leaves alone *)

\* There is a lane.
LEMMA LanesAssumed == Lanes \in Nat \ {0} /\ 0 \in LaneSet
  BY DaemonsAssumption DEF LaneSet

\* Whether a block's proof is spoilt is decided when the replayer is started.
LEMMA SpoiltKept == ASSUME args' = args, NEW x PROVE Spoilt(x)' <=> Spoilt(x)
  BY DEF Spoilt, ReplayedProof, BookProof

\* A lane's number and its id.
LEMMA LaneIdIsLane == ASSUME args \in Setups, OwnIds, NEW l \in LaneSet PROVE LaneId(l) = l
  <1>1. l \in Nat /\ l < args.laneIds /\ args.laneIds \in Nat
    BY DaemonsAssumption, DaemonSetupsAssumption DEF LaneSet, OwnIds
  <1>2. QED  BY <1>1 DEF LaneId

\* The log only grows.
LEMMA LoggedKept ==
    ASSUME NEW x, Logged(x), IsSeq(blockLog), args' = args,
           blockLog' = blockLog \/ \E e : blockLog' = Append(blockLog, e)
    PROVE  Logged(x)'
  <1>1. PICK i \in DOMAIN blockLog : blockLog[i].block = x /\ (blockLog[i].finalized \/ Spoilt(x))
    BY DEF Logged
  <1>2. Spoilt(x)' <=> Spoilt(x)  BY SpoiltKept
  <1>3. CASE blockLog' = blockLog  BY <1>1, <1>2, <1>3 DEF Logged
  <1>4. CASE \E e : blockLog' = Append(blockLog, e)
    <2>1. PICK e : blockLog' = Append(blockLog, e)  BY <1>4
    <2>2. i \in DOMAIN blockLog' /\ blockLog'[i] = blockLog[i]  BY <2>1, AppendFacts
    <2>3. QED  BY <1>1, <1>2, <2>2 DEF Logged
  <1>5. QED  BY <1>3, <1>4

\* A block of which nothing has moved.
LEMMA BlockKept ==
    ASSUME NEW x, BlockInv(x), BatchesOf(x)' = BatchesOf(x), CommitsOf(x)' = CommitsOf(x),
           (x \in DOMAIN states)' <=> x \in DOMAIN states,
           x \in DOMAIN states => states'[x] = states[x],
           (x \in DOMAIN blocks)' <=> x \in DOMAIN blocks,
           Logged(x) => Logged(x)'
    PROVE  BlockInv(x)'
  <1>1. Handled(x)' = Handled(x)  BY DEF Handled
  <1>2. Open(x) => Open(x)'  BY <1>1 DEF Open
  <1>3. Closed(x) => Closed(x)'  BY DEF Closed
  <1>4. QED  BY <1>1, <1>2, <1>3 DEF BlockInv

\* The steps that neither aggregator, replayer nor L1 node take part in.
LEMMA CommitsKept ==
    ASSUME CommitInv, UNCHANGED <<commits, args, l1vars>> PROVE CommitInv'
  <1>1. UNCHANGED <<commits, args, blockLog>>  BY DEF l1vars
  <1>2. ASSUME NEW x, Logged(x) PROVE Logged(x)'  BY <1>1, <1>2, SpoiltKept DEF Logged
  <1>3. QED  BY <1>1, <1>2 DEF CommitInv, CommitOK

\* The steps of the sequencer alone leave every block as it was.
LEMMA BlocksKept ==
    ASSUME \A x \in Nat : BlockInv(x), CommitInv,
           UNCHANGED <<batches, states, commits, args, l1vars>>
    PROVE  \A x \in Nat : BlockInv(x)'
  <1>1. UNCHANGED <<blocks, blockLog>>  BY DEF l1vars
  <1>2. ASSUME NEW x \in Nat PROVE BlockInv(x)'
    <2>1. BatchesOf(x)' = BatchesOf(x) /\ CommitsOf(x)' = CommitsOf(x)  BY DEF BatchesOf, CommitsOf
    <2>2. Logged(x) => Logged(x)'  BY <1>1, SpoiltKept DEF Logged
    <2>3. QED  BY <1>1, <2>1, <2>2, BlockKept
  <1>3. QED  BY <1>2

\* The sequencer has moved on: what was posted stays posted.
LEMMA BatchesKept ==
    ASSUME BatchInv, batches' = batches, \A x \in Nat, l \in LaneSet : Posted(x, l) => Posted(x, l)',
           seq'.pc # "await" \/ seq' = seq
    PROVE  BatchInv'
  <1>1. ASSUME NEW b \in batches PROVE BatchOK(b)'  BY DEF BatchInv, BatchOK
  <1>2. QED  BY <1>1 DEF BatchInv

-----------------------------------------------------------------------------
(* The sequencer *)

\* What a step that says nothing to the sequencer keeps.
LEMMA StreamStep ==
    ASSUME Undisturbed, UNCHANGED <<seq, batches, states, commits, args, l1vars>>, IsSeq(txCh')
    PROVE  Undisturbed'
  <1>1. SeqInv'  BY DEF Undisturbed, SeqInv
  <1>2. BatchInv'  BY BatchesKept DEF Undisturbed, Posted, Returned
  <1>3. AnswerInv'  BY DEF Undisturbed, AnswerInv, Returned, ToldOk
  <1>4. CommitInv'  BY CommitsKept DEF Undisturbed
  <1>5. \A x \in Nat : BlockInv(x)'  BY BlocksKept DEF Undisturbed
  <1>6. QED  BY <1>1, <1>2, <1>3, <1>4, <1>5 DEF Undisturbed

\* Ingress writes a transaction; the reader puts it on the channel or drops it.
LEMMA WriteTxStep == ASSUME Undisturbed, WriteTx PROVE Undisturbed'
  <1>1. IsSeq(txCh)  BY DEF Undisturbed, SeqInv
  <1>2. txCh' = txCh \/ \E tx : txCh' = Append(txCh, tx)  BY DEF WriteTx, Arrives
  <1>3. IsSeq(txCh')
    <2>1. CASE txCh' = txCh  BY <1>1, <2>1
    <2>2. ASSUME NEW tx, txCh' = Append(txCh, tx) PROVE IsSeq(txCh')
      <3>1. IsSeq(Append(txCh, tx))  BY <1>1, AppendFacts
      <3>2. QED  BY <2>2, <3>1
    <2>3. QED  BY <1>2, <2>1, <2>2
  <1>4. UNCHANGED <<seq, batches, states, commits, args, l1vars>>  BY DEF WriteTx
  <1>5. QED  BY <1>3, <1>4, StreamStep

\* The sequencer takes a transaction from the channel.
LEMMA ReceiveStep == ASSUME Undisturbed, Receive PROVE Undisturbed'
  <1>1. IsSeq(txCh) /\ txCh # <<>> /\ IsSeq(seq.buffer) /\ SeqInv  BY DEF Undisturbed, SeqInv, Receive
  <1>2. IsSeq(txCh')  BY <1>1, TailFacts DEF Receive
  <1>3. PICK tx : seq' = [seq EXCEPT !.buffer = Append(@, tx)]  BY DEF Receive
  <1>4. IsSeq(Append(seq.buffer, tx))  BY <1>1, AppendFacts
  <1>5. /\ DOMAIN seq' = DOMAIN seq /\ seq'.buffer = Append(seq.buffer, tx)
        /\ seq'.run = seq.run /\ seq'.pc = seq.pc /\ seq'.currentBlock = seq.currentBlock
        /\ seq'.lane = seq.lane /\ seq'.failed = seq.failed /\ seq'.laned = seq.laned
    BY <1>1, <1>3 DEF SeqInv
  <1>6. SeqInv'  BY <1>1, <1>2, <1>4, <1>5 DEF SeqInv
  <1>7. UNCHANGED <<batches, states, commits, args, l1vars>> /\ seq.pc = "select"  BY DEF Receive
  <1>8. BatchInv'  BY <1>5, <1>7, BatchesKept DEF Undisturbed, Posted, Returned
  <1>9. AnswerInv'  BY <1>5, <1>7 DEF Undisturbed, AnswerInv, Returned, ToldOk
  <1>10. CommitInv'  BY <1>7, CommitsKept DEF Undisturbed
  <1>11. \A x \in Nat : BlockInv(x)'  BY <1>7, BlocksKept DEF Undisturbed
  <1>12. QED  BY <1>6, <1>8, <1>9, <1>10, <1>11 DEF Undisturbed

\* The lanes of a block are sequences.
LEMMA LanesAreSeqs ==
    ASSUME NEW buffer, IsSeq(buffer), NEW rr, NEW l \in LaneSet PROVE IsSeq(Laned(buffer, rr)[l])
  <1> DEFINE own == {i \in DOMAIN buffer : (rr + i - 1) % Lanes = l}
             pick(k) == buffer[CHOOSE i \in own : Cardinality({j \in own : j <= i}) = k]
             lane == [k \in 1..Cardinality(own) |-> pick(k)]
  <1>1. Laned(buffer, rr)[l] = lane  BY DEF Laned, LaneSet
  <1>2. Cardinality(own) \in Nat
    <2>1. DOMAIN buffer = 1..Len(buffer) /\ Len(buffer) \in Nat  BY SeqFacts
    <2>2. IsFiniteSet(DOMAIN buffer)  BY <2>1, FS_Interval
    <2>3. own \subseteq DOMAIN buffer  OBVIOUS
    <2> HIDE DEF own
    <2>4. IsFiniteSet(own)  BY <2>2, <2>3, FS_Subset
    <2>5. QED  BY <2>4, FS_CardinalityType
  <1> HIDE DEF own, pick
  <1>3. lane \in Seq({pick(k) : k \in 1..Cardinality(own)})  BY <1>2
  <1>4. QED  BY <1>1, <1>3 DEF IsSeq

\* The sequencer seals its block and is about to post lane 0.
LEMMA SealStep == ASSUME Undisturbed, Seal PROVE Undisturbed'
  <1>1. SeqInv /\ seq.pc = "select" /\ seq.lane = 0  BY DEF Undisturbed, SeqInv, Seal
  <1>2. seq' = [seq EXCEPT !.pc = "post", !.lane = 0, !.laned = Laned(seq.buffer, seq.rr),
                           !.rr = @ + Len(seq.buffer)]
    BY DEF Seal
  <1>3. /\ DOMAIN seq' = DOMAIN seq /\ seq'.buffer = seq.buffer
        /\ seq'.run = seq.run /\ seq'.pc = "post" /\ seq'.currentBlock = seq.currentBlock
        /\ seq'.lane = 0 /\ seq'.failed = seq.failed /\ seq'.laned = Laned(seq.buffer, seq.rr)
    BY <1>1, <1>2 DEF SeqInv
  <1>4. \A l \in LaneSet : IsSeq(seq'.laned[l])  BY <1>1, <1>3, LanesAreSeqs DEF SeqInv
  <1>5. SeqInv'  BY <1>1, <1>3, <1>4, LanesAssumed DEF SeqInv, Seal
  <1>6. UNCHANGED <<batches, states, commits, args, l1vars>>  BY DEF Seal
  <1>7. BatchInv'  BY <1>1, <1>3, <1>6, BatchesKept DEF Undisturbed, Posted, Returned
  <1>8. AnswerInv'  BY <1>1, <1>3, <1>6 DEF Undisturbed, AnswerInv, Returned, ToldOk
  <1>9. CommitInv'  BY <1>6, CommitsKept DEF Undisturbed
  <1>10. \A x \in Nat : BlockInv(x)'  BY <1>6, BlocksKept DEF Undisturbed
  <1>11. QED  BY <1>5, <1>7, <1>8, <1>9, <1>10 DEF Undisturbed

\* The post of a lane has returned, with ok or not.
LEMMA LaneReturns ==
    ASSUME Undisturbed, seq.pc \in {"post", "await"}, NEW failed, seq' = NextLane(failed),
           UNCHANGED <<txCh, batches, states, commits, args, l1vars>>,
           seq.currentBlock \in failed \/ ToldOk(seq.currentBlock, seq.lane)
    PROVE  Undisturbed'
  <1>1. SeqInv /\ Lanes \in Nat \ {0} /\ seq.lane \in LaneSet /\ seq.currentBlock \in Nat
    BY LanesAssumed DEF Undisturbed, SeqInv
  <1>2. /\ DOMAIN seq' = DOMAIN seq /\ seq'.run = seq.run
        /\ seq'.failed = seq.failed \cup failed
        /\ \/ /\ seq.lane + 1 < Lanes /\ seq'.pc = "post" /\ seq'.lane = seq.lane + 1
              /\ seq'.currentBlock = seq.currentBlock /\ seq'.laned = seq.laned /\ seq'.buffer = seq.buffer
           \/ /\ ~(seq.lane + 1 < Lanes) /\ seq'.pc = "select" /\ seq'.lane = 0
              /\ seq'.currentBlock = seq.currentBlock + 1 /\ seq'.buffer = <<>>
    BY <1>1 DEF SeqInv, NextLane
  <1>3. SeqInv'
    <2>1. CASE seq.lane + 1 < Lanes
      <3>1. seq.lane + 1 \in LaneSet  BY <1>1, <2>1 DEF LaneSet
      <3>2. QED  BY <1>1, <1>2, <2>1, <3>1 DEF SeqInv
    <2>2. CASE ~(seq.lane + 1 < Lanes)  BY <1>1, <1>2, <2>2, EmptyFacts, LanesAssumed DEF SeqInv
    <2>3. QED  BY <2>1, <2>2
  <1>4. ASSUME NEW x \in Nat, NEW l \in LaneSet
        PROVE  Returned(x, l)' <=> Returned(x, l) \/ (x = seq.currentBlock /\ l = seq.lane)
    <2>1. l \in Nat /\ l < Lanes /\ seq.lane \in Nat /\ seq.lane < Lanes  BY <1>1 DEF LaneSet
    <2>2. CASE seq.lane + 1 < Lanes  BY <1>1, <1>2, <2>1, <2>2 DEF Returned
    <2>3. CASE ~(seq.lane + 1 < Lanes)  BY <1>1, <1>2, <2>1, <2>3 DEF Returned
    <2>4. QED  BY <2>2, <2>3
  <1>5. BatchInv'
    <2>1. ASSUME NEW x \in Nat, NEW l \in LaneSet, Posted(x, l) PROVE Posted(x, l)'
      BY <1>4, <2>1 DEF Posted
    <2>2. QED  BY <1>2, <2>1, BatchesKept DEF Undisturbed
  <1>6. AnswerInv'
    <2>1. ASSUME NEW x \in Nat, NEW l \in LaneSet, x \notin seq'.failed, Returned(x, l)'
          PROVE  ToldOk(x, l)'
      <3>1. ToldOk(x, l)' <=> ToldOk(x, l)  BY DEF ToldOk
      <3>2. CASE Returned(x, l)  BY <1>2, <2>1, <3>1, <3>2 DEF Undisturbed, AnswerInv
      <3>3. CASE x = seq.currentBlock /\ l = seq.lane  BY <1>2, <2>1, <3>1, <3>3
      <3>4. QED  BY <1>4, <2>1, <3>2, <3>3
    <2>2. QED  BY <2>1 DEF AnswerInv
  <1>7. CommitInv'  BY CommitsKept DEF Undisturbed
  <1>8. \A x \in Nat : BlockInv(x)'  BY BlocksKept DEF Undisturbed
  <1>9. QED  BY <1>3, <1>5, <1>6, <1>7, <1>8 DEF Undisturbed

\* The sequencer reads the aggregator's answer.
LEMMA AnsweredStep == ASSUME Undisturbed, Answered PROVE Undisturbed'
  <1>1. seq.pc = "await" /\ Awaited.pc = "done"  BY DEF Answered
  <1>2. PICK b \in batches : b.block = seq.currentBlock /\ b.lane = seq.lane
    BY <1>1 DEF Undisturbed, BatchInv
  <1>3. b.run = 0 /\ seq.run = 0  BY <1>2 DEF Undisturbed, BatchInv, BatchOK, SeqInv
  <1>4. /\ Awaited \in batches /\ Awaited.block = seq.currentBlock /\ Awaited.lane = seq.lane
    BY <1>2, <1>3 DEF Awaited
  <1>5. PICK failed : /\ seq' = NextLane(failed)
                      /\ failed = IF Awaited.ok THEN {} ELSE {seq.currentBlock}
    BY DEF Answered
  <1>6. seq.currentBlock \in failed \/ ToldOk(seq.currentBlock, seq.lane)
    BY <1>1, <1>4, <1>5 DEF ToldOk
  <1>7. UNCHANGED <<txCh, batches, states, commits, args, l1vars>>  BY DEF Answered
  <1>8. QED  BY <1>1, <1>5, <1>6, <1>7, LaneReturns

\* The connection of a post breaks: the block has failed for the sequencer.
LEMMA PostFailsStep == ASSUME Undisturbed, PostFails PROVE Undisturbed'
  BY LaneReturns DEF PostFails

\* A lane is posted for the first time: its block was not complete.
LEMMA PostStep == ASSUME Undisturbed, Post PROVE Undisturbed'
  <1>0. PICK y, k, new : /\ y = seq.currentBlock /\ k = seq.lane
                         /\ new = [run |-> seq.run, block |-> y, lane |-> k, txs |-> seq.laned[k],
                                   pc |-> "arrived", ok |-> FALSE]
    OBVIOUS
  <1>1. /\ seq.pc = "post" /\ batches' = batches \cup {new} /\ seq' = [seq EXCEPT !.pc = "await"]
        /\ UNCHANGED <<txCh, states, commits, args, l1vars>>
    BY <1>0 DEF Post
  <1>2. SeqInv /\ y \in Nat /\ k \in LaneSet /\ seq.run = 0 /\ IsSeq(seq.laned[k])
    BY <1>0, <1>1 DEF Undisturbed, SeqInv
  <1>3. /\ DOMAIN new = Fields /\ new.run = 0 /\ new.block = y /\ new.lane = k
        /\ new.txs = seq.laned[k] /\ new.pc = "arrived" /\ new.ok = FALSE
    BY <1>0, <1>2 DEF Fields
  <1>4. /\ DOMAIN seq' = DOMAIN seq /\ seq'.buffer = seq.buffer
        /\ seq'.run = seq.run /\ seq'.pc = "await" /\ seq'.currentBlock = y
        /\ seq'.lane = k /\ seq'.failed = seq.failed /\ seq'.laned = seq.laned
    BY <1>0, <1>1, <1>2 DEF SeqInv
  <1>5. SeqInv'  BY <1>0, <1>1, <1>2, <1>4 DEF SeqInv
  <1>6. ~Posted(y, k)
    <2>1. k \in Nat /\ y \in Nat  BY <1>2, LanesAssumed DEF LaneSet
    <2>2. QED  BY <1>0, <1>1, <2>1 DEF Posted, Returned
  <1>7. ASSUME NEW b \in batches PROVE ~(b.block = y /\ b.lane = k)
    BY <1>6, <1>7 DEF Undisturbed, BatchInv, BatchOK
  <1>8. BatchInv'
    <2>1. ASSUME NEW x, NEW l, Posted(x, l) PROVE Posted(x, l)'
      BY <1>0, <1>1, <1>4, <2>1 DEF Posted, Returned
    <2>2. ASSUME NEW b \in batches PROVE BatchOK(b)'  BY <2>1, <2>2 DEF Undisturbed, BatchInv, BatchOK
    <2>3. Posted(y, k)'  BY <1>4 DEF Posted
    <2>4. BatchOK(new)'  BY <1>2, <1>3, <2>3 DEF BatchOK
    <2>5. ASSUME NEW b \in batches', NEW c \in batches', b.block = c.block, b.lane = c.lane PROVE b = c
      BY <1>1, <1>3, <1>7, <2>5 DEF Undisturbed, BatchInv
    <2>6. \E b \in batches' : b.block = seq'.currentBlock /\ b.lane = seq'.lane  BY <1>1, <1>3, <1>4
    <2>7. QED  BY <1>1, <2>2, <2>4, <2>5, <2>6 DEF BatchInv
  <1>9. AnswerInv'  BY <1>0, <1>1, <1>4 DEF Undisturbed, AnswerInv, Returned, ToldOk
  <1>10. CommitInv'  BY <1>1, CommitsKept DEF Undisturbed
  <1>11. ASSUME NEW x \in Nat PROVE BlockInv(x)'
    <2>1. CommitsOf(x)' = CommitsOf(x) /\ UNCHANGED <<blocks, blockLog>>
      BY <1>1 DEF CommitsOf, l1vars
    <2>2. Logged(x) => Logged(x)'  BY <1>1, <2>1, SpoiltKept DEF Logged
    <2>3. CASE x # y
      <3>1. BatchesOf(x)' = BatchesOf(x)  BY <1>1, <1>3, <2>3 DEF BatchesOf
      <3>2. QED  BY <1>1, <2>1, <2>2, <3>1, BlockKept DEF Undisturbed
    <2>4. CASE x = y
      <3>1. BatchesOf(x)' = BatchesOf(x) \cup {new}  BY <1>1, <1>3, <2>4 DEF BatchesOf
      <3>2. Handled(x)' = Handled(x)  BY <1>3, <3>1 DEF Handled
      <3>3. k \notin Handled(x)  BY <1>7, <2>4 DEF Handled, BatchesOf
      <3>4. Handled(x) # LaneSet  BY <1>2, <3>3
      <3>5. Open(x)  BY <3>4 DEF Undisturbed, BlockInv
      <3>6. Open(x)'  BY <1>1, <1>3, <2>1, <3>1, <3>2, <3>5 DEF Open
      <3>7. QED  BY <1>1, <3>2, <3>4, <3>6 DEF Undisturbed, BlockInv
    <2>5. QED  BY <2>3, <2>4
  <1>12. QED  BY <1>5, <1>8, <1>9, <1>10, <1>11 DEF Undisturbed

-----------------------------------------------------------------------------
(* The aggregator *)

\* A request that has not been answered is one step further.
LEMMA RequestMoves ==
    ASSUME Undisturbed, NEW b \in batches, b.pc # "done", NEW new, batches' = Replace(batches, b, new),
           new.block = b.block, new.lane = b.lane, BatchOK(new),
           UNCHANGED <<seq, txCh>>
    PROVE  /\ SeqInv' /\ BatchInv' /\ AnswerInv'
           /\ \A x : BatchesOf(x)' = IF x = b.block THEN (BatchesOf(x) \ {b}) \cup {new} ELSE BatchesOf(x)
  <1>1. batches' = (batches \ {b}) \cup {new}  BY DEF Replace
  <1>2. SeqInv'  BY DEF Undisturbed, SeqInv
  <1>3. BatchInv'
    <2>1. ASSUME NEW c \in batches' PROVE BatchOK(c)'
      <3>1. BatchOK(c)  BY <1>1 DEF Undisturbed, BatchInv
      <3>2. QED  BY <3>1 DEF BatchOK, Posted, Returned
    <2>2. ASSUME NEW c \in batches', NEW d \in batches', c.block = d.block, c.lane = d.lane PROVE c = d
      BY <1>1, <2>2 DEF Undisturbed, BatchInv
    <2>3. ASSUME seq'.pc = "await"
          PROVE  \E c \in batches' : c.block = seq'.currentBlock /\ c.lane = seq'.lane
      <3>1. PICK c \in batches : c.block = seq.currentBlock /\ c.lane = seq.lane
        BY <2>3 DEF Undisturbed, BatchInv
      <3>2. CASE c = b  BY <1>1, <3>1, <3>2
      <3>3. CASE c # b  BY <1>1, <3>1, <3>3
      <3>4. QED  BY <3>2, <3>3
    <2>4. QED  BY <2>1, <2>2, <2>3 DEF BatchInv
  <1>4. AnswerInv'
    <2>1. ASSUME NEW x, NEW l, ToldOk(x, l) PROVE ToldOk(x, l)'  BY <1>1, <2>1 DEF ToldOk
    <2>2. QED  BY <2>1 DEF Undisturbed, AnswerInv, Returned
  <1>5. QED  BY <1>1, <1>2, <1>3, <1>4 DEF BatchesOf

\* The state of its block that the handler of request b leaves, or sends on.
StateOf(b) == AddLane(IF b.block \in DOMAIN states THEN states[b.block] ELSE NewState, b)

\* The aggregator's critical section: the lane is added, and the last completes the block.
LEMMA HandleBatchStep ==
    ASSUME args \in Setups, OwnIds, Undisturbed, NEW b \in batches, HandleBatch(b) PROVE Undisturbed'
  <1>0. PICK y, st : y = b.block /\ st = StateOf(b)  OBVIOUS
  <1>1. /\ b.pc = "arrived" /\ BatchOK(b) /\ BlockInv(y) /\ y \in Nat
    BY <1>0 DEF Undisturbed, BatchInv, BatchOK, HandleBatch
  <1>2. Handled(y) # LaneSet /\ b.lane \notin Handled(y)
    <2>1. ASSUME b.lane \in Handled(y) PROVE FALSE
      <3>1. PICK c \in batches : c.block = y /\ c.pc # "arrived" /\ c.lane = b.lane
        BY <2>1 DEF Handled, BatchesOf
      <3>2. c = b  BY <1>0, <3>1 DEF Undisturbed, BatchInv
      <3>3. QED  BY <1>1, <3>1, <3>2
    <2>2. QED  BY <1>1, <2>1 DEF BatchOK
  <1>3. Open(y)  BY <1>1, <1>2 DEF BlockInv
  <1>4. st.lanes = Handled(y) \cup {b.lane} /\ Payload(st.txs)
    <2>0. LaneId(b.lane) = b.lane  BY <1>1, LaneIdIsLane DEF BatchOK
    <2>1. Payload(ValidTxs(b.txs))  BY <1>1, ValidArePayload DEF BatchOK
    <2>2. CASE y \in DOMAIN states
      <3>1. st.lanes = states[y].lanes \cup {b.lane} /\ st.txs = states[y].txs \o ValidTxs(b.txs)
        BY <1>0, <2>0, <2>2 DEF StateOf, AddLane
      <3>2. QED  BY <1>1, <2>1, <2>2, <3>1, PayloadConcat DEF BlockInv
    <2>3. CASE y \notin DOMAIN states
      <3>1. st.lanes = {} \cup {b.lane} /\ st.txs = <<>> \o ValidTxs(b.txs)
        BY <1>0, <2>0, <2>3 DEF StateOf, AddLane, NewState
      <3>2. QED  BY <1>3, <2>1, <2>3, <3>1, PayloadConcat, EmptyPayload DEF Open
    <2>4. QED  BY <2>2, <2>3
  <1>5. UNCHANGED <<args, txCh, seq, commits, l1vars, blocks, blockLog>>
    BY DEF HandleBatch, l1vars
  <1>6. CommitInv'  BY <1>5, CommitsKept DEF Undisturbed
  <1>7. \A x : CommitsOf(x)' = CommitsOf(x) /\ (Logged(x)' <=> Logged(x))
    BY <1>5, SpoiltKept DEF CommitsOf, Logged
  <1>8. Cardinality(st.lanes) = Lanes <=> st.lanes = LaneSet
    <2>1. st.lanes \subseteq LaneSet
      <3>1. Handled(y) \subseteq LaneSet  BY DEF Handled, BatchesOf, Undisturbed, BatchInv, BatchOK
      <3>2. QED  BY <1>1, <1>4, <3>1 DEF BatchOK
    <2>2. IsFiniteSet(LaneSet) /\ Cardinality(LaneSet) = Lanes
      <3>1. 0 \in Int /\ Lanes - 1 \in Int /\ ~(0 > Lanes - 1) /\ (Lanes - 1) - 0 + 1 = Lanes
        BY LanesAssumed
      <3>2. QED  BY <3>1, FS_Interval DEF LaneSet
    <2>3. QED  BY <2>1, <2>2, FS_Subset
  \* What the rest of the step does, once the request and the map are as they should be.
  <1>9. ASSUME NEW new, batches' = Replace(batches, b, new), BatchOK(new),
               new.block = y, new.lane = b.lane, new.pc # "arrived",
               \A x \in Nat \ {y} : /\ (x \in DOMAIN states' <=> x \in DOMAIN states)
                                    /\ x \in DOMAIN states => states'[x] = states[x],
               Handled(y)' = Handled(y) \cup {b.lane} /\ BatchesOf(y)' = (BatchesOf(y) \ {b}) \cup {new}
                   => BlockInv(y)'
        PROVE  Undisturbed'
    <2>1. /\ SeqInv' /\ BatchInv' /\ AnswerInv'
          /\ \A x : BatchesOf(x)' = IF x = b.block THEN (BatchesOf(x) \ {b}) \cup {new} ELSE BatchesOf(x)
      BY <1>0, <1>1, <1>5, <1>9, RequestMoves
    <2>2. BatchesOf(y)' = (BatchesOf(y) \ {b}) \cup {new}  BY <1>0, <2>1
    <2>3. Handled(y)' = Handled(y) \cup {b.lane}  BY <1>1, <1>9, <2>2 DEF Handled
    <2>4. ASSUME NEW x \in Nat PROVE BlockInv(x)'
      <3>1. CASE x = y  BY <1>9, <2>2, <2>3, <3>1
      <3>2. CASE x # y
        <4>1. BatchesOf(x)' = BatchesOf(x)  BY <1>0, <2>1, <3>2
        <4>2. BlockInv(x) /\ ((x \in DOMAIN blocks)' <=> x \in DOMAIN blocks)
          BY <1>5 DEF Undisturbed
        <4>3. QED  BY <1>7, <1>9, <3>2, <4>1, <4>2, BlockKept
      <3>3. QED  BY <3>1, <3>2
    <2>5. QED  BY <1>6, <2>1, <2>4 DEF Undisturbed
  <1>10. CASE Cardinality(st.lanes) = Lanes
    <2>1. PICK new : new = [b EXCEPT !.pc = "forward", !.txs = st.txs]  OBVIOUS
    <2>2. /\ states' = [x \in DOMAIN states \ {y} |-> states[x]]
          /\ batches' = Replace(batches, b, new)
      BY <1>0, <1>10, <2>1 DEF HandleBatch, StateOf
    <2>3. /\ DOMAIN new = Fields /\ new.run = 0 /\ new.block = y /\ new.lane = b.lane
          /\ new.txs = st.txs /\ new.pc = "forward" /\ new.ok = b.ok
      BY <1>0, <1>1, <2>1 DEF BatchOK, Fields
    <2>4. BatchOK(new)  BY <1>0, <1>1, <1>4, <2>3 DEF BatchOK, Payload
    <2>5. \A x \in Nat \ {y} : /\ (x \in DOMAIN states' <=> x \in DOMAIN states)
                               /\ x \in DOMAIN states => states'[x] = states[x]
      BY <2>2
    <2>6. ASSUME Handled(y)' = Handled(y) \cup {b.lane}, BatchesOf(y)' = (BatchesOf(y) \ {b}) \cup {new}
          PROVE  BlockInv(y)'
      <3>1. Handled(y)' = LaneSet  BY <1>4, <1>8, <1>10, <2>6
      <3>2. y \notin DOMAIN states'  BY <2>2
      <3>3. CommitsOf(y)' = {} /\ y \notin DOMAIN blocks'  BY <1>3, <1>5, <1>7 DEF Open
      <3>4. \A c \in BatchesOf(y)' : c.pc = "forward" => c = new  BY <1>3, <2>6 DEF Open
      <3>5. new \in BatchesOf(y)' /\ ~(new.pc = "done")  BY <2>3, <2>6
      <3>6. Closed(y)'  BY <3>2, <3>3, <3>4, <3>5 DEF Closed
      <3>7. QED  BY <3>1, <3>2, <3>6 DEF BlockInv
    <2>7. QED  BY <1>9, <2>2, <2>3, <2>4, <2>5, <2>6
  <1>11. CASE Cardinality(st.lanes) # Lanes
    <2>1. PICK new : new = [b EXCEPT !.pc = "done", !.ok = TRUE]  OBVIOUS
    <2>2. /\ states' = Put(states, y, st)
          /\ batches' = Replace(batches, b, new)
      BY <1>0, <1>11, <2>1 DEF HandleBatch, StateOf
    <2>3. /\ DOMAIN new = Fields /\ new.run = 0 /\ new.block = y /\ new.lane = b.lane
          /\ new.txs = b.txs /\ new.pc = "done" /\ new.ok = TRUE
      BY <1>0, <1>1, <2>1 DEF BatchOK, Fields
    <2>4. BatchOK(new)  BY <1>0, <1>1, <2>3 DEF BatchOK
    <2>5. \A x \in Nat \ {y} : /\ (x \in DOMAIN states' <=> x \in DOMAIN states)
                               /\ x \in DOMAIN states => states'[x] = states[x]
      BY <2>2 DEF Put
    <2>6. ASSUME Handled(y)' = Handled(y) \cup {b.lane}, BatchesOf(y)' = (BatchesOf(y) \ {b}) \cup {new}
          PROVE  BlockInv(y)'
      <3>1. Handled(y)' = st.lanes /\ Handled(y)' # LaneSet  BY <1>4, <1>8, <1>11, <2>6
      <3>2. y \in DOMAIN states' /\ states'[y] = st  BY <2>2 DEF Put
      <3>3. CommitsOf(y)' = {} /\ y \notin DOMAIN blocks'  BY <1>3, <1>5, <1>7 DEF Open
      <3>4. \A c \in BatchesOf(y)' : c.pc \in {"arrived", "done"}  BY <1>3, <2>3, <2>6 DEF Open
      <3>5. Open(y)'  BY <3>2, <3>3, <3>4 DEF Open
      <3>6. QED  BY <1>4, <3>1, <3>2, <3>5 DEF BlockInv
    <2>7. QED  BY <1>9, <2>2, <2>3, <2>4, <2>5, <2>6
  <1>12. QED  BY <1>10, <1>11

\* A block with a request beyond the aggregator's critical section is complete.
LEMMA Completed ==
    ASSUME Undisturbed, NEW b \in batches, b.pc \in {"forward", "await"}
    PROVE  b.block \in Nat /\ Handled(b.block) = LaneSet /\ Closed(b.block) /\ BlockInv(b.block)
  <1>1. b.block \in Nat /\ BlockInv(b.block)  BY DEF Undisturbed, BatchInv, BatchOK
  <1>2. b \in BatchesOf(b.block)  BY DEF BatchesOf
  <1>3. ~Open(b.block)  BY <1>2 DEF Open
  <1>4. QED  BY <1>1, <1>3 DEF BlockInv

\* Such a request moves on, and nothing else does.
LEMMA LateRequestMoves ==
    ASSUME Undisturbed, NEW b \in batches, b.pc \in {"forward", "await"}, NEW new, BatchOK(new),
           new.block = b.block, new.lane = b.lane, new.pc \in {"await", "done"},
           new.pc = "done" /\ new.ok => Logged(b.block),
           batches' = Replace(batches, b, new),
           UNCHANGED <<seq, txCh, states, args, l1vars>>, CommitInv',
           \A x \in Nat \ {b.block} : CommitsOf(x)' = CommitsOf(x),
           \/ CommitsOf(b.block)' = CommitsOf(b.block)
           \/ b.pc = "forward" /\ \A c, d \in CommitsOf(b.block)' : c = d
    PROVE  Undisturbed'
  <1>0. PICK y : y = b.block  OBVIOUS
  <1>1. y \in Nat /\ Handled(y) = LaneSet /\ Closed(y) /\ BlockInv(y)  BY <1>0, Completed
  <1>2. UNCHANGED <<blocks, blockLog>>  BY DEF l1vars
  <1>3. /\ SeqInv' /\ BatchInv' /\ AnswerInv'
        /\ \A x : BatchesOf(x)' = IF x = b.block THEN (BatchesOf(x) \ {b}) \cup {new} ELSE BatchesOf(x)
    BY RequestMoves
  <1>4. \A x : Logged(x)' <=> Logged(x)  BY <1>2, SpoiltKept DEF Logged
  <1>5. ASSUME NEW x \in Nat, x # y PROVE BlockInv(x)'
    <2>1. BatchesOf(x)' = BatchesOf(x) /\ CommitsOf(x)' = CommitsOf(x)  BY <1>0, <1>3, <1>5
    <2>2. BlockInv(x)  BY DEF Undisturbed
    <2>3. QED  BY <1>2, <1>4, <2>1, <2>2, BlockKept
  <1>6. BlockInv(y)'
    <2>1. BatchesOf(y)' = (BatchesOf(y) \ {b}) \cup {new} /\ b \in BatchesOf(y)
      BY <1>0, <1>3 DEF BatchesOf
    <2>2. Handled(y)' = Handled(y)  BY <1>0, <2>1 DEF Handled
    <2>3. y \notin DOMAIN states' /\ (y \notin DOMAIN blocks => y \notin DOMAIN blocks')
      BY <1>1, <1>2 DEF Closed
    <2>4. \E c \in BatchesOf(y)' : c.pc = "done" /\ c.ok => Logged(y)'
      <3>1. PICK c \in BatchesOf(y) : c.pc = "done" /\ c.ok => Logged(y)  BY <1>1 DEF Closed
      <3>2. CASE c = b  BY <1>0, <1>4, <2>1
      <3>3. CASE c # b  BY <1>4, <2>1, <3>1, <3>3
      <3>4. QED  BY <3>2, <3>3
    <2>5. \A c \in BatchesOf(y)' : c.pc = "forward" => c \in BatchesOf(y) /\ c # b  BY <2>1
    <2>6. CASE b.pc = "forward"
      <3>1. \A c \in BatchesOf(y)' : c.pc # "forward"  BY <1>1, <2>1, <2>5, <2>6 DEF Closed
      <3>2. \A c, d \in CommitsOf(y)' : c = d  BY <1>0, <1>1 DEF Closed
      <3>3. y \notin DOMAIN blocks'  BY <1>1, <2>1, <2>3, <2>6 DEF Closed
      <3>4. Closed(y)'  BY <2>3, <2>4, <3>1, <3>2, <3>3 DEF Closed
      <3>5. QED  BY <1>1, <2>2, <2>3, <3>4 DEF BlockInv
    <2>7. CASE b.pc # "forward"
      <3>1. CommitsOf(y)' = CommitsOf(y)  BY <1>0, <2>7
      <3>2. Closed(y)'  BY <1>1, <1>2, <2>3, <2>4, <2>5, <3>1 DEF Closed
      <3>3. QED  BY <1>1, <2>2, <2>3, <3>2 DEF BlockInv
    <2>8. QED  BY <2>6, <2>7
  <1>7. QED  BY <1>3, <1>5, <1>6 DEF Undisturbed

\* The aggregator posts the commit of a complete block.
LEMMA ForwardStep == ASSUME Undisturbed, NEW b \in batches, Forward(b) PROVE Undisturbed'
  <1>1. BatchOK(b) /\ b.pc = "forward" /\ CommitInv  BY DEF Undisturbed, BatchInv, Forward
  <1>2. PICK new, c : /\ new = [b EXCEPT !.pc = "await"] /\ c = [b EXCEPT !.pc = "arrived"]
                      /\ batches' = Replace(batches, b, new) /\ commits' = commits \cup {c}
    BY DEF Forward
  <1>3. /\ DOMAIN new = Fields /\ new.run = 0 /\ new.block = b.block /\ new.lane = b.lane
        /\ new.txs = b.txs /\ new.pc = "await" /\ new.ok = b.ok
    BY <1>1, <1>2 DEF BatchOK, Fields
  <1>4. /\ DOMAIN c = Fields /\ c.run = 0 /\ c.block = b.block
        /\ c.txs = b.txs /\ c.pc = "arrived" /\ c.ok = b.ok
    BY <1>1, <1>2 DEF BatchOK, Fields
  <1>5. BatchOK(new)  BY <1>1, <1>3 DEF BatchOK
  <1>6. UNCHANGED <<seq, txCh, states, args, l1vars, blockLog>>  BY DEF Forward, l1vars
  <1>7. CommitInv'
    <2>1. \A x : Logged(x)' <=> Logged(x)  BY <1>6, SpoiltKept DEF Logged
    <2>2. ASSUME NEW d \in commits PROVE CommitOK(d)'  BY <1>1, <2>1 DEF CommitInv, CommitOK
    <2>3. CommitOK(c)'  BY <1>1, <1>4 DEF CommitOK, BatchOK
    <2>4. QED  BY <1>1, <1>2, <1>6, <2>2, <2>3 DEF CommitInv
  <1>8. \A x \in Nat \ {b.block} : CommitsOf(x)' = CommitsOf(x)  BY <1>2, <1>4 DEF CommitsOf
  <1>9. \A d, e \in CommitsOf(b.block)' : d = e
    <2>1. CommitsOf(b.block) = {}
      <3>1. Closed(b.block) /\ b \in BatchesOf(b.block)  BY <1>1, Completed DEF BatchesOf
      <3>2. QED  BY <1>1, <3>1 DEF Closed
    <2>2. QED  BY <1>2, <2>1 DEF CommitsOf
  <1>10. QED  BY <1>1, <1>2, <1>3, <1>5, <1>6, <1>7, <1>8, <1>9, LateRequestMoves

\* The request is answered; ok only if the replayer has said so.
LEMMA AnswerStep ==
    ASSUME Undisturbed, NEW b \in batches, b.pc \in {"forward", "await"}, NEW new,
           DOMAIN new = Fields, new.run = 0, new.block = b.block, new.lane = b.lane, new.txs = b.txs,
           new.pc = "done", new.ok => Logged(b.block),
           batches' = Replace(batches, b, new),
           UNCHANGED <<seq, txCh, states, commits, args, l1vars>>
    PROVE  Undisturbed'
  <1>1. BatchOK(new)  BY DEF Undisturbed, BatchInv, BatchOK
  <1>2. CommitInv'  BY CommitsKept DEF Undisturbed
  <1>3. \A x : CommitsOf(x)' = CommitsOf(x)  BY DEF CommitsOf
  <1>4. QED  BY <1>1, <1>2, <1>3, LateRequestMoves

\* The replayer's answer reaches the aggregator.
LEMMA ForwardedStep == ASSUME Undisturbed, NEW b \in batches, Forwarded(b) PROVE Undisturbed'
  <1>1. BatchOK(b) /\ b.pc = "await"  BY DEF Undisturbed, BatchInv, Forwarded
  <1>2. PICK c \in commits : /\ c.block = b.block /\ c.pc = "done"
                             /\ batches' = Replace(batches, b, [b EXCEPT !.pc = "done", !.ok = c.ok])
    BY DEF Forwarded
  <1>3. c.ok => Logged(b.block)  BY <1>2 DEF Undisturbed, CommitInv, CommitOK
  <1>4. PICK new : new = [b EXCEPT !.pc = "done", !.ok = c.ok]  OBVIOUS
  <1>5. /\ DOMAIN new = Fields /\ new.run = 0 /\ new.block = b.block /\ new.lane = b.lane
        /\ new.txs = b.txs /\ new.pc = "done" /\ new.ok = c.ok
    BY <1>1, <1>4 DEF BatchOK, Fields
  <1>6. UNCHANGED <<seq, txCh, states, commits, args, l1vars>>  BY DEF Forwarded
  <1>7. QED  BY <1>1, <1>2, <1>3, <1>4, <1>5, <1>6, AnswerStep

\* The connection to the replayer breaks.
LEMMA ForwardFailsStep == ASSUME Undisturbed, NEW b \in batches, ForwardFails(b) PROVE Undisturbed'
  <1>1. BatchOK(b) /\ b.pc \in {"forward", "await"}  BY DEF Undisturbed, BatchInv, ForwardFails
  <1>2. PICK new : new = [b EXCEPT !.pc = "done"] /\ batches' = Replace(batches, b, new)
    BY DEF ForwardFails
  <1>3. /\ DOMAIN new = Fields /\ new.run = 0 /\ new.block = b.block /\ new.lane = b.lane
        /\ new.txs = b.txs /\ new.pc = "done" /\ new.ok = FALSE
    BY <1>1, <1>2 DEF BatchOK, Fields
  <1>4. UNCHANGED <<seq, txCh, states, commits, args, l1vars>>  BY DEF ForwardFails
  <1>5. QED  BY <1>1, <1>2, <1>3, <1>4, AnswerStep

-----------------------------------------------------------------------------
(* The replayer and the L1 node *)

\* A commit that has not been submitted is the only one of its block, which the L1
\* node does not know.
LEMMA OnlyCommit ==
    ASSUME Undisturbed, NEW c \in commits, c.pc = "arrived"
    PROVE  /\ c.block \in Nat /\ Handled(c.block) = LaneSet /\ Closed(c.block)
           /\ CommitsOf(c.block) = {c} /\ c.block \notin DOMAIN blocks
  <1>1. c.block \in Nat /\ BlockInv(c.block)  BY DEF Undisturbed, CommitInv, CommitOK
  <1>2. c \in CommitsOf(c.block)  BY DEF CommitsOf
  <1>3. Handled(c.block) = LaneSet /\ Closed(c.block)  BY <1>1, <1>2 DEF BlockInv, Open
  <1>4. QED  BY <1>1, <1>2, <1>3 DEF Closed

\* Commits are answered, after one of them was submitted or none.
LEMMA CommitStep ==
    ASSUME Undisturbed, NEW f, commits' = {f[c] : c \in commits},
           UNCHANGED <<seq, txCh, batches, states, args>>,
           \A c \in commits :
               /\ DOMAIN f[c] = Fields /\ f[c].run = 0 /\ f[c].block = c.block /\ f[c].txs = c.txs
               /\ (f[c].pc = "done" /\ (f[c].ok => c.ok \/ Logged(c.block)')) \/ f[c] = c,
           \/ UNCHANGED l1vars
           \/ \E c \in commits : c.pc = "arrived" /\ f[c].pc = "done" /\ SubmitToL1(c)
    PROVE  Undisturbed'
  <1>1. CommitInv  BY DEF Undisturbed
  <1>2. PICK y : /\ DOMAIN blocks \subseteq DOMAIN blocks'
                 /\ DOMAIN blocks' \subseteq DOMAIN blocks \cup {y}
                 /\ blockLog' = blockLog \/ \E e : blockLog' = Append(blockLog, e)
                 /\ y \in DOMAIN blocks' /\ y \notin DOMAIN blocks
                      => \E c \in commits : c.block = y /\ c.pc = "arrived" /\ f[c].pc = "done"
    <2>1. CASE UNCHANGED l1vars  BY <2>1 DEF l1vars
    <2>2. ASSUME NEW c \in commits, c.pc = "arrived", f[c].pc = "done", SubmitToL1(c)
          PROVE  /\ DOMAIN blocks \subseteq DOMAIN blocks'
                 /\ DOMAIN blocks' \subseteq DOMAIN blocks \cup {c.block}
                 /\ \E e : blockLog' = Append(blockLog, e)
      <3>1. c.block \in Nat /\ Payload(c.txs) /\ c.block \notin DOMAIN blocks
        BY <1>1, <2>2, OnlyCommit DEF CommitInv, CommitOK
      <3>2. QED  BY <2>2, <3>1, FirstSubmission
    <2>3. QED  BY <2>1, <2>2
  <1>3. ASSUME NEW x, Logged(x) PROVE Logged(x)'  BY <1>1, <1>2, <1>3, LoggedKept DEF CommitInv
  <1>4. SeqInv' /\ AnswerInv'  BY DEF Undisturbed, SeqInv, AnswerInv, Returned, ToldOk
  <1>5. BatchInv'  BY BatchesKept DEF Undisturbed, Posted, Returned
  <1>6. CommitInv'
    <2>1. IsSeq(blockLog')
      <3>1. CASE blockLog' = blockLog  BY <1>1, <3>1 DEF CommitInv
      <3>2. ASSUME NEW e, blockLog' = Append(blockLog, e) PROVE IsSeq(blockLog')
        <4>1. IsSeq(Append(blockLog, e))  BY <1>1, AppendFacts DEF CommitInv
        <4>2. QED  BY <3>2, <4>1
      <3>3. QED  BY <1>2, <3>1, <3>2
    <2>2. ASSUME NEW c \in commits PROVE CommitOK(f[c])'
      <3>0. PICK d : d = f[c]  OBVIOUS
      <3>1. CommitOK(c)  BY <1>1 DEF CommitInv
      <3>2. CASE d = c  BY <1>3, <3>0, <3>1, <3>2 DEF CommitOK
      <3>3. CASE d.pc = "done" /\ (d.ok => c.ok \/ Logged(c.block)')
        <4>1. DOMAIN d = Fields /\ d.run = 0 /\ d.block = c.block /\ d.txs = c.txs  BY <3>0
        <4>2. d.ok => Logged(d.block)'  BY <1>3, <3>1, <3>3, <4>1 DEF CommitOK
        <4>3. CommitOK(d)'  BY <3>1, <3>3, <4>1, <4>2 DEF CommitOK
        <4>4. QED  BY <3>0, <4>3
      <3>4. QED  BY <3>0, <3>2, <3>3
    <2>3. QED  BY <2>1, <2>2 DEF CommitInv
  <1>7. ASSUME NEW x \in Nat PROVE BlockInv(x)'
    <2>1. BlockInv(x) /\ BatchesOf(x)' = BatchesOf(x)  BY DEF Undisturbed, BatchesOf
    <2>2. Handled(x)' = Handled(x)  BY <2>1 DEF Handled
    <2>3. CommitsOf(x)' = {f[c] : c \in CommitsOf(x)}
      <3>1. CommitsOf(x)' = {d \in {f[c] : c \in commits} : d.block = x}  BY DEF CommitsOf
      <3>2. \A c \in commits : f[c].block = c.block  OBVIOUS
      <3>3. QED  BY <3>1, <3>2 DEF CommitsOf
    <2>4. CASE Handled(x) # LaneSet
      <3>1. Open(x)  BY <2>1, <2>4 DEF BlockInv
      <3>2. CommitsOf(x)' = {}  BY <2>3, <3>1 DEF Open
      <3>3. x \notin DOMAIN blocks'
        <4>1. CommitsOf(x) = {} /\ x \notin DOMAIN blocks  BY <3>1 DEF Open
        <4>2. QED  BY <1>2, <4>1 DEF CommitsOf
      <3>4. Open(x)'  BY <2>1, <2>2, <3>1, <3>2, <3>3 DEF Open
      <3>5. QED  BY <2>1, <2>2, <2>4, <3>4 DEF BlockInv
    <2>5. CASE Handled(x) = LaneSet
      <3>1. Closed(x)  BY <2>1, <2>5 DEF BlockInv
      <3>2. \E b \in BatchesOf(x)' : b.pc = "done" /\ b.ok => Logged(x)'  BY <1>3, <2>1, <3>1 DEF Closed
      <3>3. \A c, d \in CommitsOf(x)' : c = d  BY <2>3, <3>1 DEF Closed
      <3>4. ASSUME NEW b \in BatchesOf(x), b.pc = "forward" PROVE CommitsOf(x)' = {} /\ x \notin DOMAIN blocks'
        <4>1. CommitsOf(x) = {} /\ x \notin DOMAIN blocks  BY <3>1, <3>4 DEF Closed
        <4>2. QED  BY <1>2, <2>3, <4>1 DEF CommitsOf
      <3>5. ASSUME NEW d \in CommitsOf(x)', d.pc = "arrived" PROVE x \notin DOMAIN blocks'
        <4>1. PICK c \in CommitsOf(x) : d = f[c]  BY <2>3
        <4>2. c \in commits /\ c = d /\ c.pc = "arrived"  BY <3>5, <4>1 DEF CommitsOf
        <4>3. x \notin DOMAIN blocks /\ \A e \in CommitsOf(x) : e = c  BY <3>1, <4>1, <4>2 DEF Closed
        <4>4. f[c].pc # "done"  BY <3>5, <4>1
        <4>5. QED  BY <1>2, <4>3, <4>4 DEF CommitsOf
      <3>6. Closed(x)'  BY <2>1, <3>1, <3>2, <3>3, <3>4, <3>5 DEF Closed
      <3>7. QED  BY <2>1, <2>2, <2>5, <3>1, <3>6 DEF BlockInv, Closed
    <2>6. QED  BY <2>4, <2>5
  <1>8. QED  BY <1>4, <1>5, <1>6, <1>7 DEF Undisturbed

\* One commit is answered.
LEMMA OneCommit ==
    ASSUME Undisturbed, NEW c \in commits, c.pc = "arrived", NEW new,
           DOMAIN new = Fields, new.run = 0, new.block = c.block, new.txs = c.txs, new.pc = "done",
           new.ok => Logged(c.block)', commits' = Replace(commits, c, new),
           UNCHANGED <<seq, txCh, batches, states, args>>, SubmitToL1(c) \/ UNCHANGED l1vars
    PROVE  Undisturbed'
  <1>1. PICK f : f = [d \in commits |-> IF d = c THEN new ELSE d]  OBVIOUS
  <1>2. f[c] = new /\ \A d \in commits : d # c => f[d] = d  BY <1>1
  <1>3. commits' = {f[d] : d \in commits}  BY <1>2 DEF Replace
  <1>4. ASSUME NEW d \in commits
        PROVE  /\ DOMAIN f[d] = Fields /\ f[d].run = 0 /\ f[d].block = d.block /\ f[d].txs = d.txs
               /\ (f[d].pc = "done" /\ (f[d].ok => d.ok \/ Logged(d.block)')) \/ f[d] = d
    <2>1. CASE d = c  BY <1>2, <2>1
    <2>2. CASE d # c
      <3>1. CommitOK(d)  BY DEF Undisturbed, CommitInv
      <3>2. QED  BY <1>2, <2>2, <3>1 DEF CommitOK
    <2>3. QED  BY <2>1, <2>2
  <1>5. \/ UNCHANGED l1vars
        \/ \E d \in commits : d.pc = "arrived" /\ f[d].pc = "done" /\ SubmitToL1(d)
    BY <1>2
  <1>6. QED  BY <1>3, <1>4, <1>5, CommitStep

\* The replayer submits a commit; the L1 node logs a block that it does not know.
LEMMA SubmitStep == ASSUME Undisturbed, NEW c \in commits, Submit(c) PROVE Undisturbed'
  <1>1. c.pc = "arrived" /\ SubmitToL1(c) /\ CommitOK(c) /\ IsSeq(blockLog)
    BY DEF Submit, Undisturbed, CommitInv
  <1>2. PICK new : new = [c EXCEPT !.pc = "done", !.ok = TRUE] /\ commits' = Replace(commits, c, new)
    BY DEF Submit
  <1>3. /\ DOMAIN new = Fields /\ new.run = 0 /\ new.block = c.block
        /\ new.txs = c.txs /\ new.pc = "done"
    BY <1>1, <1>2 DEF CommitOK, Fields
  <1>4. UNCHANGED <<seq, txCh, batches, states, args>>  BY DEF Submit
  <1>5. Logged(c.block)'
    <2>1. c.block \in Nat /\ Payload(c.txs) /\ c.block \notin DOMAIN blocks
      BY <1>1, OnlyCommit DEF CommitOK
    <2>2. PICK e : blockLog' = Append(blockLog, e) /\ e.block = c.block /\ (e.finalized \/ Spoilt(c.block))
      BY <1>1, <2>1, FirstSubmission
    <2>3. Len(blockLog) + 1 \in DOMAIN blockLog' /\ blockLog'[Len(blockLog) + 1] = e
      BY <1>1, <2>2, AppendFacts
    <2>4. Spoilt(c.block)' <=> Spoilt(c.block)  BY <1>4, SpoiltKept
    <2>5. QED  BY <2>2, <2>3, <2>4 DEF Logged
  <1>6. QED  BY <1>1, <1>2, <1>3, <1>4, <1>5, OneCommit

\* The replayer fails to submit: its answer is not ok.
LEMMA SubmitFailsStep == ASSUME Undisturbed, NEW c \in commits, SubmitFails(c) PROVE Undisturbed'
  <1>1. c.pc = "arrived" /\ CommitOK(c)  BY DEF SubmitFails, Undisturbed, CommitInv
  <1>2. PICK new : new = [c EXCEPT !.pc = "done"] /\ commits' = Replace(commits, c, new)
    BY DEF SubmitFails
  <1>3. /\ DOMAIN new = Fields /\ new.run = 0 /\ new.block = c.block
        /\ new.txs = c.txs /\ new.pc = "done" /\ new.ok = FALSE
    BY <1>1, <1>2 DEF CommitOK, Fields
  <1>4. UNCHANGED <<seq, txCh, batches, states, args>>  BY DEF SubmitFails
  <1>5. SubmitToL1(c) \/ UNCHANGED l1vars  BY DEF SubmitFails
  <1>6. QED  BY <1>1, <1>2, <1>3, <1>4, <1>5, OneCommit

\* The replayer ends: all its requests fail.
LEMMA BookRaceStep == ASSUME Undisturbed, BookRace PROVE Undisturbed'
  <1>1. PICK f : f = [d \in commits |-> [d EXCEPT !.pc = "done"]]  OBVIOUS
  <1>2. commits' = {f[d] : d \in commits}  BY <1>1 DEF BookRace, ReplayerEnds
  <1>3. ASSUME NEW d \in commits
        PROVE  /\ DOMAIN f[d] = Fields /\ f[d].run = 0 /\ f[d].block = d.block /\ f[d].txs = d.txs
               /\ f[d].pc = "done" /\ f[d].ok = d.ok
    <2>1. CommitOK(d)  BY DEF Undisturbed, CommitInv
    <2>2. f[d] = [d EXCEPT !.pc = "done"]  BY <1>1
    <2>3. QED  BY <2>1, <2>2 DEF CommitOK, Fields
  <1>4. \/ UNCHANGED l1vars
        \/ \E d \in commits : d.pc = "arrived" /\ f[d].pc = "done" /\ SubmitToL1(d)
    BY <1>3 DEF BookRace, ReplayerEnds
  <1>5. UNCHANGED <<seq, txCh, batches, states, args>>  BY DEF BookRace
  <1>6. QED  BY <1>2, <1>3, <1>4, <1>5, CommitStep

-----------------------------------------------------------------------------
(* The theorem *)

\* The daemons start with nothing posted.
LEMMA InvariantStarts == Init => IInv
  <1> SUFFICES ASSUME Init PROVE IInv  OBVIOUS
  <1>1. /\ seq = NewSequencer(0) /\ txCh = <<>> /\ batches = {} /\ commits = {} /\ states = <<>>
        /\ restarts = 0 /\ blocks = <<>> /\ blockLog = <<>> /\ args \in Setups
    BY DEF Init, L1!Init
  <1>2. /\ DOMAIN seq = {"run", "pc", "buffer", "rr", "currentBlock", "laned", "lane", "failed"}
        /\ seq.run = 0 /\ seq.pc = "select" /\ seq.buffer = <<>> /\ seq.currentBlock = 0 /\ seq.lane = 0
    BY <1>1 DEF NewSequencer
  <1>3. SeqInv  BY <1>1, <1>2, EmptyFacts, LanesAssumed DEF SeqInv
  <1>4. BatchInv  BY <1>1, <1>2 DEF BatchInv
  <1>5. AnswerInv
    <2>1. ASSUME NEW x \in Nat, NEW l \in LaneSet PROVE ~Returned(x, l)
      <3>1. l \in Nat  BY LanesAssumed DEF LaneSet
      <3>2. QED  BY <1>2, <3>1 DEF Returned
    <2>2. QED  BY <2>1 DEF AnswerInv
  <1>6. CommitInv  BY <1>1, EmptyFacts DEF CommitInv
  <1>7. ASSUME NEW x \in Nat PROVE BlockInv(x)
    <2>1. BatchesOf(x) = {} /\ CommitsOf(x) = {}  BY <1>1 DEF BatchesOf, CommitsOf
    <2>2. Handled(x) = {} /\ Handled(x) # LaneSet  BY <2>1, LanesAssumed DEF Handled
    <2>3. x \notin DOMAIN states /\ x \notin DOMAIN blocks  BY <1>1, EmptyFacts
    <2>4. Open(x)  BY <2>1, <2>2, <2>3 DEF Open
    <2>5. QED  BY <2>2, <2>3, <2>4 DEF BlockInv
  <1>8. QED  BY <1>1, <1>3, <1>4, <1>5, <1>6, <1>7 DEF IInv, Undisturbed

\* A restart is counted, and ends what the invariant says.
LEMMA RestartCounts == ASSUME restarts \in Nat, Restart PROVE restarts' \in Nat /\ restarts' # 0
  BY DEF Restart

\* The setup stays.
LEMMA SetupKept == ASSUME [Next]_vars PROVE args' = args
  BY DEF Next, Sequencer, Handlers, WriteTx, Receive, Seal, Post, Answered, PostFails, HandleBatch,
     Forward, Forwarded, ForwardFails, Submit, SubmitFails, StreamBreaks, BookRace,
     ReplayerComesBack, RestartSequencer, RestartAggregator, RestartReplayer, RestartL1, vars

\* Every step keeps the invariant.
LEMMA InvariantKept == IInv /\ [Next]_vars => IInv'
  <1> SUFFICES ASSUME IInv, [Next]_vars PROVE IInv'  OBVIOUS
  <1>0. restarts \in Nat /\ args \in Setups /\ args' = args  BY SetupKept DEF IInv
  <1>a. ASSUME restarts' = restarts, OwnIds /\ Undisturbed => Undisturbed' PROVE IInv'
    BY <1>0, <1>a DEF IInv, OwnIds
  <1>1. CASE Sequencer
    <2>1. UNCHANGED restarts  BY <1>1 DEF Sequencer, WriteTx, Receive, Post, Answered
    <2>2. Undisturbed => Undisturbed'
      BY <1>1, WriteTxStep, ReceiveStep, PostStep, AnsweredStep DEF Sequencer
    <2>3. QED  BY <1>a, <2>1, <2>2
  <1>2. CASE Seal
    <2>1. UNCHANGED restarts  BY <1>2 DEF Seal
    <2>2. QED  BY <1>2, <1>a, <2>1, SealStep
  <1>3. CASE PostFails
    <2>1. UNCHANGED restarts  BY <1>3 DEF PostFails
    <2>2. QED  BY <1>3, <1>a, <2>1, PostFailsStep
  <1>4. CASE Handlers
    <2>1. ASSUME NEW b \in batches, HandleBatch(b) \/ Forward(b) \/ Forwarded(b) PROVE IInv'
      <3>1. UNCHANGED restarts  BY <2>1 DEF HandleBatch, Forward, Forwarded
      <3>2. QED  BY <1>0, <1>a, <2>1, <3>1, HandleBatchStep, ForwardStep, ForwardedStep
    <2>2. ASSUME NEW c \in commits, Submit(c) PROVE IInv'
      <3>1. UNCHANGED restarts  BY <2>2 DEF Submit
      <3>2. QED  BY <1>a, <2>2, <3>1, SubmitStep
    <2>3. QED  BY <1>4, <2>1, <2>2 DEF Handlers
  <1>5. ASSUME NEW b \in batches, ForwardFails(b) PROVE IInv'
    <2>1. UNCHANGED restarts  BY <1>5 DEF ForwardFails
    <2>2. QED  BY <1>5, <1>a, <2>1, ForwardFailsStep
  <1>6. ASSUME NEW c \in commits, SubmitFails(c) PROVE IInv'
    <2>1. UNCHANGED restarts  BY <1>6 DEF SubmitFails
    <2>2. QED  BY <1>6, <1>a, <2>1, SubmitFailsStep
  <1>7. CASE BookRace
    <2>1. UNCHANGED restarts  BY <1>7 DEF BookRace
    <2>2. QED  BY <1>7, <1>a, <2>1, BookRaceStep
  <1>8. CASE StreamBreaks \/ ReplayerComesBack \/ UNCHANGED vars
    <2>1. UNCHANGED <<restarts, txCh, seq, batches, states, commits, args, l1vars>>
      BY <1>8 DEF StreamBreaks, ReplayerComesBack, vars
    <2>2. Undisturbed => Undisturbed'  BY <2>1, StreamStep DEF Undisturbed, SeqInv
    <2>3. QED  BY <1>a, <2>1, <2>2
  <1>9. CASE RestartSequencer \/ RestartAggregator \/ RestartReplayer \/ RestartL1
    <2>1. Restart  BY <1>9 DEF RestartSequencer, RestartAggregator, RestartReplayer, RestartL1
    <2>2. QED  BY <1>0, <2>1, RestartCounts DEF IInv
  <1>10. QED  BY <1>1, <1>2, <1>3, <1>4, <1>5, <1>6, <1>7, <1>8, <1>9 DEF Next

-----------------------------------------------------------------------------
(* How often a transaction is in a sequence *)

\* A number.
LEMMA CountType ==
    ASSUME NEW q, IsSeq(q), NEW tx
    PROVE  Count(q, tx) \in Nat /\ IsFiniteSet(DOMAIN q) /\ IsFiniteSet({i \in DOMAIN q : q[i] = tx})
  <1>1. Len(q) \in Nat /\ DOMAIN q = 1..Len(q)  BY SeqFacts
  <1>2. IsFiniteSet(DOMAIN q)  BY <1>1, FS_Interval
  <1>3. {i \in DOMAIN q : q[i] = tx} \in SUBSET DOMAIN q  OBVIOUS
  <1>4. IsFiniteSet({i \in DOMAIN q : q[i] = tx})  BY <1>2, <1>3, FS_Subset
  <1>5. QED  BY <1>2, <1>4, FS_CardinalityType DEF Count

\* There is none in an empty sequence.
LEMMA CountEmpty == ASSUME NEW tx PROVE Count(<<>>, tx) = 0
  <1>1. {i \in DOMAIN <<>> : <<>>[i] = tx} = {}  BY EmptyFacts
  <1>2. QED  BY <1>1, FS_EmptySet DEF Count

\* One more if it is appended.
LEMMA CountAppend ==
    ASSUME NEW q, IsSeq(q), NEW x, NEW tx
    PROVE  Count(Append(q, x), tx) = Count(q, tx) + (IF x = tx THEN 1 ELSE 0)
  <1> DEFINE r == Append(q, x)
             A == {i \in DOMAIN q : q[i] = tx}
             B == {i \in DOMAIN r : r[i] = tx}
             n == Len(q) + 1
  <1>1. /\ Len(q) \in Nat /\ DOMAIN q = 1..Len(q) /\ DOMAIN r = 1..n
        /\ \A i \in 1..Len(q) : r[i] = q[i]
        /\ r[n] = x
    BY AppendFacts
  <1>2. IsFiniteSet(A) /\ Cardinality(A) \in Nat  BY CountType DEF Count
  <1>3. n \notin A /\ n \in 1..n /\ 1..n = 1..Len(q) \cup {n} /\ n \notin 1..Len(q)  BY <1>1
  <1> HIDE DEF r, n
  <1>4. CASE x = tx
    <2>1. B = A \cup {n}  BY <1>1, <1>3, <1>4
    <2>2. Cardinality(B) = Cardinality(A) + 1  BY <1>2, <1>3, <2>1, FS_AddElement
    <2>3. QED  BY <1>4, <2>2 DEF Count, r
  <1>5. CASE x # tx
    <2>1. B = A  BY <1>1, <1>3, <1>5
    <2>2. Cardinality(B) = Cardinality(A) + 0
      <3> HIDE DEF A, B
      <3>1. QED  BY <1>2, <2>1
    <2>3. QED  BY <1>5, <2>2 DEF Count, r
  <1>6. QED  BY <1>4, <1>5

\* Sets of positions with a one-to-one map between them have the same size.
LEMMA SameSize ==
    ASSUME NEW S, NEW T, IsFiniteSet(S), NEW f \in [S -> T],
           \A i, j \in S : f[i] = f[j] => i = j, \A t \in T : \E i \in S : f[i] = t
    PROVE  IsFiniteSet(T) /\ Cardinality(T) = Cardinality(S)
  <1>1. f \in Bijection(S, T)  BY DEF Bijection, Injection, Surjection, IsInjective
  <1>2. ExistsBijection(S, T)  BY <1>1 DEF ExistsBijection
  <1>3. QED  BY <1>2, FS_Bijection

\* In two sequences as often as in each.
LEMMA CountConcat ==
    ASSUME NEW p, IsSeq(p), NEW q, IsSeq(q), NEW tx
    PROVE  IsSeq(p \o q) /\ Count(p \o q, tx) = Count(p, tx) + Count(q, tx)
  <1>1. PICK S : p \in Seq(S)  BY DEF IsSeq
  <1>2. PICK T : q \in Seq(T)  BY DEF IsSeq
  <1>3. p \in Seq(S \cup T) /\ q \in Seq(S \cup T)  BY <1>1, <1>2
  <1> DEFINE pq == p \o q
             m == Len(p)
             A == {i \in DOMAIN p : p[i] = tx}
             B == {i \in DOMAIN q : q[i] = tx}
             C == {i \in DOMAIN pq : pq[i] = tx}
             D == {i \in (m + 1)..(m + Len(q)) : pq[i] = tx}
             f == [i \in B |-> m + i]
  <1>4. /\ pq \in Seq(S \cup T)
        /\ m \in Nat /\ Len(q) \in Nat
        /\ DOMAIN p = 1..m /\ DOMAIN q = 1..Len(q) /\ DOMAIN pq = 1..(m + Len(q))
        /\ \A i \in 1..m : pq[i] = p[i]
        /\ \A i \in 1..Len(q) : pq[m + i] = q[i]
    BY <1>3
  <1>5. IsSeq(pq)  BY <1>4 DEF IsSeq
  <1> HIDE DEF pq, m
  <1>6. C = A \cup D
    <2>1. 1..(m + Len(q)) = 1..m \cup (m + 1)..(m + Len(q))  BY <1>4
    <2>2. QED  BY <1>4, <2>1
  <1>7. A \cap D = {}  BY <1>4
  <1>8. IsFiniteSet(A) /\ Cardinality(A) \in Nat /\ IsFiniteSet(B) /\ Cardinality(B) \in Nat
    BY CountType DEF Count
  <1>9. IsFiniteSet(D) /\ Cardinality(D) = Cardinality(B)
    <2>1. ASSUME NEW i \in 1..Len(q) PROVE m + i \in (m + 1)..(m + Len(q)) /\ pq[m + i] = q[i]
      BY <1>4
    <2>2. f \in [B -> D]  BY <1>4, <2>1
    <2>3. \A i, j \in B : f[i] = f[j] => i = j
      <3>1. ASSUME NEW i \in B, NEW j \in B, f[i] = f[j] PROVE i = j
        <4>1. i \in Int /\ j \in Int /\ m + i = m + j  BY <1>4, <3>1
        <4>2. QED  BY <1>4, <4>1
      <3>2. QED  BY <3>1
    <2>4. ASSUME NEW d \in D PROVE \E i \in B : f[i] = d
      <3>1. d - m \in 1..Len(q) /\ m + (d - m) = d  BY <1>4
      <3>2. q[d - m] = tx  BY <2>1, <3>1
      <3>3. d - m \in B  BY <1>4, <3>1, <3>2
      <3>4. QED  BY <3>1, <3>3
    <2> HIDE DEF f, B, D
    <2>5. QED  BY <1>8, <2>2, <2>3, <2>4, SameSize
  <1>10. Cardinality(C) = Cardinality(A) + Cardinality(D)
    <2> HIDE DEF A, B, C, D
    <2>1. Cardinality(A \cup D) = Cardinality(A) + Cardinality(D) - Cardinality(A \cap D)
      BY <1>8, <1>9, FS_Union
    <2>2. Cardinality(A \cap D) = 0  BY <1>7, FS_EmptySet
    <2>3. QED  BY <1>6, <1>8, <1>9, <2>1, <2>2
  <1>11. QED  BY <1>5, <1>9, <1>10 DEF Count, pq

\* The first transaction and the rest.
LEMMA CountTail ==
    ASSUME NEW q, IsSeq(q), q # <<>>, NEW tx
    PROVE  /\ IsSeq(Tail(q))
           /\ Count(q, tx) = Count(Tail(q), tx) + (IF Head(q) = tx THEN 1 ELSE 0)
  <1>1. PICK S : q \in Seq(S)  BY DEF IsSeq
  <1>2. IsSeq(Tail(q))  BY TailFacts
  <1>3. q = <<Head(q)>> \o Tail(q)  BY <1>1
  <1>4. PICK e, h : e = <<>> /\ h = Head(q) /\ <<Head(q)>> = Append(e, h)  OBVIOUS
  <1>5. Count(<<Head(q)>>, tx) = (IF Head(q) = tx THEN 1 ELSE 0) /\ IsSeq(<<Head(q)>>)
    <2>1. IsSeq(e) /\ Count(e, tx) = 0  BY <1>4, EmptyFacts, CountEmpty
    <2>2. Count(Append(e, h), tx) = Count(e, tx) + (IF h = tx THEN 1 ELSE 0) /\ IsSeq(Append(e, h))
      BY <2>1, CountAppend, AppendFacts
    <2>3. QED  BY <1>4, <2>1, <2>2
  <1>6. Count(<<Head(q)>> \o Tail(q), tx) = Count(<<Head(q)>>, tx) + Count(Tail(q), tx)
    BY <1>2, <1>5, CountConcat
  <1>7. Count(Tail(q), tx) \in Nat  BY <1>2, CountType
  <1>8. Count(q, tx) = Count(<<Head(q)>>, tx) + Count(Tail(q), tx)  BY <1>3, <1>6
  <1>9. QED  BY <1>2, <1>5, <1>7, <1>8

\* The aggregator passes over the transactions without an amount, and no other.
LEMMA CountValid ==
    ASSUME NEW p, IsSeq(p), NEW tx
    PROVE  Count(ValidTxs(p), tx) = IF tx.amount = 0 THEN 0 ELSE Count(p, tx)
  <1> DEFINE n == Len(p)
             kept == CHOOSE f : IsKept(f, p, n)
             upto(i) == {j \in 1..i : p[j] = tx}
             N == {i \in Nat : i \in 0..n => /\ IsSeq(kept[i]) /\ IsFiniteSet(upto(i))
                                             /\ Cardinality(upto(i)) \in Nat
                                             /\ Count(kept[i], tx) = IF tx.amount = 0 THEN 0
                                                                     ELSE Cardinality(upto(i))}
  <1>1. n \in Nat /\ DOMAIN p = 1..n  BY SeqFacts
  <1>2. IsKept(kept, p, n)  BY <1>1, KeptExists
  <1>3. ValidTxs(p) = kept[n]  BY ValidByKept
  <1> HIDE DEF kept, n
  <1>4. \A i \in 0..n : kept[i] = IF i = 0 THEN <<>> ELSE Keep(kept[i - 1], p[i])
    BY <1>2 DEF IsKept
  <1>5. 0 \in N
    <2>1. kept[0] = <<>>  BY <1>1, <1>4
    <2>2. upto(0) = {}  OBVIOUS
    <2>3. QED  BY <2>1, <2>2, CountEmpty, EmptyFacts, FS_EmptySet
  <1>6. ASSUME NEW i \in Nat, i \in N PROVE i + 1 \in N
    <2>0. i + 1 \in Nat  OBVIOUS
    <2>1. SUFFICES ASSUME i + 1 \in 0..n
                   PROVE  /\ IsSeq(kept[i + 1]) /\ IsFiniteSet(upto(i + 1))
                          /\ Cardinality(upto(i + 1)) \in Nat
                          /\ Count(kept[i + 1], tx) = IF tx.amount = 0 THEN 0 ELSE Cardinality(upto(i + 1))
      BY <2>0
    <2>2. i \in 0..n /\ (i + 1) - 1 = i /\ i + 1 # 0  BY <1>1, <2>1
    <2>3. kept[i + 1] = Keep(kept[i], p[i + 1])  BY <1>4, <2>1, <2>2
    <2>4. /\ IsSeq(kept[i]) /\ IsFiniteSet(upto(i)) /\ Cardinality(upto(i)) \in Nat
          /\ Count(kept[i], tx) = IF tx.amount = 0 THEN 0 ELSE Cardinality(upto(i))
      BY <1>6, <2>2
    <2>5. 1..(i + 1) = 1..i \cup {i + 1} /\ i + 1 \notin 1..i  OBVIOUS
    <2>6. IsSeq(kept[i + 1])  BY <2>3, <2>4, AppendFacts DEF Keep
    <2>7. CASE p[i + 1] = tx
      <3>1. upto(i + 1) = upto(i) \cup {i + 1} /\ i + 1 \notin upto(i)  BY <2>5, <2>7
      <3> HIDE DEF upto
      <3>2. IsFiniteSet(upto(i + 1)) /\ Cardinality(upto(i + 1)) = Cardinality(upto(i)) + 1
        BY <2>4, <3>1, FS_AddElement
      <3>3. CASE tx.amount = 0  BY <2>3, <2>4, <2>6, <2>7, <3>2, <3>3 DEF Keep
      <3>4. CASE tx.amount # 0
        <4>1. kept[i + 1] = Append(kept[i], tx)  BY <2>3, <2>7, <3>4 DEF Keep
        <4>2. Count(kept[i + 1], tx) = Count(kept[i], tx) + 1  BY <2>4, <4>1, CountAppend
        <4>3. QED  BY <2>4, <2>6, <3>2, <3>4, <4>2
      <3>5. QED  BY <3>3, <3>4
    <2>8. CASE p[i + 1] # tx
      <3>1. upto(i + 1) = upto(i)  BY <2>5, <2>8
      <3> HIDE DEF upto
      <3>2. Count(kept[i + 1], tx) = Count(kept[i], tx)
        <4>1. CASE p[i + 1].amount = 0  BY <2>3, <4>1 DEF Keep
        <4>2. CASE p[i + 1].amount # 0
          <5>1. kept[i + 1] = Append(kept[i], p[i + 1])  BY <2>3, <4>2 DEF Keep
          <5>2. Count(kept[i + 1], tx) = Count(kept[i], tx) + 0  BY <2>4, <2>8, <5>1, CountAppend
          <5>3. Count(kept[i], tx) \in Nat  BY <2>4, CountType
          <5>4. QED  BY <5>2, <5>3
        <4>3. QED  BY <4>1, <4>2
      <3>3. QED  BY <2>4, <2>6, <3>1, <3>2
    <2>9. QED  BY <2>7, <2>8
  <1>7. n \in N
    <2> HIDE DEF N
    <2>1. QED  BY <1>1, <1>5, <1>6, NatSetInduction
  <1>8. Count(p, tx) = Cardinality(upto(n))  BY <1>1 DEF Count
  <1>9. n \in 0..n  BY <1>1
  <1>10. Count(kept[n], tx) = IF tx.amount = 0 THEN 0 ELSE Cardinality(upto(n))
    BY <1>7, <1>9
  <1> HIDE DEF upto, N
  <1>11. QED  BY <1>3, <1>8, <1>10

-----------------------------------------------------------------------------
(* The lanes of a block *)

\* How many elements of a set are not greater than i.
Rank(own, i) == Cardinality({j \in own : j <= i})

\* The elements of a finite set of numbers have the ranks 1, 2, and so on.
LEMMA RanksAreDense ==
    ASSUME NEW own, own \in SUBSET Nat, IsFiniteSet(own)
    PROVE  /\ Cardinality(own) \in Nat
           /\ \A i \in own : Rank(own, i) \in 1..Cardinality(own)
           /\ \A i, j \in own : Rank(own, i) = Rank(own, j) => i = j
           /\ \A k \in 1..Cardinality(own) : \E i \in own : Rank(own, i) = k
  <1> DEFINE upto(i) == {j \in own : j <= i}
             m == Cardinality(own)
             rank == [i \in own |-> Rank(own, i)]
  <1>1. m \in Nat  BY FS_CardinalityType
  <1>2. ASSUME NEW i \in own PROVE IsFiniteSet(upto(i)) /\ Cardinality(upto(i)) \in 1..m
    <2>1. upto(i) \in SUBSET own /\ i \in upto(i)  OBVIOUS
    <2> HIDE DEF upto
    <2>2. IsFiniteSet(upto(i)) /\ Cardinality(upto(i)) <= m  BY <2>1, FS_Subset
    <2>3. Cardinality(upto(i)) \in Nat /\ Cardinality(upto(i)) # 0
      BY <2>1, <2>2, FS_CardinalityType, FS_EmptySet
    <2>4. QED  BY <1>1, <2>2, <2>3
  <1>3. ASSUME NEW i \in own, NEW j \in own, i < j PROVE Rank(own, i) # Rank(own, j)
    <2>0. i \in Nat /\ j \in Nat /\ own \subseteq Nat  OBVIOUS
    <2>1. upto(i) \in SUBSET upto(j)
      <3>1. ASSUME NEW k \in own, k <= i PROVE k <= j  BY <1>3, <2>0, <3>1
      <3>2. QED  BY <3>1
    <2>2. upto(i) # upto(j)
      <3>1. j \in upto(j) /\ j \notin upto(i)  BY <1>3, <2>0
      <3>2. QED  BY <3>1
    <2>3. IsFiniteSet(upto(j))  BY <1>2
    <2> HIDE DEF upto
    <2>4. Cardinality(upto(j)) # Cardinality(upto(i))  BY <2>1, <2>2, <2>3, FS_Subset
    <2>5. QED  BY <2>4 DEF Rank, upto
  <1>4. \A i, j \in own : Rank(own, i) = Rank(own, j) => i = j
    <2>1. ASSUME NEW i \in own, NEW j \in own, Rank(own, i) = Rank(own, j) PROVE i = j
      <3>1. i \in Nat /\ j \in Nat  OBVIOUS
      <3>2. ~(i < j) /\ ~(j < i)  BY <1>3, <2>1
      <3>3. QED  BY <3>1, <3>2
    <2>2. QED  BY <2>1
  <1>5. \A i \in own : Rank(own, i) \in 1..m  BY <1>2 DEF Rank
  <1>6. ASSUME NEW k \in 1..m PROVE \E i \in own : Rank(own, i) = k
    <2>1. rank \in Injection(own, 1..m)
      <3>1. rank \in [own -> 1..m]  BY <1>5
      <3>2. \A i, j \in own : rank[i] = rank[j] => i = j  BY <1>4
      <3> HIDE DEF rank, m
      <3>3. QED  BY <3>1, <3>2 DEF Injection, IsInjective
    <2>2. IsFiniteSet(1..m) /\ Cardinality(1..m) = m
      <3> HIDE DEF m
      <3>1. QED  BY <1>1, FS_Interval
    <2>3. rank \in Surjection(own, 1..m)
      <3> HIDE DEF rank
      <3>1. QED  BY <2>1, <2>2, FS_Injection
    <2>4. \E i \in own : rank[i] = k
      <3> HIDE DEF rank, m
      <3>1. QED  BY <2>3 DEF Surjection
    <2>5. QED  BY <2>4
  <1>7. QED  BY <1>1, <1>4, <1>5, <1>6

\* The positions of lane l in a buffer.
OwnOf(buffer, rr, l) == {i \in DOMAIN buffer : (rr + i - 1) % Lanes = l}

\* The positions of lane l with a given transaction.
HitsOf(buffer, rr, l, tx) == {i \in OwnOf(buffer, rr, l) : buffer[i] = tx}

\* A lane holds the transactions at its positions.
LEMMA LaneCount ==
    ASSUME NEW buffer, IsSeq(buffer), NEW rr, NEW l \in LaneSet, NEW tx
    PROVE  /\ IsSeq(Laned(buffer, rr)[l]) /\ IsFiniteSet(HitsOf(buffer, rr, l, tx))
           /\ Count(Laned(buffer, rr)[l], tx) = Cardinality(HitsOf(buffer, rr, l, tx))
  <1> DEFINE own == OwnOf(buffer, rr, l)
             m == Cardinality(own)
             pick(k) == CHOOSE i \in own : Rank(own, i) = k
             lane == [k \in 1..m |-> buffer[pick(k)]]
             K == {k \in 1..m : lane[k] = tx}
             S == {i \in own : buffer[i] = tx}
             f == [k \in K |-> pick(k)]
  <1>1. Laned(buffer, rr)[l] = lane /\ IsSeq(Laned(buffer, rr)[l])
    <2>1. Laned(buffer, rr)[l] =
            [k \in 1..Cardinality(own) |-> buffer[CHOOSE i \in own : Cardinality({j \in own : j <= i}) = k]]
      BY DEF Laned, LaneSet, OwnOf
    <2>2. IsSeq(Laned(buffer, rr)[l])  BY LanesAreSeqs
    <2>3. QED  BY <2>1, <2>2, Zenon DEF Rank
  <1>2. own \in SUBSET Nat /\ IsFiniteSet(own)
    <2>1. DOMAIN buffer = 1..Len(buffer) /\ Len(buffer) \in Nat  BY SeqFacts
    <2>2. IsFiniteSet(DOMAIN buffer)  BY <2>1, FS_Interval
    <2>3. own \in SUBSET DOMAIN buffer  BY DEF OwnOf
    <2> HIDE DEF own
    <2>4. IsFiniteSet(own)  BY <2>2, <2>3, FS_Subset
    <2>5. QED  BY <2>1, <2>3, <2>4
  <1> HIDE DEF own
  <1>3. /\ m \in Nat
        /\ \A i \in own : Rank(own, i) \in 1..m
        /\ \A i, j \in own : Rank(own, i) = Rank(own, j) => i = j
        /\ \A k \in 1..m : \E i \in own : Rank(own, i) = k
    BY <1>2, RanksAreDense
  <1>4. ASSUME NEW k \in 1..m PROVE pick(k) \in own /\ Rank(own, pick(k)) = k
    BY <1>3
  <1>5. ASSUME NEW i \in own PROVE pick(Rank(own, i)) = i  BY <1>3, <1>4
  <1> HIDE DEF m, pick
  <1>6. IsFiniteSet(K) /\ IsFiniteSet(S) /\ Cardinality(S) = Cardinality(K)
    <2>1. K \in SUBSET (1..m) /\ IsFiniteSet(1..m)  BY <1>3, FS_Interval
    <2>2. f \in [K -> S]  BY <1>4
    <2>3. \A k, j \in K : f[k] = f[j] => k = j  BY <1>4
    <2>4. ASSUME NEW i \in S PROVE \E k \in K : f[k] = i
      <3>1. Rank(own, i) \in 1..m /\ pick(Rank(own, i)) = i  BY <1>3, <1>5
      <3>2. Rank(own, i) \in K  BY <3>1
      <3>3. QED  BY <3>1, <3>2
    <2> HIDE DEF K, S, f
    <2>5. IsFiniteSet(K)  BY <2>1, FS_Subset
    <2>6. QED  BY <2>2, <2>3, <2>4, <2>5, SameSize
  <1>7. Count(lane, tx) = Cardinality(K)  BY DEF Count
  <1> HIDE DEF K, S, lane
  <1>8. Count(Laned(buffer, rr)[l], tx) = Cardinality(S)  BY <1>1, <1>6, <1>7
  <1>9. HitsOf(buffer, rr, l, tx) = S  BY DEF HitsOf, S, own
  <1>10. QED  BY <1>1, <1>6, <1>8, <1>9

\* How often a transaction is in each lane.
LaneCounts(laned, tx) == [l \in LaneSet |-> Count(laned[l], tx)]

\* Every transaction of a block is in one lane, as often as it is in the block.
LEMMA LanesCountAll ==
    ASSUME NEW buffer, IsSeq(buffer), NEW rr \in Nat, NEW tx
    PROVE  SumFunctionOnSet(LaneCounts(Laned(buffer, rr), tx), LaneSet) = Count(buffer, tx)
  <1> DEFINE f == LaneCounts(Laned(buffer, rr), tx)
             own(l) == HitsOf(buffer, rr, l, tx)
             low(n) == {i \in DOMAIN buffer : (rr + i - 1) % Lanes < n /\ buffer[i] = tx}
             N == {n \in Nat : n <= Lanes => /\ Summable(f, 0..(n - 1))
                                             /\ SumFunctionOnSet(f, 0..(n - 1)) = Cardinality(low(n))}
  <1>1. Lanes \in Nat \ {0} /\ LaneSet = 0..(Lanes - 1)  BY LanesAssumed DEF LaneSet
  <1>2. DOMAIN buffer = 1..Len(buffer) /\ Len(buffer) \in Nat /\ IsFiniteSet(DOMAIN buffer)
    BY SeqFacts, CountType
  <1>3. ASSUME NEW i \in DOMAIN buffer PROVE (rr + i - 1) % Lanes \in LaneSet
    <2>1. rr + i - 1 \in Nat  BY <1>2
    <2>2. QED  BY <1>1, <2>1
  <1>4. ASSUME NEW l \in LaneSet
        PROVE  f[l] = Cardinality(own(l)) /\ IsFiniteSet(own(l)) /\ f[l] \in Nat
    <2>1. IsFiniteSet(own(l)) /\ Count(Laned(buffer, rr)[l], tx) = Cardinality(own(l))
      BY LaneCount
    <2> HIDE DEF own
    <2>2. QED  BY <2>1, FS_CardinalityType DEF LaneCounts
  <1>5. ASSUME NEW n PROVE IsFiniteSet(low(n))
    <2>1. low(n) \in SUBSET DOMAIN buffer  OBVIOUS
    <2> HIDE DEF low
    <2>2. QED  BY <1>2, <2>1, FS_Subset
  <1>6. 0 \in N
    <2>1. 0..(0 - 1) = {}  OBVIOUS
    <2>2. low(0) = {}  BY <1>1, <1>3
    <2>3. Summable(f, {})  BY FS_EmptySet DEF Summable
    <2> HIDE DEF f, low
    <2>4. Cardinality(low(0)) = 0  BY <2>2, FS_EmptySet
    <2>5. SumFunctionOnSet(f, {}) = 0  BY SumEmpty
    <2>6. QED  BY <2>1, <2>3, <2>4, <2>5
  <1>7. ASSUME NEW n \in Nat, n \in N PROVE n + 1 \in N
    <2>0. n + 1 \in Nat  OBVIOUS
    <2>1. SUFFICES ASSUME n + 1 <= Lanes
                   PROVE  /\ Summable(f, 0..((n + 1) - 1))
                          /\ SumFunctionOnSet(f, 0..((n + 1) - 1)) = Cardinality(low(n + 1))
      <3> HIDE DEF f, low
      <3>1. QED  BY <2>0
    <2>2. n <= Lanes /\ n \in LaneSet  BY <1>1, <2>1
    <2>3. Summable(f, 0..(n - 1)) /\ SumFunctionOnSet(f, 0..(n - 1)) = Cardinality(low(n))
      BY <1>7, <2>2
    <2>4. 0..((n + 1) - 1) = 0..(n - 1) \cup {n} /\ n \notin 0..(n - 1)  OBVIOUS
    <2>5. f[n] = Cardinality(own(n)) /\ IsFiniteSet(own(n)) /\ f[n] \in Nat  BY <1>4, <2>2
    <2>6. /\ Summable(f, 0..(n - 1) \cup {n})
          /\ SumFunctionOnSet(f, 0..(n - 1) \cup {n}) = SumFunctionOnSet(f, 0..(n - 1)) + f[n]
      <3>1. f[n] \in Int  BY <2>5
      <3>2. PICK S : S = 0..(n - 1)  OBVIOUS
      <3> HIDE DEF f
      <3>3. Summable(f, S) /\ n \notin S  BY <2>3, <2>4, <3>2
      <3>4. Summable(f, S \cup {n}) /\ SumFunctionOnSet(f, S \cup {n}) = SumFunctionOnSet(f, S) + f[n]
        BY <3>1, <3>3, SumAdd
      <3>5. QED  BY <3>2, <3>4
    <2>7. low(n + 1) = low(n) \cup own(n) /\ low(n) \cap own(n) = {}
      <3>1. ASSUME NEW i \in DOMAIN buffer, NEW v, v = (rr + i - 1) % Lanes
            PROVE  (v < n + 1 <=> v < n \/ v = n) /\ ~(v < n /\ v = n)
        <4>1. v \in Nat  BY <1>1, <1>3, <3>1
        <4>2. QED  BY <4>1
      <3>2. \A i \in DOMAIN buffer :
               /\ (rr + i - 1) % Lanes < n + 1 <=> (rr + i - 1) % Lanes < n \/ (rr + i - 1) % Lanes = n
               /\ ~((rr + i - 1) % Lanes < n /\ (rr + i - 1) % Lanes = n)
        BY <3>1
      <3>3. QED  BY <3>2, Zenon DEF HitsOf, OwnOf
    <2>8. Cardinality(low(n + 1)) = Cardinality(low(n)) + Cardinality(own(n))
      <3>1. IsFiniteSet(low(n)) /\ Cardinality(low(n)) \in Nat  BY <1>5, FS_CardinalityType
      <3> HIDE DEF low, own
      <3>2. Cardinality(low(n) \cup own(n)) = Cardinality(low(n)) + Cardinality(own(n)) - Cardinality({})
        BY <2>5, <2>7, <3>1, FS_Union
      <3>3. Cardinality({}) = 0 /\ Cardinality(own(n)) \in Nat  BY <2>5, FS_EmptySet
      <3>4. PICK a, b, u : a = Cardinality(low(n)) /\ b = Cardinality(own(n)) /\ u = low(n) \cup own(n)
        OBVIOUS
      <3>5. Cardinality(u) = a + b - 0 /\ a \in Nat /\ b \in Nat  BY <3>1, <3>2, <3>3, <3>4
      <3>6. Cardinality(u) = a + b  BY <3>5
      <3>7. u = low(n + 1)  BY <2>7, <3>4, Zenon
      <3>8. QED  BY <3>4, <3>6, <3>7, Zenon
    <2> HIDE DEF f, low, own
    <2>9. SumFunctionOnSet(f, 0..(n - 1) \cup {n}) = Cardinality(low(n + 1))  BY <2>3, <2>5, <2>6, <2>8
    <2>10. QED  BY <2>4, <2>6, <2>9
  <1>8. Lanes \in N
    <2> HIDE DEF N
    <2>1. QED  BY <1>1, <1>6, <1>7, NatSetInduction
  <1>9. low(Lanes) = {i \in DOMAIN buffer : buffer[i] = tx}  BY <1>1, <1>3
  <1>10. SumFunctionOnSet(f, LaneSet) = Cardinality(low(Lanes))  BY <1>1, <1>8
  <1> HIDE DEF f, low
  <1>11. QED  BY <1>9, <1>10 DEF Count, f

-----------------------------------------------------------------------------
(* Where transactions are, in any run of the daemons *)

\* The requests that still carry transactions.
Waiting    == {b \in batches : b.pc \in {"arrived", "forward"}}
Submitting == {c \in commits : c.pc = "arrived"}

\* The lanes of the sealed block that the sequencer has not posted.
Unposted == {l \in LaneSet : l > seq.lane \/ (l = seq.lane /\ seq.pc = "post")}

\* How often a transaction is held by a set of requests, by the sequencer, by the
\* aggregator's unfinished blocks and by the blocks of the L1 node.
HeldCounts(requests, tx) == [r \in requests |-> Count(r.txs, tx)]
Held(requests, tx)       == SumFunctionOnSet(HeldCounts(requests, tx), requests)

InSequencer(tx) == IF seq.pc = "select" THEN Count(seq.buffer, tx)
                   ELSE SumFunctionOnSet(LaneCounts(seq.laned, tx), Unposted)

StateCounts(tx) == [x \in DOMAIN states |-> Count(states[x].txs, tx)]
InStates(tx)    == SumFunctionOnSet(StateCounts(tx), DOMAIN states)

BlockCounts(tx) == [x \in DOMAIN blocks |-> Count(Certified(x), tx)]
InBlocks(tx)    == SumFunctionOnSet(BlockCounts(tx), DOMAIN blocks)

\* What the places hold.
IsRequest(r) == DOMAIN r = Fields /\ IsSeq(r.txs)

SeqTypes == /\ DOMAIN seq = {"run", "pc", "buffer", "rr", "currentBlock", "laned", "lane", "failed"}
            /\ seq.run \in Nat /\ seq.currentBlock \in Nat /\ seq.rr \in Nat
            /\ seq.pc \in {"select", "post", "await"} /\ seq.lane \in LaneSet
            /\ seq.pc = "select" => seq.lane = 0
            /\ IsSeq(txCh) /\ IsSeq(seq.buffer)
            /\ seq.pc # "select" => \A l \in LaneSet : IsSeq(seq.laned[l])

BatchTypes  == IsFiniteSet(batches) /\ \A b \in batches : IsRequest(b)
CommitTypes == IsFiniteSet(commits) /\ \A c \in commits : IsRequest(c)
StateTypes  == IsFiniteSet(DOMAIN states) /\ \A x \in DOMAIN states : IsSeq(states[x].txs)
BlockTypes  == IsFiniteSet(DOMAIN blocks) /\ \A x \in DOMAIN blocks : IsSeq(Certified(x))

Types == /\ written \in [Txs -> Nat]
         /\ SeqTypes /\ BatchTypes /\ CommitTypes /\ StateTypes /\ BlockTypes

\* Nothing that was written once is at two of the places.
Conserved(tx) == Count(txCh, tx) + InSequencer(tx) + Held(Waiting, tx) + InStates(tx)
                     + Held(Submitting, tx) + InBlocks(tx) <= written[tx]

-----------------------------------------------------------------------------
(* What the blocks of the sequencer's first run are made of *)

SealedBlocks == {x \in Nat : <<0, x>> \in DOMAIN sealed}

\* The lanes hold what the block holds.
Splits(laned, txs) == /\ \A l \in LaneSet : IsSeq(laned[l])
                      /\ \A tx \in Txs : SumFunctionOnSet(LaneCounts(laned, tx), LaneSet) = Count(txs, tx)

\* The valid transactions of block x, as often as they were sealed.
IsWhole(txs, x) ==
    \A tx \in Txs : Count(txs, tx) = IF tx.amount = 0 THEN 0 ELSE Count(sealed[<<0, x>>], tx)

\* The state of a block holds what its lanes hold.
Collects(st, laned) ==
    \A tx \in Txs : Count(st.txs, tx) = IF tx.amount = 0 THEN 0
                                        ELSE SumFunctionOnSet(LaneCounts(laned, tx), st.lanes)

SealedInv == /\ \A x \in SealedBlocks : \/ x < seq.currentBlock
                                        \/ x = seq.currentBlock /\ seq.pc # "select"
             /\ seq.pc # "select" => seq.currentBlock \in SealedBlocks

\* Each lane of a block is posted once.
KeysInv == /\ \A b \in batches : b.lane \in LaneSet /\ b.block \in SealedBlocks /\ Posted(b.block, b.lane)
           /\ \A b, c \in batches : b.block = c.block /\ b.lane = c.lane => b = c

\* A plan is how the sequencer has split each block into lanes; the requests, the
\* unfinished blocks and the certified ones are what it says.
SeqFits(plan)     == /\ \A x \in SealedBlocks : Splits(plan[x], sealed[<<0, x>>])
                     /\ seq.pc # "select" => seq.laned = plan[seq.currentBlock]
BatchesFit(plan)  == \A b \in batches : /\ b.pc = "arrived" => b.txs = plan[b.block][b.lane]
                                        /\ b.pc = "forward" => IsWhole(b.txs, b.block)
StatesFit(plan)   == \A x \in DOMAIN states : /\ x \in SealedBlocks /\ states[x].lanes \subseteq Handled(x)
                                              /\ Collects(states[x], plan[x])
CommitsFit == \A c \in commits : c.block \in SealedBlocks /\ (c.pc = "arrived" => IsWhole(c.txs, c.block))
BlocksFit  == \A x \in DOMAIN blocks : x \in SealedBlocks /\ IsWhole(Certified(x), x)

FirstRun == /\ SealedInv /\ KeysInv /\ CommitsFit /\ BlocksFit
            /\ \E plan : SeqFits(plan) /\ BatchesFit(plan) /\ StatesFit(plan)

-----------------------------------------------------------------------------
(* Counting *)

\* Requests that hold sequences.
AreRequests(R) == IsFiniteSet(R) /\ \A r \in R : IsSeq(r.txs)

\* What requests hold is a number.
LEMMA HeldNat ==
    ASSUME NEW R, AreRequests(R), NEW tx PROVE Countable(HeldCounts(R, tx), R) /\ Held(R, tx) \in Nat
  <1>1. Countable(HeldCounts(R, tx), R)  BY CountType DEF Countable, HeldCounts, AreRequests
  <1>2. QED  BY <1>1, SumNat DEF Held

\* Without one of them.
LEMMA HeldRemove ==
    ASSUME NEW R, AreRequests(R), NEW tx, NEW r \in R
    PROVE  AreRequests(R \ {r}) /\ Held(R, tx) = Held(R \ {r}, tx) + Count(r.txs, tx)
  <1> DEFINE f == HeldCounts(R, tx)
             g == HeldCounts(R \ {r}, tx)
  <1>1. Countable(f, R)  BY HeldNat
  <1>2. Agree(g, f, R \ {r})  BY DEF HeldCounts, Agree
  <1>3. f[r] = Count(r.txs, tx)  BY DEF HeldCounts
  <1>4. IsFiniteSet(R \ {r})  BY FS_Subset DEF AreRequests
  <1> HIDE DEF f, g
  <1>5. SumFunctionOnSet(f, R) = SumFunctionOnSet(g, R \ {r}) + f[r]  BY <1>1, <1>2, SumDrop
  <1>6. QED  BY <1>3, <1>4, <1>5 DEF Held, AreRequests, f, g

\* One more adds at most what it holds.
LEMMA HeldAdd ==
    ASSUME NEW R, AreRequests(R), NEW tx, NEW r, IsSeq(r.txs)
    PROVE  AreRequests(R \cup {r}) /\ Held(R \cup {r}, tx) <= Held(R, tx) + Count(r.txs, tx)
  <1> DEFINE f == HeldCounts(R, tx)
             g == HeldCounts(R \cup {r}, tx)
  <1>1. Countable(f, R) /\ SumFunctionOnSet(f, R) \in Nat  BY HeldNat DEF Held
  <1>2. Agree(g, f, R \ {r})  BY DEF HeldCounts, Agree
  <1>3. g[r] = Count(r.txs, tx) /\ g[r] \in Nat  BY CountType DEF HeldCounts
  <1>4. IsFiniteSet(R \cup {r})  BY FS_AddElement DEF AreRequests
  <1> HIDE DEF f, g
  <1>5. SumFunctionOnSet(g, R \cup {r}) <= SumFunctionOnSet(f, R) + g[r]
    BY <1>1, <1>2, <1>3, SumPut
  <1>6. QED  BY <1>3, <1>4, <1>5 DEF Held, AreRequests, f, g

\* None holds nothing.
LEMMA HeldNone == ASSUME NEW tx PROVE AreRequests({}) /\ Held({}, tx) = 0
  BY FS_EmptySet, SumEmpty DEF AreRequests, Held

\* Each place holds a number of times that a transaction is there.
PlacesOK(tx) ==
    /\ Count(txCh, tx) \in Nat /\ InSequencer(tx) \in Nat /\ written[tx] \in Nat
    /\ AreRequests(Waiting) /\ AreRequests(Submitting)
    /\ Held(Waiting, tx) \in Nat /\ Held(Submitting, tx) \in Nat
    /\ Countable(StateCounts(tx), DOMAIN states) /\ InStates(tx) \in Nat
    /\ Countable(BlockCounts(tx), DOMAIN blocks) /\ InBlocks(tx) \in Nat

\* The lanes are finitely many.
LEMMA LanesFinite == IsFiniteSet(LaneSet) /\ LaneSet \subseteq Nat /\ Cardinality(LaneSet) = Lanes
  <1>1. 0 \in Int /\ Lanes - 1 \in Int /\ ~(0 > Lanes - 1) /\ (Lanes - 1) - 0 + 1 = Lanes
    BY LanesAssumed
  <1>2. QED  BY <1>1, FS_Interval DEF LaneSet

\* It does.
LEMMA PlacesNat == ASSUME Types, NEW tx \in Txs PROVE PlacesOK(tx)
  <1>1. Count(txCh, tx) \in Nat /\ written[tx] \in Nat  BY CountType DEF Types, SeqTypes
  <1>2. InSequencer(tx) \in Nat
    <2>1. CASE seq.pc = "select"  BY <2>1, CountType DEF Types, SeqTypes, InSequencer
    <2>2. CASE seq.pc # "select"
      <3>1. IsFiniteSet(LaneSet)  BY LanesFinite
      <3>2. Unposted \in SUBSET LaneSet  BY DEF Unposted
      <3>3. IsFiniteSet(Unposted)  BY <3>1, <3>2, FS_Subset
      <3>4. Countable(LaneCounts(seq.laned, tx), Unposted)
        BY <2>2, <3>2, <3>3, CountType DEF Countable, LaneCounts, Types, SeqTypes
      <3>5. QED  BY <2>2, <3>4, SumNat DEF InSequencer
    <2>3. QED  BY <2>1, <2>2
  <1>3. AreRequests(Waiting) /\ AreRequests(Submitting)
    <2>1. Waiting \in SUBSET batches /\ Submitting \in SUBSET commits  BY DEF Waiting, Submitting
    <2>2. IsFiniteSet(Waiting) /\ IsFiniteSet(Submitting)
      BY <2>1, FS_Subset DEF Types, BatchTypes, CommitTypes
    <2>3. QED  BY <2>1, <2>2 DEF AreRequests, Types, BatchTypes, CommitTypes, IsRequest
  <1>4. Held(Waiting, tx) \in Nat /\ Held(Submitting, tx) \in Nat  BY <1>3, HeldNat
  <1>5. Countable(StateCounts(tx), DOMAIN states)
    BY CountType DEF Countable, StateCounts, Types, StateTypes
  <1>6. Countable(BlockCounts(tx), DOMAIN blocks)
    BY CountType DEF Countable, BlockCounts, Types, BlockTypes
  <1>7. QED  BY <1>1, <1>2, <1>3, <1>4, <1>5, <1>6, SumNat DEF InStates, InBlocks, PlacesOK

AllPlacesOK == \A tx \in Txs : PlacesOK(tx)

\* The same after a step.
LEMMA PlacesNatNext == Types' => \A tx \in Txs : PlacesOK(tx)'
  <1>1. Types => AllPlacesOK  BY PlacesNat DEF AllPlacesOK
  <1>2. Types' => AllPlacesOK'  BY <1>1, PTL
  <1>3. QED  BY <1>2 DEF AllPlacesOK

-----------------------------------------------------------------------------
(* No transaction is multiplied *)

Counted == Types /\ \A tx \in Txs : Conserved(tx)

\* What an ordinary step of ingress and the sequencer leaves alone.
LEMMA RestKept ==
    ASSUME Types, UNCHANGED <<batches, states, commits, blocks>>, NEW tx
    PROVE  /\ BatchTypes' /\ CommitTypes' /\ StateTypes' /\ BlockTypes'
           /\ Held(Waiting, tx)' = Held(Waiting, tx) /\ Held(Submitting, tx)' = Held(Submitting, tx)
           /\ InStates(tx)' = InStates(tx) /\ InBlocks(tx)' = InBlocks(tx)
  <1>1. BatchTypes' /\ CommitTypes' /\ StateTypes' /\ BlockTypes'
    BY DEF Types, BatchTypes, CommitTypes, StateTypes, BlockTypes, Certified
  <1>2. Waiting' = Waiting /\ Submitting' = Submitting  BY DEF Waiting, Submitting
  <1>3. InStates(tx)' = InStates(tx) /\ InBlocks(tx)' = InBlocks(tx)
    BY DEF InStates, StateCounts, InBlocks, BlockCounts, Certified
  <1>4. QED  BY <1>1, <1>2, <1>3

\* A step of them keeps the count if it does not have more transactions than were written.
LEMMA StreamCounts ==
    ASSUME Counted, UNCHANGED <<batches, states, commits, blocks>>, SeqTypes', written' \in [Txs -> Nat],
           \A tx \in Txs : Count(txCh, tx)' + InSequencer(tx)' + written[tx]
                               <= Count(txCh, tx) + InSequencer(tx) + written'[tx]
    PROVE  Counted'
  <1>1. Types'  BY RestKept DEF Counted, Types
  <1>2. ASSUME NEW tx \in Txs PROVE Conserved(tx)'
    <2>1. /\ Held(Waiting, tx)' = Held(Waiting, tx) /\ Held(Submitting, tx)' = Held(Submitting, tx)
          /\ InStates(tx)' = InStates(tx) /\ InBlocks(tx)' = InBlocks(tx)
      BY RestKept DEF Counted
    <2>2. /\ Count(txCh, tx) \in Nat /\ InSequencer(tx) \in Nat /\ written[tx] \in Nat
          /\ Held(Waiting, tx) \in Nat /\ Held(Submitting, tx) \in Nat
          /\ InStates(tx) \in Nat /\ InBlocks(tx) \in Nat
      BY PlacesNat DEF Counted, PlacesOK
    <2>3. Count(txCh, tx)' \in Nat /\ InSequencer(tx)' \in Nat /\ written'[tx] \in Nat
      BY <1>1, PlacesNatNext DEF PlacesOK
    <2>4. Conserved(tx)  BY DEF Counted
    <2>5. QED  BY <2>1, <2>2, <2>3, <2>4 DEF Conserved
  <1>3. QED  BY <1>1, <1>2 DEF Counted

\* Ingress writes a transaction.
LEMMA WriteTxCounts == ASSUME Counted, WriteTx PROVE Counted'
  <1>1. PICK t : written' = [written EXCEPT ![t] = @ + 1] /\ Arrives(t)  BY DEF WriteTx
  <1>2. UNCHANGED <<seq, batches, states, commits, blocks>>  BY DEF WriteTx, l1vars
  <1>3. written \in [Txs -> Nat] /\ SeqTypes /\ IsSeq(txCh)  BY DEF Counted, Types, SeqTypes
  <1>4. written' \in [Txs -> Nat]
    <2>1. CASE t \in Txs  BY <1>1, <1>3, <2>1
    <2>2. CASE t \notin Txs
      <3>1. written' = written  BY <1>1, <1>3, <2>2
      <3>2. QED  BY <1>3, <3>1
    <2>3. QED  BY <2>1, <2>2
  <1>5. IsSeq(txCh') /\ (txCh' = txCh \/ txCh' = Append(txCh, t))
    <2>1. txCh' = txCh \/ txCh' = Append(txCh, t)  BY <1>1 DEF Arrives
    <2>2. IsSeq(Append(txCh, t))  BY <1>3, AppendFacts
    <2>3. QED  BY <1>3, <2>1, <2>2
  <1>6. SeqTypes'  BY <1>2, <1>3, <1>5 DEF SeqTypes
  <1>7. ASSUME NEW tx \in Txs
        PROVE  Count(txCh, tx)' + InSequencer(tx)' + written[tx]
                   <= Count(txCh, tx) + InSequencer(tx) + written'[tx]
    <2>1. InSequencer(tx)' = InSequencer(tx)  BY <1>2 DEF InSequencer, Unposted
    <2>2. Count(txCh, tx) \in Nat /\ InSequencer(tx) \in Nat /\ written[tx] \in Nat
      BY PlacesNat DEF Counted, PlacesOK
    <2>3. written'[tx] = written[tx] + (IF t = tx THEN 1 ELSE 0)  BY <1>1, <1>3, <2>2
    <2>4. Count(txCh', tx) <= Count(txCh, tx) + (IF t = tx THEN 1 ELSE 0)
      <3>1. CASE txCh' = txCh  BY <2>2, <3>1
      <3>2. CASE txCh' = Append(txCh, t)
        <4>1. Count(Append(txCh, t), tx) = Count(txCh, tx) + (IF t = tx THEN 1 ELSE 0)
          BY <1>3, CountAppend
        <4>2. QED  BY <2>2, <3>2, <4>1
      <3>3. QED  BY <1>5, <3>1, <3>2
    <2>5. Count(txCh', tx) \in Nat  BY <1>5, CountType
    <2>6. QED  BY <2>1, <2>2, <2>3, <2>4, <2>5
  <1>8. QED  BY <1>2, <1>4, <1>6, <1>7, StreamCounts

\* The sequencer takes a transaction from the channel.
LEMMA ReceiveCounts == ASSUME Counted, Receive PROVE Counted'
  <1>1. SeqTypes /\ seq.pc = "select" /\ txCh # <<>> /\ IsSeq(txCh) /\ IsSeq(seq.buffer)
    BY DEF Counted, Types, SeqTypes, Receive
  <1>2. PICK t : t = Head(txCh)  OBVIOUS
  <1>3. seq' = [seq EXCEPT !.buffer = Append(@, t)] /\ txCh' = Tail(txCh)  BY <1>2 DEF Receive
  <1>4. /\ DOMAIN seq' = DOMAIN seq /\ seq'.buffer = Append(seq.buffer, t)
        /\ seq'.run = seq.run /\ seq'.pc = seq.pc /\ seq'.currentBlock = seq.currentBlock
        /\ seq'.lane = seq.lane /\ seq'.rr = seq.rr /\ seq'.laned = seq.laned
    BY <1>1, <1>3 DEF SeqTypes
  <1>5. IsSeq(txCh') /\ IsSeq(seq'.buffer)  BY <1>1, <1>3, <1>4, TailFacts, AppendFacts
  <1>6. SeqTypes'  BY <1>1, <1>4, <1>5 DEF SeqTypes
  <1>7. UNCHANGED <<written, batches, states, commits, blocks>>  BY DEF Receive, source, l1vars
  <1>8. ASSUME NEW tx \in Txs
        PROVE  Count(txCh, tx)' + InSequencer(tx)' + written[tx]
                   <= Count(txCh, tx) + InSequencer(tx) + written'[tx]
    <2>1. Count(txCh, tx) = Count(txCh', tx) + (IF t = tx THEN 1 ELSE 0)
      BY <1>1, <1>2, <1>3, CountTail
    <2>2. Count(seq'.buffer, tx) = Count(seq.buffer, tx) + (IF t = tx THEN 1 ELSE 0)
      BY <1>1, <1>4, CountAppend
    <2>3. InSequencer(tx) = Count(seq.buffer, tx) /\ InSequencer(tx)' = Count(seq'.buffer, tx)
      BY <1>1, <1>4 DEF InSequencer
    <2>4. Count(seq.buffer, tx) \in Nat /\ Count(txCh', tx) \in Nat  BY <1>1, <1>5, CountType
    <2>5. written[tx] \in Nat  BY DEF Counted, Types
    <2>6. QED  BY <1>7, <2>1, <2>2, <2>3, <2>4, <2>5
  <1>9. QED  BY <1>6, <1>7, <1>8, StreamCounts DEF Counted, Types

\* The buffer is split into lanes.
LEMMA SealResult ==
    ASSUME SeqTypes, Seal
    PROVE  /\ seq.pc = "select" /\ DOMAIN seq' = DOMAIN seq /\ seq'.pc = "post" /\ seq'.lane = 0
           /\ seq'.buffer = seq.buffer /\ seq'.laned = Laned(seq.buffer, seq.rr)
           /\ seq'.run = seq.run /\ seq'.currentBlock = seq.currentBlock
           /\ SeqTypes'
  <1>1. seq' = [seq EXCEPT !.pc = "post", !.lane = 0, !.laned = Laned(seq.buffer, seq.rr),
                           !.rr = @ + Len(seq.buffer)]
    BY DEF Seal
  <1>2. /\ DOMAIN seq' = DOMAIN seq /\ seq'.pc = "post" /\ seq'.lane = 0
        /\ seq'.buffer = seq.buffer /\ seq'.laned = Laned(seq.buffer, seq.rr)
        /\ seq'.run = seq.run /\ seq'.currentBlock = seq.currentBlock
        /\ seq'.rr = seq.rr + Len(seq.buffer)
    BY <1>1 DEF SeqTypes
  <1>3. Len(seq.buffer) \in Nat  BY SeqFacts DEF SeqTypes
  <1>4. seq'.rr \in Nat  BY <1>2, <1>3 DEF SeqTypes
  <1>5. \A l \in LaneSet : IsSeq(seq'.laned[l])  BY <1>2, LanesAreSeqs DEF SeqTypes
  <1>6. SeqTypes'  BY <1>2, <1>4, <1>5, LanesAssumed DEF SeqTypes, Seal
  <1>7. QED  BY <1>2, <1>6 DEF Seal

\* The lanes hold the transactions of the buffer.
LEMMA SealCounts == ASSUME Counted, Seal PROVE Counted'
  <1>1. SeqTypes /\ IsSeq(seq.buffer) /\ seq.rr \in Nat  BY DEF Counted, Types, SeqTypes
  <1>2. /\ seq.pc = "select" /\ seq'.pc = "post" /\ seq'.lane = 0
        /\ seq'.laned = Laned(seq.buffer, seq.rr) /\ SeqTypes'
    BY <1>1, SealResult
  <1>3. UNCHANGED <<written, txCh, batches, states, commits, blocks>>  BY DEF Seal, source, l1vars
  <1>4. Unposted' = LaneSet
    <2>1. \A l \in LaneSet : l > 0 \/ l = 0  BY LanesAssumed DEF LaneSet
    <2>2. QED  BY <1>2, <2>1 DEF Unposted
  <1>5. ASSUME NEW tx \in Txs
        PROVE  Count(txCh, tx)' + InSequencer(tx)' + written[tx]
                   <= Count(txCh, tx) + InSequencer(tx) + written'[tx]
    <2>1. InSequencer(tx)' = SumFunctionOnSet(LaneCounts(Laned(seq.buffer, seq.rr), tx), LaneSet)
      BY <1>2, <1>4 DEF InSequencer
    <2>2. InSequencer(tx)' = Count(seq.buffer, tx)  BY <1>1, <2>1, LanesCountAll
    <2>3. InSequencer(tx) = Count(seq.buffer, tx)  BY <1>2 DEF InSequencer
    <2>4. Count(txCh, tx) \in Nat /\ InSequencer(tx) \in Nat /\ written[tx] \in Nat
      BY PlacesNat DEF Counted, PlacesOK
    <2>5. QED  BY <1>3, <2>2, <2>3, <2>4
  <1>6. QED  BY <1>2, <1>3, <1>5, StreamCounts DEF Counted, Types

\* Where the sequencer is after the post of a lane has returned.
LEMMA NextLaneResult ==
    ASSUME SeqTypes, txCh' = txCh, seq.pc # "select", NEW failed, seq' = NextLane(failed)
    PROVE  /\ SeqTypes' /\ seq'.run = seq.run
           /\ \/ /\ seq.lane + 1 < Lanes /\ seq'.pc = "post" /\ seq'.lane = seq.lane + 1
                 /\ seq'.currentBlock = seq.currentBlock /\ seq'.laned = seq.laned
              \/ /\ ~(seq.lane + 1 < Lanes) /\ seq'.pc = "select" /\ seq'.lane = 0
                 /\ seq'.currentBlock = seq.currentBlock + 1 /\ seq'.buffer = <<>>
  <1>1. /\ DOMAIN seq' = DOMAIN seq /\ seq'.run = seq.run /\ seq'.rr = seq.rr
        /\ \/ /\ seq.lane + 1 < Lanes /\ seq'.pc = "post" /\ seq'.lane = seq.lane + 1
              /\ seq'.currentBlock = seq.currentBlock /\ seq'.laned = seq.laned /\ seq'.buffer = seq.buffer
           \/ /\ ~(seq.lane + 1 < Lanes) /\ seq'.pc = "select" /\ seq'.lane = 0
              /\ seq'.currentBlock = seq.currentBlock + 1 /\ seq'.buffer = <<>>
    BY DEF SeqTypes, NextLane
  <1>2. SeqTypes'
    <2>1. CASE seq.lane + 1 < Lanes
      <3>1. seq.lane + 1 \in LaneSet  BY <2>1, LanesAssumed DEF LaneSet, SeqTypes
      <3>2. QED  BY <1>1, <2>1, <3>1 DEF SeqTypes
    <2>2. CASE ~(seq.lane + 1 < Lanes)  BY <1>1, <2>2, EmptyFacts, LanesAssumed DEF SeqTypes
    <2>3. QED  BY <2>1, <2>2
  <1>3. QED  BY <1>1, <1>2

\* The lanes that are left when one is done.
LEMMA UnpostedAfter ==
    ASSUME SeqTypes, seq.pc # "select", NEW tx
    PROVE  LET f == LaneCounts(seq.laned, tx)
               after == {l \in LaneSet : l > seq.lane}
           IN  /\ Unposted \ {seq.lane} = after /\ SumFunctionOnSet(f, after) \in Nat
               /\ seq.pc = "await" => Unposted = after
               /\ seq.pc = "post" => InSequencer(tx) = SumFunctionOnSet(f, after) + Count(seq.laned[seq.lane], tx)
               /\ seq.pc = "await" => InSequencer(tx) = SumFunctionOnSet(f, after)
               /\ Count(seq.laned[seq.lane], tx) \in Nat
  <1> DEFINE f == LaneCounts(seq.laned, tx)
             after == {l \in LaneSet : l > seq.lane}
  <1>1. IsFiniteSet(LaneSet) /\ LaneSet \subseteq Nat /\ seq.lane \in LaneSet
    BY LanesFinite DEF SeqTypes
  <1>2. seq.pc \in {"post", "await"}  BY DEF SeqTypes
  <1>3. Unposted \in SUBSET LaneSet /\ Unposted \ {seq.lane} = after
    <2>0. seq.lane \in Nat  BY <1>1
    <2>1. ~(seq.lane > seq.lane)  BY <2>0
    <2>2. Unposted \in SUBSET LaneSet  BY DEF Unposted
    <2>3. ASSUME NEW l \in LaneSet PROVE l \in Unposted \ {seq.lane} <=> l > seq.lane
      <3>1. CASE l = seq.lane  BY <2>1, <3>1
      <3>2. CASE l # seq.lane  BY <3>2, Zenon DEF Unposted
      <3>3. QED  BY <3>1, <3>2
    <2>4. QED  BY <2>2, <2>3
  <1>4. seq.pc = "post" => seq.lane \in Unposted  BY <1>1 DEF Unposted
  <1>5. seq.pc = "await" => Unposted = after  BY DEF Unposted
  <1>6. \A l \in LaneSet : f[l] = Count(seq.laned[l], tx) /\ f[l] \in Nat
    BY CountType DEF LaneCounts, SeqTypes
  <1>7. IsFiniteSet(Unposted)  BY <1>1, <1>3, FS_Subset
  <1>8. Countable(f, Unposted) /\ Agree(f, f, Unposted \ {seq.lane})
    BY <1>3, <1>6, <1>7 DEF Countable, Agree
  <1>9. InSequencer(tx) = SumFunctionOnSet(f, Unposted)  BY DEF InSequencer
  <1> HIDE DEF f
  <1>10. /\ SumFunctionOnSet(f, Unposted \ {seq.lane}) \in Nat
         /\ seq.lane \in Unposted => SumFunctionOnSet(f, Unposted) = SumFunctionOnSet(f, Unposted \ {seq.lane}) + f[seq.lane]
    BY <1>8, SumDrop
  <1> HIDE DEF after
  <1>11. QED  BY <1>1, <1>3, <1>4, <1>5, <1>6, <1>9, <1>10 DEF f, after

\* The post of a lane has returned; if the request was lost its transactions are.
LEMMA LaneReturnsCounts ==
    ASSUME Counted, seq.pc # "select", NEW failed, seq' = NextLane(failed),
           UNCHANGED <<written, txCh, batches, states, commits, blocks>>
    PROVE  Counted'
  <1>1. SeqTypes /\ Lanes \in Nat /\ seq.lane \in Nat  BY LanesAssumed DEF Counted, Types, SeqTypes, LaneSet
  <1>2. /\ SeqTypes' /\ seq'.run = seq.run
        /\ \/ /\ seq.lane + 1 < Lanes /\ seq'.pc = "post" /\ seq'.lane = seq.lane + 1
              /\ seq'.currentBlock = seq.currentBlock /\ seq'.laned = seq.laned
           \/ /\ ~(seq.lane + 1 < Lanes) /\ seq'.pc = "select" /\ seq'.lane = 0
              /\ seq'.currentBlock = seq.currentBlock + 1 /\ seq'.buffer = <<>>
    BY <1>1, NextLaneResult
  <1>3. ASSUME NEW tx \in Txs PROVE InSequencer(tx)' <= InSequencer(tx)
    <2> DEFINE f == LaneCounts(seq.laned, tx)
               after == {l \in LaneSet : l > seq.lane}
    <2>1. /\ SumFunctionOnSet(f, after) \in Nat
          /\ seq.pc = "post" => InSequencer(tx) = SumFunctionOnSet(f, after) + Count(seq.laned[seq.lane], tx)
          /\ seq.pc = "await" => InSequencer(tx) = SumFunctionOnSet(f, after)
          /\ Count(seq.laned[seq.lane], tx) \in Nat
      BY <1>1, UnpostedAfter
    <2>2. SumFunctionOnSet(f, after) <= InSequencer(tx)
      <3> HIDE DEF f, after
      <3>1. QED  BY <1>1, <2>1 DEF SeqTypes
    <2>3. CASE seq.lane + 1 < Lanes
      <3>1. Unposted' = after
        <4>1. \A l \in LaneSet : l > seq.lane + 1 \/ l = seq.lane + 1 <=> l > seq.lane
          BY <1>1 DEF LaneSet
        <4>2. QED  BY <1>2, <2>3, <4>1 DEF Unposted
      <3>2. InSequencer(tx)' = SumFunctionOnSet(f, after)  BY <1>2, <2>3, <3>1 DEF InSequencer
      <3> HIDE DEF f, after
      <3>3. QED  BY <2>1, <2>2, <3>2
    <2>4. CASE ~(seq.lane + 1 < Lanes)
      <3>1. InSequencer(tx)' = 0  BY <1>2, <2>4, CountEmpty DEF InSequencer
      <3>2. InSequencer(tx) \in Nat  BY PlacesNat DEF Counted, PlacesOK
      <3>3. QED  BY <3>1, <3>2
    <2>5. QED  BY <2>3, <2>4
  <1>4. Types'  BY <1>2, RestKept DEF Counted, Types
  <1>5. ASSUME NEW tx \in Txs
        PROVE  Count(txCh, tx)' + InSequencer(tx)' + written[tx]
                   <= Count(txCh, tx) + InSequencer(tx) + written'[tx]
    <2>1. Count(txCh, tx) \in Nat /\ InSequencer(tx) \in Nat /\ written[tx] \in Nat
      BY PlacesNat DEF Counted, PlacesOK
    <2>2. InSequencer(tx)' \in Nat  BY <1>4, PlacesNatNext DEF PlacesOK
    <2>3. Count(txCh, tx)' = Count(txCh, tx) /\ written'[tx] = written[tx]  OBVIOUS
    <2>4. QED  BY <1>3, <2>1, <2>2, <2>3
  <1>6. QED  BY <1>2, <1>5, StreamCounts DEF Counted, Types

\* What the requests of a step may hold, and what it leaves alone.
LEMMA PlacesCount ==
    ASSUME Counted, Types', UNCHANGED <<written, txCh>>,
           \A tx \in Txs : InSequencer(tx)' + Held(Waiting, tx)' + InStates(tx)' + Held(Submitting, tx)' + InBlocks(tx)'
                             <= InSequencer(tx) + Held(Waiting, tx) + InStates(tx) + Held(Submitting, tx) + InBlocks(tx)
    PROVE  Counted'
  <1>1. ASSUME NEW tx \in Txs PROVE Conserved(tx)'
    <2>1. PlacesOK(tx)  BY PlacesNat DEF Counted
    <2>2. PlacesOK(tx)'  BY PlacesNatNext
    <2>3. Conserved(tx)  BY DEF Counted
    <2>4. Count(txCh, tx)' = Count(txCh, tx) /\ written'[tx] = written[tx]  OBVIOUS
    <2>5. QED  BY <2>1, <2>2, <2>3, <2>4 DEF Conserved, PlacesOK
  <1>2. QED  BY <1>1 DEF Counted

\* A lane is posted: its transactions are with the request.
LEMMA PostResult ==
    ASSUME SeqTypes, Post
    PROVE  /\ seq.pc = "post" /\ SeqTypes' /\ seq'.pc = "await" /\ seq'.lane = seq.lane
           /\ seq'.laned = seq.laned /\ seq'.run = seq.run /\ seq'.currentBlock = seq.currentBlock
           /\ \E new : /\ batches' = batches \cup {new} /\ IsRequest(new) /\ new.pc = "arrived"
                       /\ new.block = seq.currentBlock /\ new.lane = seq.lane
                       /\ new.txs = seq.laned[seq.lane]
  <1>1. seq' = [seq EXCEPT !.pc = "await"] /\ seq.pc = "post" /\ txCh' = txCh  BY DEF Post
  <1>2. /\ DOMAIN seq' = DOMAIN seq /\ seq'.buffer = seq.buffer /\ seq'.rr = seq.rr
        /\ seq'.run = seq.run /\ seq'.pc = "await" /\ seq'.currentBlock = seq.currentBlock
        /\ seq'.lane = seq.lane /\ seq'.laned = seq.laned
    BY <1>1 DEF SeqTypes
  <1>3. SeqTypes'  BY <1>1, <1>2 DEF SeqTypes
  <1>4. PICK new : /\ new = [run |-> seq.run, block |-> seq.currentBlock, lane |-> seq.lane,
                             txs |-> seq.laned[seq.lane], pc |-> "arrived", ok |-> FALSE]
                   /\ batches' = batches \cup {new}
    BY DEF Post
  <1>5. IsSeq(seq.laned[seq.lane])  BY <1>1 DEF SeqTypes
  <1>6. /\ DOMAIN new = Fields /\ new.pc = "arrived" /\ new.block = seq.currentBlock
        /\ new.lane = seq.lane /\ new.txs = seq.laned[seq.lane]
    BY <1>4 DEF Fields
  <1>7. IsRequest(new)  BY <1>5, <1>6 DEF IsRequest
  <1>8. QED  BY <1>1, <1>2, <1>3, <1>4, <1>6, <1>7

\* It is counted there once.
LEMMA PostCounts == ASSUME Counted, Post PROVE Counted'
  <1>0. SeqTypes /\ BatchTypes  BY DEF Counted, Types
  <1>1. PICK new : /\ batches' = batches \cup {new} /\ IsRequest(new) /\ new.pc = "arrived"
                   /\ new.txs = seq.laned[seq.lane]
    BY <1>0, PostResult
  <1>2. /\ seq.pc = "post" /\ SeqTypes' /\ seq'.pc = "await" /\ seq'.lane = seq.lane
        /\ seq'.laned = seq.laned
    BY <1>0, PostResult
  <1>3. UNCHANGED <<written, txCh, states, commits, blocks>>  BY DEF Post, source, l1vars
  <1>4. BatchTypes'  BY <1>0, <1>1, FS_AddElement DEF BatchTypes
  <1>5. Types'  BY <1>2, <1>3, <1>4 DEF Counted, Types, CommitTypes, StateTypes, BlockTypes, Certified
  <1>6. Waiting' = Waiting \cup {new}  BY <1>1 DEF Waiting
  <1>7. ASSUME NEW tx \in Txs
        PROVE  InSequencer(tx)' + Held(Waiting, tx)' + InStates(tx)' + Held(Submitting, tx)' + InBlocks(tx)'
                   <= InSequencer(tx) + Held(Waiting, tx) + InStates(tx) + Held(Submitting, tx) + InBlocks(tx)
    <2> DEFINE f == LaneCounts(seq.laned, tx)
               after == {l \in LaneSet : l > seq.lane}
    <2>1. PlacesOK(tx)  BY PlacesNat DEF Counted
    <2>2. PlacesOK(tx)'  BY <1>5, PlacesNatNext
    <2>3. /\ SumFunctionOnSet(f, after) \in Nat /\ Count(seq.laned[seq.lane], tx) \in Nat
          /\ InSequencer(tx) = SumFunctionOnSet(f, after) + Count(seq.laned[seq.lane], tx)
      BY <1>0, <1>2, UnpostedAfter
    <2>4. Unposted' = after  BY <1>2 DEF Unposted
    <2>5. InSequencer(tx)' = SumFunctionOnSet(f, after)  BY <1>2, <2>4 DEF InSequencer
    <2>6. Held(Waiting', tx) <= Held(Waiting, tx) + Count(seq.laned[seq.lane], tx)
      <3>1. AreRequests(Waiting) /\ IsSeq(new.txs)  BY <1>1, <2>1 DEF PlacesOK, IsRequest
      <3>2. Held(Waiting \cup {new}, tx) <= Held(Waiting, tx) + Count(new.txs, tx)  BY <3>1, HeldAdd
      <3>3. QED  BY <1>1, <1>6, <3>2
    <2>7. /\ Held(Submitting, tx)' = Held(Submitting, tx)
          /\ InStates(tx)' = InStates(tx) /\ InBlocks(tx)' = InBlocks(tx)
      BY <1>3 DEF Submitting, InStates, StateCounts, InBlocks, BlockCounts, Certified
    <2> HIDE DEF f, after
    <2>8. QED  BY <2>1, <2>2, <2>3, <2>5, <2>6, <2>7 DEF PlacesOK
  <1>8. QED  BY <1>3, <1>5, <1>7, PlacesCount

\* A request moves on: it carries what it carried, or nothing.
LEMMA RequestMovesCounts ==
    ASSUME Counted, NEW b \in batches, NEW new, batches' = Replace(batches, b, new), IsRequest(new), NEW tx
    PROVE  /\ BatchTypes'
           /\ IsSeq(b.txs) /\ IsSeq(new.txs) /\ Count(b.txs, tx) \in Nat /\ Count(new.txs, tx) \in Nat
           /\ b \notin Waiting /\ new.pc = "done" => Held(Waiting, tx)' = Held(Waiting, tx)
           /\ b \in Waiting /\ new.pc \in {"await", "done"}
                => Held(Waiting, tx)' + Count(b.txs, tx) = Held(Waiting, tx)
           /\ b \in Waiting /\ new.pc = "forward"
                => Held(Waiting, tx)' + Count(b.txs, tx) <= Held(Waiting, tx) + Count(new.txs, tx)
  <1>0. BatchTypes /\ batches' = (batches \ {b}) \cup {new}  BY DEF Counted, Types, Replace
  <1>1. BatchTypes'
    <2>1. IsFiniteSet(batches \ {b})  BY <1>0, FS_Subset DEF BatchTypes
    <2>2. IsFiniteSet(batches')  BY <1>0, <2>1, FS_AddElement
    <2>3. QED  BY <1>0, <2>2 DEF BatchTypes
  <1>2. IsSeq(b.txs) /\ IsSeq(new.txs)  BY <1>0 DEF BatchTypes, IsRequest
  <1>3. Count(b.txs, tx) \in Nat /\ Count(new.txs, tx) \in Nat  BY <1>2, CountType
  <1>4. AreRequests(Waiting)
    <2>1. Waiting \in SUBSET batches  BY DEF Waiting
    <2>2. IsFiniteSet(Waiting)  BY <1>0, <2>1, FS_Subset DEF BatchTypes
    <2>3. QED  BY <1>0, <2>1, <2>2 DEF AreRequests, BatchTypes, IsRequest
  <1>5. CASE b \notin Waiting /\ new.pc = "done"
    <2>1. Waiting' = Waiting  BY <1>0, <1>5 DEF Waiting
    <2>2. QED  BY <1>1, <1>2, <1>3, <1>5, <2>1
  <1>6. ASSUME b \in Waiting
        PROVE  /\ AreRequests(Waiting \ {b}) /\ Held(Waiting \ {b}, tx) \in Nat
               /\ Held(Waiting, tx) = Held(Waiting \ {b}, tx) + Count(b.txs, tx)
    BY <1>4, <1>6, HeldRemove, HeldNat
  <1>7. CASE b \in Waiting /\ new.pc \in {"await", "done"}
    <2>1. Waiting' = Waiting \ {b}  BY <1>0, <1>7 DEF Waiting
    <2>2. QED  BY <1>1, <1>2, <1>3, <1>6, <1>7, <2>1
  <1>8. CASE b \in Waiting /\ new.pc = "forward"
    <2>1. Waiting' = (Waiting \ {b}) \cup {new}  BY <1>0, <1>8 DEF Waiting
    <2>2. /\ AreRequests((Waiting \ {b}) \cup {new})
          /\ Held((Waiting \ {b}) \cup {new}, tx) <= Held(Waiting \ {b}, tx) + Count(new.txs, tx)
      BY <1>2, <1>6, <1>8, HeldAdd
    <2>3. Held((Waiting \ {b}) \cup {new}, tx) \in Nat  BY <2>2, HeldNat
    <2>4. Held(Waiting', tx) <= Held(Waiting \ {b}, tx) + Count(new.txs, tx) /\ Held(Waiting', tx) \in Nat
      BY <2>1, <2>2, <2>3
    <2>5. Held(Waiting', tx) + Count(b.txs, tx) <= Held(Waiting, tx) + Count(new.txs, tx)
      BY <1>3, <1>6, <1>8, <2>4
    <2>6. QED  BY <1>1, <1>2, <1>3, <1>8, <2>5
  <1>9. CASE /\ ~(b \notin Waiting /\ new.pc = "done")
             /\ ~(b \in Waiting /\ new.pc \in {"await", "done", "forward"})
    BY <1>1, <1>2, <1>3, <1>9
  <1>10. QED  BY <1>5, <1>7, <1>8, <1>9

\* The requests at the replayer, the blocks and the sequencer are as they were.
LEMMA AggregatorOnly ==
    ASSUME Types, UNCHANGED <<seq, txCh, commits, blocks>>, NEW tx
    PROVE  /\ SeqTypes' /\ CommitTypes' /\ BlockTypes'
           /\ InSequencer(tx)' = InSequencer(tx) /\ Held(Submitting, tx)' = Held(Submitting, tx)
           /\ InBlocks(tx)' = InBlocks(tx)
  <1>1. SeqTypes' /\ CommitTypes' /\ BlockTypes'
    BY DEF Types, SeqTypes, CommitTypes, BlockTypes, Certified
  <1>2. Submitting' = Submitting  BY DEF Submitting
  <1>3. InSequencer(tx)' = InSequencer(tx)  BY DEF InSequencer, Unposted
  <1>4. InBlocks(tx)' = InBlocks(tx)  BY DEF InBlocks, BlockCounts, Certified
  <1>5. QED  BY <1>1, <1>2, <1>3, <1>4

\* What the aggregator has of a block after a lane.
LEMMA StateCount ==
    ASSUME StateTypes, NEW b, IsSeq(b.txs), NEW tx
    PROVE  /\ IsSeq(StateOf(b).txs)
           /\ Count(StateOf(b).txs, tx) = (IF b.block \in DOMAIN states THEN Count(states[b.block].txs, tx) ELSE 0)
                                          + (IF tx.amount = 0 THEN 0 ELSE Count(b.txs, tx))
           /\ StateOf(b).lanes = (IF b.block \in DOMAIN states THEN states[b.block].lanes ELSE {})
                                  \cup {LaneId(b.lane)}
  <1> DEFINE valid == ValidTxs(b.txs)
  <1>1. IsSeq(valid) /\ Count(valid, tx) = IF tx.amount = 0 THEN 0 ELSE Count(b.txs, tx)
    BY ValidArePayload, CountValid DEF Payload
  <1> HIDE DEF valid
  <1>2. CASE b.block \in DOMAIN states
    <2>1. /\ StateOf(b).txs = states[b.block].txs \o valid
          /\ StateOf(b).lanes = states[b.block].lanes \cup {LaneId(b.lane)}
      BY <1>2 DEF StateOf, AddLane, valid
    <2>2. IsSeq(states[b.block].txs)  BY <1>2 DEF StateTypes
    <2>3. QED  BY <1>1, <1>2, <2>1, <2>2, CountConcat
  <1>3. CASE b.block \notin DOMAIN states
    <2>0. PICK e : e = <<>>  OBVIOUS
    <2>1. StateOf(b).txs = e \o valid /\ StateOf(b).lanes = {} \cup {LaneId(b.lane)}
      BY <1>3, <2>0 DEF StateOf, AddLane, NewState, valid
    <2>2. IsSeq(e) /\ Count(e, tx) = 0  BY <2>0, EmptyFacts, CountEmpty
    <2>3. IsSeq(e \o valid) /\ Count(e \o valid, tx) = Count(e, tx) + Count(valid, tx)
      BY <1>1, <2>2, CountConcat
    <2>4. Count(valid, tx) \in Nat  BY <1>1, CountType
    <2>5. QED  BY <1>1, <1>3, <2>1, <2>2, <2>3, <2>4
  <1>4. QED  BY <1>2, <1>3

\* The two ways in which the aggregator's critical section ends.
LEMMA HandleBatchResult ==
    ASSUME BatchTypes, StateTypes, NEW b \in batches, HandleBatch(b)
    PROVE  /\ b.pc = "arrived" /\ UNCHANGED <<written, txCh, seq, commits, blocks, sealed>>
           /\ \/ /\ Cardinality(StateOf(b).lanes) = Lanes
                 /\ states' = [x \in DOMAIN states \ {b.block} |-> states[x]]
                 /\ \E new : /\ batches' = Replace(batches, b, new) /\ IsRequest(new) /\ new.pc = "forward"
                             /\ new.block = b.block /\ new.lane = b.lane /\ new.txs = StateOf(b).txs
              \/ /\ Cardinality(StateOf(b).lanes) # Lanes
                 /\ states' = Put(states, b.block, StateOf(b))
                 /\ \E new : /\ batches' = Replace(batches, b, new) /\ IsRequest(new) /\ new.pc = "done"
                             /\ new.block = b.block /\ new.lane = b.lane /\ new.ok
  <1>1. b.pc = "arrived" /\ UNCHANGED <<written, txCh, seq, commits, blocks, sealed>>
    BY DEF HandleBatch, source, l1vars
  <1>2. DOMAIN b = Fields /\ IsSeq(b.txs)  BY DEF BatchTypes, IsRequest
  <1>3. IsSeq(StateOf(b).txs)  BY <1>2, StateCount
  <1>4. CASE Cardinality(StateOf(b).lanes) = Lanes
    <2>1. PICK new : new = [b EXCEPT !.pc = "forward", !.txs = StateOf(b).txs]  OBVIOUS
    <2>2. /\ states' = [x \in DOMAIN states \ {b.block} |-> states[x]]
          /\ batches' = Replace(batches, b, new)
      BY <1>4, <2>1 DEF HandleBatch, StateOf
    <2>3. /\ DOMAIN new = Fields /\ new.pc = "forward" /\ new.block = b.block /\ new.lane = b.lane
          /\ new.txs = StateOf(b).txs
      BY <1>2, <2>1 DEF Fields
    <2>4. IsRequest(new)  BY <1>3, <2>3 DEF IsRequest
    <2>5. QED  BY <1>1, <1>4, <2>2, <2>3, <2>4
  <1>5. CASE Cardinality(StateOf(b).lanes) # Lanes
    <2>1. PICK new : new = [b EXCEPT !.pc = "done", !.ok = TRUE]  OBVIOUS
    <2>2. /\ states' = Put(states, b.block, StateOf(b))
          /\ batches' = Replace(batches, b, new)
      BY <1>5, <2>1 DEF HandleBatch, StateOf
    <2>3. /\ DOMAIN new = Fields /\ new.pc = "done" /\ new.block = b.block /\ new.lane = b.lane
          /\ new.txs = b.txs /\ new.ok = TRUE
      BY <1>2, <2>1 DEF Fields
    <2>4. IsRequest(new)  BY <1>2, <2>3 DEF IsRequest
    <2>5. QED  BY <1>1, <1>5, <2>2, <2>3, <2>4
  <1>6. QED  BY <1>4, <1>5

\* The transactions of a lane go from its request to the block, and with the last
\* lane from the block to the request.
LEMMA HandleBatchCounts == ASSUME Counted, NEW b \in batches, HandleBatch(b) PROVE Counted'
  <1>0. PICK y, st : y = b.block /\ st = StateOf(b)  OBVIOUS
  <1>1. Types /\ BatchTypes /\ StateTypes  BY DEF Counted, Types
  <1>2. b.pc = "arrived" /\ UNCHANGED <<written, txCh, seq, commits, blocks>>  BY <1>1, HandleBatchResult
  <1>3. PICK new : /\ batches' = Replace(batches, b, new) /\ IsRequest(new)
                   /\ \/ /\ new.pc = "forward" /\ new.txs = st.txs
                         /\ states' = [x \in DOMAIN states \ {y} |-> states[x]]
                      \/ new.pc = "done" /\ states' = Put(states, y, st)
    BY <1>0, <1>1, HandleBatchResult
  <1>4. b \in Waiting  BY <1>2 DEF Waiting
  <1>5. IsSeq(st.txs)
    <2>1. IsSeq(b.txs)  BY <1>1 DEF BatchTypes, IsRequest
    <2>2. QED  BY <1>0, <1>1, <2>1, StateCount
  <1>6. StateTypes'
    <2>1. CASE states' = [x \in DOMAIN states \ {y} |-> states[x]]
      <3>1. IsFiniteSet(DOMAIN states \ {y})  BY <1>1, FS_Subset DEF StateTypes
      <3>2. QED  BY <1>1, <2>1, <3>1 DEF StateTypes
    <2>2. CASE states' = Put(states, y, st)
      <3>1. IsFiniteSet(DOMAIN states \cup {y})  BY <1>1, FS_AddElement DEF StateTypes
      <3>2. QED  BY <1>1, <1>5, <2>2, <3>1 DEF StateTypes, Put
    <2>3. QED  BY <1>3, <2>1, <2>2
  <1>7. BatchTypes'  BY <1>3, RequestMovesCounts
  <1>8. Types'  BY <1>1, <1>2, <1>6, <1>7, AggregatorOnly DEF Types
  <1>9. ASSUME NEW tx \in Txs
        PROVE  InSequencer(tx)' + Held(Waiting, tx)' + InStates(tx)' + Held(Submitting, tx)' + InBlocks(tx)'
                   <= InSequencer(tx) + Held(Waiting, tx) + InStates(tx) + Held(Submitting, tx) + InBlocks(tx)
    <2> DEFINE f == StateCounts(tx)
               g == StateCounts(tx)'
               D == DOMAIN states
    <2>1. PlacesOK(tx)  BY <1>1, PlacesNat
    <2>2. PlacesOK(tx)'  BY <1>8, PlacesNatNext
    <2>3. /\ InSequencer(tx)' = InSequencer(tx) /\ Held(Submitting, tx)' = Held(Submitting, tx)
          /\ InBlocks(tx)' = InBlocks(tx)
      BY <1>1, <1>2, AggregatorOnly
    <2>4. Count(b.txs, tx) \in Nat /\ IsSeq(b.txs) /\ Count(st.txs, tx) \in Nat
      BY <1>3, <1>5, RequestMovesCounts, CountType
    <2>5. Count(st.txs, tx) <= (IF y \in D THEN f[y] ELSE 0) + Count(b.txs, tx)
      <3>1. y \in D => f[y] = Count(states[y].txs, tx) /\ f[y] \in Nat
        BY <2>1 DEF StateCounts, PlacesOK, Countable
      <3>2. Count(st.txs, tx) = (IF y \in D THEN Count(states[y].txs, tx) ELSE 0)
                                    + (IF tx.amount = 0 THEN 0 ELSE Count(b.txs, tx))
        BY <1>0, <1>1, <2>4, StateCount
      <3> HIDE DEF f
      <3>3. QED  BY <2>4, <3>1, <3>2
    <2>6. Countable(f, D) /\ InStates(tx) = SumFunctionOnSet(f, D)  BY <2>1 DEF PlacesOK, InStates
    <2>7. y \in D => f[y] \in Nat  BY <2>6 DEF Countable
    <2>8. CASE new.pc = "forward" /\ new.txs = st.txs /\ states' = [x \in D \ {y} |-> states[x]]
      <3>1. DOMAIN states' = D \ {y} /\ Agree(g, f, D \ {y})  BY <2>8 DEF StateCounts, Agree
      <3>2. InStates(tx)' = SumFunctionOnSet(g, D \ {y})  BY <3>1 DEF InStates
      <3> HIDE DEF f, g, D
      <3>3. InStates(tx)' + (IF y \in D THEN f[y] ELSE 0) = InStates(tx)
        <4>1. CASE y \in D
          <5>1. SumFunctionOnSet(f, D) = SumFunctionOnSet(g, D \ {y}) + f[y]  BY <2>6, <3>1, <4>1, SumDrop
          <5>2. QED  BY <2>6, <3>2, <4>1, <5>1
        <4>2. CASE y \notin D
          <5>1. SumFunctionOnSet(f, D) = SumFunctionOnSet(g, D \ {y})  BY <2>6, <3>1, <4>2, SumDrop
          <5>2. InStates(tx)' \in Nat  BY <2>2 DEF PlacesOK
          <5>3. QED  BY <2>6, <3>2, <4>2, <5>1, <5>2
        <4>3. QED  BY <4>1, <4>2
      <3>4. Held(Waiting, tx)' + Count(b.txs, tx) <= Held(Waiting, tx) + Count(st.txs, tx)
        BY <1>3, <1>4, <2>8, RequestMovesCounts
      <3>5. QED  BY <2>1, <2>2, <2>3, <2>4, <2>5, <2>7, <3>3, <3>4 DEF PlacesOK
    <2>9. CASE new.pc = "done" /\ states' = Put(states, y, st)
      <3>1. DOMAIN states' = D \cup {y} /\ Agree(g, f, D \ {y}) /\ g[y] = Count(st.txs, tx)
        BY <2>9 DEF StateCounts, Agree, Put
      <3>2. InStates(tx)' = SumFunctionOnSet(g, D \cup {y})  BY <3>1 DEF InStates
      <3>3. g[y] \in Nat  BY <2>4, <3>1
      <3> HIDE DEF f, g, D
      <3>4. InStates(tx)' + (IF y \in D THEN f[y] ELSE 0) <= InStates(tx) + Count(st.txs, tx)
        <4>1. CASE y \in D
          <5>1. SumFunctionOnSet(g, D \cup {y}) + f[y] = SumFunctionOnSet(f, D) + g[y]
            BY <2>6, <3>1, <3>3, <4>1, SumPut
          <5>2. InStates(tx)' + f[y] = InStates(tx) + Count(st.txs, tx)  BY <2>6, <3>1, <3>2, <5>1
          <5>3. QED  BY <2>1, <2>2, <2>4, <2>7, <4>1, <5>2 DEF PlacesOK
        <4>2. CASE y \notin D
          <5>1. SumFunctionOnSet(g, D \cup {y}) <= SumFunctionOnSet(f, D) + g[y]
            BY <2>6, <3>1, <3>3, SumPut
          <5>2. InStates(tx)' <= InStates(tx) + Count(st.txs, tx)  BY <2>6, <3>1, <3>2, <5>1
          <5>3. QED  BY <2>1, <2>2, <2>4, <4>2, <5>2 DEF PlacesOK
        <4>3. QED  BY <4>1, <4>2
      <3>5. Held(Waiting, tx)' + Count(b.txs, tx) = Held(Waiting, tx)
        BY <1>3, <1>4, <2>9, RequestMovesCounts
      <3>6. QED  BY <2>1, <2>2, <2>3, <2>4, <2>5, <2>7, <3>4, <3>5 DEF PlacesOK
    <2>10. QED  BY <1>3, <2>8, <2>9
  <1>10. QED  BY <1>2, <1>8, <1>9, PlacesCount

\* The aggregator's states are as they were.
LEMMA StatesSame ==
    ASSUME states' = states, NEW tx PROVE InStates(tx)' = InStates(tx) /\ (StateTypes => StateTypes')
  BY DEF InStates, StateCounts, StateTypes

\* A block goes on to the replayer.
LEMMA ForwardResult ==
    ASSUME BatchTypes, NEW b \in batches, Forward(b)
    PROVE  /\ b.pc = "forward" /\ UNCHANGED <<written, txCh, seq, states, blocks, sealed>>
           /\ \E new, c : /\ batches' = Replace(batches, b, new) /\ IsRequest(new) /\ new.pc = "await"
                          /\ new.block = b.block /\ new.lane = b.lane
                          /\ commits' = commits \cup {c} /\ IsRequest(c) /\ c.pc = "arrived"
                          /\ c.block = b.block /\ c.txs = b.txs
  <1>1. b.pc = "forward" /\ UNCHANGED <<written, txCh, seq, states, blocks, sealed>>
    BY DEF Forward, source, l1vars
  <1>2. DOMAIN b = Fields /\ IsSeq(b.txs)  BY DEF BatchTypes, IsRequest
  <1>3. PICK new, c : new = [b EXCEPT !.pc = "await"] /\ c = [b EXCEPT !.pc = "arrived"]  OBVIOUS
  <1>4. batches' = Replace(batches, b, new) /\ commits' = commits \cup {c}  BY <1>3 DEF Forward
  <1>5. DOMAIN new = Fields /\ new.pc = "await" /\ new.block = b.block /\ new.lane = b.lane /\ new.txs = b.txs
    BY <1>2, <1>3 DEF Fields
  <1>6. DOMAIN c = Fields /\ c.pc = "arrived" /\ c.block = b.block /\ c.txs = b.txs
    BY <1>2, <1>3 DEF Fields
  <1>7. IsRequest(new) /\ IsRequest(c)  BY <1>2, <1>5, <1>6 DEF IsRequest
  <1>8. QED  BY <1>1, <1>4, <1>5, <1>6, <1>7

\* It is counted there instead.
LEMMA ForwardCounts == ASSUME Counted, NEW b \in batches, Forward(b) PROVE Counted'
  <1>1. Types /\ BatchTypes /\ StateTypes /\ CommitTypes  BY DEF Counted, Types
  <1>2. b.pc = "forward" /\ UNCHANGED <<written, txCh, seq, states, blocks>>  BY <1>1, ForwardResult
  <1>3. PICK new, c : /\ batches' = Replace(batches, b, new) /\ IsRequest(new) /\ new.pc = "await"
                      /\ commits' = commits \cup {c} /\ IsRequest(c) /\ c.pc = "arrived" /\ c.txs = b.txs
    BY <1>1, ForwardResult
  <1>4. b \in Waiting  BY <1>2 DEF Waiting
  <1>5. BatchTypes'  BY <1>3, RequestMovesCounts
  <1>6. CommitTypes'  BY <1>1, <1>3, FS_AddElement DEF CommitTypes
  <1>7. Submitting' = Submitting \cup {c}  BY <1>3 DEF Submitting
  <1>8. Types'
    BY <1>1, <1>2, <1>5, <1>6 DEF Types, SeqTypes, StateTypes, BlockTypes, Certified
  <1>9. ASSUME NEW tx \in Txs
        PROVE  InSequencer(tx)' + Held(Waiting, tx)' + InStates(tx)' + Held(Submitting, tx)' + InBlocks(tx)'
                   <= InSequencer(tx) + Held(Waiting, tx) + InStates(tx) + Held(Submitting, tx) + InBlocks(tx)
    <2>1. PlacesOK(tx)  BY <1>1, PlacesNat
    <2>2. PlacesOK(tx)'  BY <1>8, PlacesNatNext
    <2>3. InSequencer(tx)' = InSequencer(tx) /\ InBlocks(tx)' = InBlocks(tx) /\ InStates(tx)' = InStates(tx)
      BY <1>2 DEF InSequencer, Unposted, InBlocks, BlockCounts, Certified, InStates, StateCounts
    <2>4. Held(Waiting, tx)' + Count(b.txs, tx) = Held(Waiting, tx) /\ Count(b.txs, tx) \in Nat
      BY <1>3, <1>4, RequestMovesCounts
    <2>5. Held(Submitting', tx) <= Held(Submitting, tx) + Count(b.txs, tx)
      <3>1. AreRequests(Submitting) /\ IsSeq(c.txs)  BY <1>3, <2>1 DEF PlacesOK, IsRequest
      <3>2. Held(Submitting \cup {c}, tx) <= Held(Submitting, tx) + Count(c.txs, tx)  BY <3>1, HeldAdd
      <3>3. QED  BY <1>3, <1>7, <3>2
    <2>6. QED  BY <2>1, <2>2, <2>3, <2>4, <2>5 DEF PlacesOK
  <1>10. QED  BY <1>2, <1>8, <1>9, PlacesCount

\* A request is answered, with ok or not.
LEMMA AnswerResult ==
    ASSUME BatchTypes, NEW b \in batches, Forwarded(b) \/ ForwardFails(b)
    PROVE  /\ b.pc \in {"forward", "await"}
           /\ UNCHANGED <<written, txCh, seq, states, commits, blocks, sealed>>
           /\ \E new : /\ batches' = Replace(batches, b, new) /\ IsRequest(new) /\ new.pc = "done"
                       /\ new.block = b.block /\ new.lane = b.lane
  <1>1. DOMAIN b = Fields /\ IsSeq(b.txs)  BY DEF BatchTypes, IsRequest
  <1>2. CASE Forwarded(b)
    <2>1. PICK ok : batches' = Replace(batches, b, [b EXCEPT !.pc = "done", !.ok = ok])
      BY <1>2 DEF Forwarded
    <2>2. PICK new : new = [b EXCEPT !.pc = "done", !.ok = ok]  OBVIOUS
    <2>3. DOMAIN new = Fields /\ new.pc = "done" /\ new.block = b.block /\ new.lane = b.lane /\ new.txs = b.txs
      BY <1>1, <2>2 DEF Fields
    <2>4. IsRequest(new)  BY <1>1, <2>3 DEF IsRequest
    <2>5. b.pc = "await" /\ UNCHANGED <<written, txCh, seq, states, commits, blocks, sealed>>
      BY <1>2 DEF Forwarded, source, l1vars
    <2>6. QED  BY <2>1, <2>2, <2>3, <2>4, <2>5
  <1>3. CASE ForwardFails(b)
    <2>1. PICK new : new = [b EXCEPT !.pc = "done"]  OBVIOUS
    <2>2. DOMAIN new = Fields /\ new.pc = "done" /\ new.block = b.block /\ new.lane = b.lane /\ new.txs = b.txs
      BY <1>1, <2>1 DEF Fields
    <2>3. IsRequest(new)  BY <1>1, <2>2 DEF IsRequest
    <2>4. /\ b.pc \in {"forward", "await"} /\ batches' = Replace(batches, b, new)
          /\ UNCHANGED <<written, txCh, seq, states, commits, blocks, sealed>>
      BY <1>3, <2>1 DEF ForwardFails, source, l1vars
    <2>5. QED  BY <2>2, <2>3, <2>4
  <1>4. QED  BY <1>2, <1>3

\* What it may have carried is lost.
LEMMA AnswerCounts ==
    ASSUME Counted, NEW b \in batches, Forwarded(b) \/ ForwardFails(b) PROVE Counted'
  <1>1. Types /\ BatchTypes /\ StateTypes  BY DEF Counted, Types
  <1>2. UNCHANGED <<written, txCh, seq, states, commits, blocks>>  BY <1>1, AnswerResult
  <1>3. PICK new : batches' = Replace(batches, b, new) /\ IsRequest(new) /\ new.pc = "done"
    BY <1>1, AnswerResult
  <1>4. BatchTypes'  BY <1>3, RequestMovesCounts
  <1>5. Types'  BY <1>1, <1>2, <1>4, AggregatorOnly, StatesSame DEF Types
  <1>6. ASSUME NEW tx \in Txs
        PROVE  InSequencer(tx)' + Held(Waiting, tx)' + InStates(tx)' + Held(Submitting, tx)' + InBlocks(tx)'
                   <= InSequencer(tx) + Held(Waiting, tx) + InStates(tx) + Held(Submitting, tx) + InBlocks(tx)
    <2>1. PlacesOK(tx)  BY <1>1, PlacesNat
    <2>2. PlacesOK(tx)'  BY <1>5, PlacesNatNext
    <2>3. InSequencer(tx)' = InSequencer(tx) /\ InBlocks(tx)' = InBlocks(tx) /\ InStates(tx)' = InStates(tx)
          /\ Held(Submitting, tx)' = Held(Submitting, tx)
      BY <1>1, <1>2, AggregatorOnly, StatesSame
    <2>4. Held(Waiting, tx)' <= Held(Waiting, tx)
      <3>1. Count(b.txs, tx) \in Nat  BY <1>3, RequestMovesCounts
      <3>2. CASE b \in Waiting
        <4>1. Held(Waiting, tx)' + Count(b.txs, tx) = Held(Waiting, tx)  BY <1>3, <3>2, RequestMovesCounts
        <4>2. QED  BY <2>1, <2>2, <3>1, <4>1 DEF PlacesOK
      <3>3. CASE b \notin Waiting
        <4>1. Held(Waiting, tx)' = Held(Waiting, tx)  BY <1>3, <3>3, RequestMovesCounts
        <4>2. QED  BY <2>1, <2>2, <4>1 DEF PlacesOK
      <3>4. QED  BY <3>2, <3>3
    <2>5. QED  BY <2>1, <2>2, <2>3, <2>4 DEF PlacesOK
  <1>7. QED  BY <1>2, <1>5, <1>6, PlacesCount

\* What a submission does to the blocks of the L1 node.
LEMMA SubmissionResult ==
    ASSUME NEW c, SubmitToL1(c)
    PROVE  \/ blocks' = blocks
           \/ /\ c.block \notin DOMAIN blocks
              /\ \E a : a.commitment[2] = c.txs /\ blocks' = Put(blocks, c.block, a)
  <1> DEFINE hash == L1!CommitmentFromTxs(c.block, c.txs)
             req == [phase |-> "certification", block |-> c.block, commitment |-> hash,
                     proof |-> L1!BuildProofRecord(c.block, hash, ReplayedProof(c.block)),
                     txCount |-> Len(c.txs), txs |-> c.txs]
  <1>1. L1!SubmitCertifiedBlock(req)  BY DEF SubmitToL1
  <1>2. req.block = c.block /\ req.commitment = hash  OBVIOUS
  <1>3. hash[2] = c.txs  BY DEF L1!CommitmentFromTxs
  <1> HIDE DEF req, hash
  <1>4. CASE L1!SubmitAccepted(req)
    <2>1. PICK a : a = L1!Accepted(req, stateVersion + 1)  OBVIOUS
    <2>2. a.commitment = hash  BY <1>2, <2>1 DEF L1!Accepted
    <2>3. blocks' = Put(blocks, c.block, a)  BY <1>2, <1>4, <2>1 DEF L1!SubmitAccepted, Put
    <2>4. c.block \notin DOMAIN blocks  BY <1>2, <1>4 DEF L1!SubmitAccepted, L1!Known
    <2>5. QED  BY <1>3, <2>2, <2>3, <2>4
  <1>5. CASE ~L1!SubmitAccepted(req)
    BY <1>1, <1>5 DEF L1!SubmitCertifiedBlock, L1!SubmitDuplicate, L1!SubmitConflict,
                      L1!SubmitBadPayload, L1!SubmitBadProof
  <1>6. QED  BY <1>4, <1>5

\* The L1 node has at most the transactions of the commit more.
LEMMA SubmissionCounts ==
    ASSUME Types, NEW c, IsSeq(c.txs), SubmitToL1(c) \/ blocks' = blocks, NEW tx \in Txs
    PROVE  BlockTypes' /\ InBlocks(tx)' <= InBlocks(tx) + Count(c.txs, tx)
  <1>1. BlockTypes /\ PlacesOK(tx) /\ Count(c.txs, tx) \in Nat  BY PlacesNat, CountType DEF Types
  <1>2. CASE blocks' = blocks
    <2>1. BlockTypes' /\ InBlocks(tx)' = InBlocks(tx)
      BY <1>1, <1>2 DEF BlockTypes, InBlocks, BlockCounts, Certified
    <2>2. QED  BY <1>1, <2>1 DEF PlacesOK
  <1>3. ASSUME NEW a, a.commitment[2] = c.txs, blocks' = Put(blocks, c.block, a),
               c.block \notin DOMAIN blocks
        PROVE  BlockTypes' /\ InBlocks(tx)' <= InBlocks(tx) + Count(c.txs, tx)
    <2> DEFINE f == BlockCounts(tx)
               g == BlockCounts(tx)'
               D == DOMAIN blocks
               y == c.block
    <2>1. /\ DOMAIN blocks' = D \cup {y} /\ Certified(y)' = c.txs
          /\ \A x \in D \ {y} : Certified(x)' = Certified(x)
      BY <1>3 DEF Put, Certified
    <2>2. IsFiniteSet(D \cup {y})  BY <1>1, FS_AddElement DEF BlockTypes
    <2>3. BlockTypes'  BY <1>1, <2>1, <2>2 DEF BlockTypes
    <2>4. g[y] = Count(c.txs, tx) /\ Agree(g, f, D \ {y})  BY <2>1 DEF BlockCounts, Agree
    <2>5. Countable(f, D) /\ InBlocks(tx) = SumFunctionOnSet(f, D)  BY <1>1 DEF PlacesOK, InBlocks
    <2>6. InBlocks(tx)' = SumFunctionOnSet(g, D \cup {y})  BY <2>1 DEF InBlocks
    <2> HIDE DEF f, g, D, y
    <2>7. SumFunctionOnSet(g, D \cup {y}) <= SumFunctionOnSet(f, D) + g[y]
      BY <1>1, <2>4, <2>5, SumPut
    <2>8. QED  BY <2>3, <2>4, <2>5, <2>6, <2>7
  <1>4. QED  BY <1>2, <1>3, SubmissionResult

\* Commits are answered; one of them may have been submitted.
LEMMA CommitsCount ==
    ASSUME Counted, UNCHANGED <<written, txCh, seq, batches, states>>, CommitTypes',
           \/ blocks' = blocks /\ (Submitting' = {} \/ \E c \in Submitting : Submitting' = Submitting \ {c})
           \/ \E c \in Submitting : /\ SubmitToL1(c) \/ blocks' = blocks
                                    /\ Submitting' = {} \/ Submitting' = Submitting \ {c}
    PROVE  Counted'
  <1>1. Types  BY DEF Counted
  <1>2. BlockTypes'
    <2>1. CASE blocks' = blocks  BY <1>1, <2>1 DEF Types, BlockTypes, Certified
    <2>2. ASSUME NEW c \in Submitting, SubmitToL1(c) PROVE BlockTypes'
      <3>1. BlockTypes /\ IsSeq(c.txs)  BY <1>1 DEF Types, CommitTypes, IsRequest, Submitting
      <3>2. CASE blocks' = blocks  BY <2>1, <3>2
      <3>3. ASSUME NEW a, a.commitment[2] = c.txs, blocks' = Put(blocks, c.block, a) PROVE BlockTypes'
        <4>1. /\ DOMAIN blocks' = DOMAIN blocks \cup {c.block} /\ Certified(c.block)' = c.txs
              /\ \A x \in DOMAIN blocks \ {c.block} : Certified(x)' = Certified(x)
          BY <3>3 DEF Put, Certified
        <4>2. IsFiniteSet(DOMAIN blocks \cup {c.block})  BY <3>1, FS_AddElement DEF BlockTypes
        <4>3. QED  BY <3>1, <4>1, <4>2 DEF BlockTypes
      <3>4. QED  BY <2>2, <3>2, <3>3, SubmissionResult
    <2>3. QED  BY <2>1, <2>2
  <1>3. Types'  BY <1>1, <1>2 DEF Types, SeqTypes, BatchTypes, StateTypes
  <1>4. ASSUME NEW tx \in Txs
        PROVE  InSequencer(tx)' + Held(Waiting, tx)' + InStates(tx)' + Held(Submitting, tx)' + InBlocks(tx)'
                   <= InSequencer(tx) + Held(Waiting, tx) + InStates(tx) + Held(Submitting, tx) + InBlocks(tx)
    <2>1. PlacesOK(tx)  BY <1>1, PlacesNat
    <2>2. PlacesOK(tx)'  BY <1>3, PlacesNatNext
    <2>3. InSequencer(tx)' = InSequencer(tx) /\ InStates(tx)' = InStates(tx) /\ Held(Waiting, tx)' = Held(Waiting, tx)
      BY DEF InSequencer, Unposted, InStates, StateCounts, Waiting
    <2>4. Held(Submitting, tx)' + InBlocks(tx)' <= Held(Submitting, tx) + InBlocks(tx)
      <3>1. ASSUME NEW c \in Submitting
            PROVE  /\ Held(Submitting, tx) = Held(Submitting \ {c}, tx) + Count(c.txs, tx)
                   /\ Held(Submitting \ {c}, tx) \in Nat /\ Count(c.txs, tx) \in Nat /\ IsSeq(c.txs)
        <4>1. AreRequests(Submitting) /\ IsSeq(c.txs)  BY <2>1 DEF PlacesOK, AreRequests
        <4>2. QED  BY <4>1, HeldRemove, HeldNat, CountType
      <3>2. Held({}, tx) = 0  BY HeldNone
      <3>3. blocks' = blocks => InBlocks(tx)' = InBlocks(tx)  BY DEF InBlocks, BlockCounts, Certified
      <3>4. CASE blocks' = blocks /\ Submitting' = {}
        BY <2>1, <3>2, <3>3, <3>4 DEF PlacesOK
      <3>5. ASSUME NEW c \in Submitting, blocks' = blocks, Submitting' = Submitting \ {c}
            PROVE  Held(Submitting, tx)' + InBlocks(tx)' <= Held(Submitting, tx) + InBlocks(tx)
        <4>1. Held(Submitting', tx) = Held(Submitting \ {c}, tx)  BY <3>5
        <4>2. QED  BY <2>1, <3>1, <3>3, <3>5, <4>1 DEF PlacesOK
      <3>6. ASSUME NEW c \in Submitting, SubmitToL1(c), Submitting' = {} \/ Submitting' = Submitting \ {c}
            PROVE  Held(Submitting, tx)' + InBlocks(tx)' <= Held(Submitting, tx) + InBlocks(tx)
        <4>1. InBlocks(tx)' <= InBlocks(tx) + Count(c.txs, tx)  BY <1>1, <3>1, <3>6, SubmissionCounts
        <4>2. Held(Submitting', tx) <= Held(Submitting \ {c}, tx)
          <5>0. PICK n : n = Held(Submitting \ {c}, tx) /\ n \in Nat  BY <3>1
          <5>1. CASE Submitting' = {}
            <6>1. Held(Submitting', tx) = 0  BY <3>2, <5>1
            <6>2. QED  BY <5>0, <6>1
          <5>2. CASE Submitting' = Submitting \ {c}
            <6>1. Held(Submitting', tx) = Held(Submitting \ {c}, tx)  BY <5>2
            <6>2. QED  BY <5>0, <6>1
          <5>3. QED  BY <3>6, <5>1, <5>2
        <4>3. QED  BY <2>1, <2>2, <3>1, <4>1, <4>2 DEF PlacesOK
      <3>7. QED  BY <3>4, <3>5, <3>6
    <2>5. QED  BY <2>1, <2>2, <2>3, <2>4 DEF PlacesOK
  <1>5. QED  BY <1>3, <1>4, PlacesCount

\* The answer to a commit.
LEMMA SubmitResult ==
    ASSUME CommitTypes, NEW c \in commits, Submit(c) \/ SubmitFails(c)
    PROVE  /\ c.pc = "arrived" /\ UNCHANGED <<written, txCh, seq, batches, states, sealed>>
           /\ SubmitToL1(c) \/ blocks' = blocks
           /\ \E new : commits' = Replace(commits, c, new) /\ IsRequest(new) /\ new.pc = "done" /\ new.block = c.block
  <1>1. DOMAIN c = Fields /\ IsSeq(c.txs)  BY DEF CommitTypes, IsRequest
  <1>2. /\ c.pc = "arrived" /\ UNCHANGED <<written, txCh, seq, batches, states, sealed>>
        /\ SubmitToL1(c) \/ blocks' = blocks
    BY DEF Submit, SubmitFails, source, l1vars
  <1>3. PICK new : /\ new = [c EXCEPT !.pc = "done", !.ok = TRUE] \/ new = [c EXCEPT !.pc = "done"]
                   /\ commits' = Replace(commits, c, new)
    BY DEF Submit, SubmitFails
  <1>4. DOMAIN new = Fields /\ new.pc = "done" /\ new.block = c.block /\ new.txs = c.txs
    BY <1>1, <1>3 DEF Fields
  <1>5. IsRequest(new)  BY <1>1, <1>4 DEF IsRequest
  <1>6. QED  BY <1>2, <1>3, <1>4, <1>5

\* The transactions of a commit go to the L1 node or are lost.
LEMMA SubmitCounts == ASSUME Counted, NEW c \in commits, Submit(c) \/ SubmitFails(c) PROVE Counted'
  <1>1. CommitTypes  BY DEF Counted, Types
  <1>2. /\ c.pc = "arrived" /\ UNCHANGED <<written, txCh, seq, batches, states>>
        /\ SubmitToL1(c) \/ blocks' = blocks
    BY <1>1, SubmitResult
  <1>3. PICK new : commits' = Replace(commits, c, new) /\ IsRequest(new) /\ new.pc = "done"
    BY <1>1, SubmitResult
  <1>4. commits' = (commits \ {c}) \cup {new}  BY <1>3 DEF Replace
  <1>5. CommitTypes'
    <2>1. IsFiniteSet(commits \ {c})  BY <1>1, FS_Subset DEF CommitTypes
    <2>2. IsFiniteSet(commits')  BY <1>4, <2>1, FS_AddElement
    <2>3. QED  BY <1>1, <1>3, <1>4, <2>2 DEF CommitTypes
  <1>6. c \in Submitting /\ Submitting' = Submitting \ {c}  BY <1>2, <1>3, <1>4 DEF Submitting
  <1>7. QED  BY <1>2, <1>5, <1>6, CommitsCount

\* Requests that are all ended are still requests.
LEMMA EndedRequests ==
    ASSUME NEW R, IsFiniteSet(R), \A r \in R : IsRequest(r), NEW T, T = {[r EXCEPT !.pc = "done"] : r \in R}
    PROVE  /\ IsFiniteSet(T)
           /\ \A t \in T : /\ IsRequest(t) /\ t.pc = "done"
                           /\ \E r \in R : t.block = r.block /\ t.lane = r.lane /\ t = [r EXCEPT !.pc = "done"]
  <1>1. ASSUME NEW r \in R
        PROVE  LET t == [r EXCEPT !.pc = "done"]
               IN  IsRequest(t) /\ t.pc = "done" /\ t.block = r.block /\ t.lane = r.lane
    <2>1. DOMAIN r = Fields /\ IsSeq(r.txs)  BY DEF IsRequest
    <2>2. PICK t : t = [r EXCEPT !.pc = "done"]  OBVIOUS
    <2>3. DOMAIN t = Fields /\ t.pc = "done" /\ t.block = r.block /\ t.lane = r.lane /\ t.txs = r.txs
      BY <2>1, <2>2 DEF Fields
    <2>4. IsRequest(t)  BY <2>1, <2>3 DEF IsRequest
    <2>5. QED  BY <2>2, <2>3, <2>4
  <1>2. IsFiniteSet(T)
    <2>1. PICK f : f = [r \in R |-> [r EXCEPT !.pc = "done"]]  OBVIOUS
    <2>2. f \in Surjection(R, T)  BY <2>1 DEF Surjection
    <2>3. QED  BY <2>2, FS_Surjection
  <1>3. QED  BY <1>1, <1>2

\* The replayer ends: its commits are lost, but for one that may have been submitted.
LEMMA ReplayerEndsCounts ==
    ASSUME Counted, NEW up, ReplayerEnds(up), UNCHANGED <<written, txCh, seq, batches, states>>
    PROVE  Counted'
  <1>1. CommitTypes  BY DEF Counted, Types
  <1>2. commits' = {[c EXCEPT !.pc = "done"] : c \in commits}  BY DEF ReplayerEnds
  <1>3. IsFiniteSet(commits') /\ \A c \in commits' : IsRequest(c) /\ c.pc = "done"
    BY <1>1, <1>2, EndedRequests DEF CommitTypes
  <1>4. CommitTypes' /\ Submitting' = {}  BY <1>3 DEF CommitTypes, Submitting
  <1>5. blocks' = blocks \/ \E c \in Submitting : SubmitToL1(c)  BY DEF ReplayerEnds, l1vars, Submitting
  <1>6. QED  BY <1>4, <1>5, CommitsCount

\* A restarted sequencer has forgotten its channel and its buffer.
LEMMA RestartSequencerCounts == ASSUME Counted, RestartSequencer PROVE Counted'
  <1>1. /\ seq' = NewSequencer(seq.run + 1) /\ txCh' = <<>>
        /\ UNCHANGED <<written, batches, states, commits, blocks>>
    BY DEF RestartSequencer, l1vars
  <1>2. SeqTypes  BY DEF Counted, Types
  <1>3. /\ DOMAIN seq' = {"run", "pc", "buffer", "rr", "currentBlock", "laned", "lane", "failed"}
        /\ seq'.run = seq.run + 1 /\ seq'.pc = "select" /\ seq'.buffer = <<>> /\ seq'.rr = 0
        /\ seq'.currentBlock = 0 /\ seq'.lane = 0
    BY <1>1 DEF NewSequencer
  <1>4. SeqTypes'  BY <1>1, <1>2, <1>3, EmptyFacts, LanesAssumed DEF SeqTypes
  <1>5. ASSUME NEW tx \in Txs
        PROVE  Count(txCh, tx)' + InSequencer(tx)' + written[tx]
                   <= Count(txCh, tx) + InSequencer(tx) + written'[tx]
    <2>1. PlacesOK(tx)  BY PlacesNat DEF Counted
    <2>2. Count(txCh', tx) = 0 /\ InSequencer(tx)' = 0  BY <1>1, <1>3, CountEmpty DEF InSequencer
    <2>3. QED  BY <1>1, <2>1, <2>2 DEF PlacesOK
  <1>6. QED  BY <1>1, <1>4, <1>5, StreamCounts DEF Counted, Types

\* A restarted aggregator has forgotten the blocks and the requests.
LEMMA RestartAggregatorCounts == ASSUME Counted, RestartAggregator PROVE Counted'
  <1>1. /\ states' = <<>> /\ batches' = {[b EXCEPT !.pc = "done"] : b \in batches}
        /\ UNCHANGED <<written, txCh, seq, commits, blocks>>
    BY DEF RestartAggregator, source, l1vars
  <1>2. Types /\ BatchTypes  BY DEF Counted, Types
  <1>3. IsFiniteSet(batches') /\ \A b \in batches' : IsRequest(b) /\ b.pc = "done"
    BY <1>1, <1>2, EndedRequests DEF BatchTypes
  <1>4. BatchTypes' /\ Waiting' = {}  BY <1>3 DEF BatchTypes, Waiting
  <1>5. StateTypes'  BY <1>1, EmptyFacts, FS_EmptySet DEF StateTypes
  <1>6. Types'  BY <1>1, <1>2, <1>4, <1>5, AggregatorOnly DEF Types
  <1>7. ASSUME NEW tx \in Txs
        PROVE  InSequencer(tx)' + Held(Waiting, tx)' + InStates(tx)' + Held(Submitting, tx)' + InBlocks(tx)'
                   <= InSequencer(tx) + Held(Waiting, tx) + InStates(tx) + Held(Submitting, tx) + InBlocks(tx)
    <2>1. PlacesOK(tx)  BY <1>2, PlacesNat
    <2>2. /\ InSequencer(tx)' = InSequencer(tx) /\ Held(Submitting, tx)' = Held(Submitting, tx)
          /\ InBlocks(tx)' = InBlocks(tx)
      BY <1>1, <1>2, AggregatorOnly
    <2>3. Held(Waiting', tx) = 0  BY <1>4, HeldNone
    <2>4. DOMAIN states' = {}  BY <1>1, EmptyFacts
    <2>5. InStates(tx)' = 0  BY <2>4, SumEmpty DEF InStates
    <2>6. QED  BY <2>1, <2>2, <2>3, <2>5 DEF PlacesOK
  <1>8. QED  BY <1>1, <1>6, <1>7, PlacesCount

\* Some requests hold no more than all of them.
LEMMA HeldSome ==
    ASSUME NEW R, AreRequests(R), NEW T \in SUBSET R, NEW tx PROVE Held(T, tx) <= Held(R, tx)
  <1> DEFINE N == {n \in Nat : \A S \in SUBSET R : Cardinality(R \ S) <= n => Held(S, tx) <= Held(R, tx)}
  <1>1. ASSUME NEW S \in SUBSET R
        PROVE  AreRequests(S) /\ IsFiniteSet(R \ S) /\ Held(S, tx) \in Nat /\ Cardinality(R \ S) \in Nat
    <2>1. IsFiniteSet(S) /\ IsFiniteSet(R \ S)  BY FS_Subset DEF AreRequests
    <2>2. AreRequests(S)  BY <2>1 DEF AreRequests
    <2>3. QED  BY <2>1, <2>2, HeldNat, FS_CardinalityType
  <1>2. 0 \in N
    <2>1. ASSUME NEW S \in SUBSET R, Cardinality(R \ S) <= 0 PROVE Held(S, tx) <= Held(R, tx)
      <3>1. Cardinality(R \ S) = 0 /\ IsFiniteSet(R \ S)  BY <1>1, <2>1
      <3>2. R \ S = {}  BY <3>1, FS_EmptySet
      <3>3. S = R /\ Held(R, tx) \in Nat  BY <1>1, <3>2
      <3>4. QED  BY <3>3
    <2>2. QED  BY <2>1
  <1>3. ASSUME NEW n \in Nat, n \in N PROVE n + 1 \in N
    <2>1. ASSUME NEW S \in SUBSET R, Cardinality(R \ S) <= n + 1 PROVE Held(S, tx) <= Held(R, tx)
      <3>0. PICK m, k, h : /\ m = Cardinality(R \ S) /\ m \in Nat
                           /\ k = Held(S, tx) /\ k \in Nat /\ h = Held(R, tx) /\ h \in Nat
        <4>1. R \in SUBSET R  OBVIOUS
        <4>2. Held(R, tx) \in Nat  BY <1>1, <4>1
        <4>3. QED  BY <1>1, <4>2
      <3>1. CASE S = R  BY <3>0, <3>1
      <3>2. CASE S # R
        <4>1. PICK r \in R \ S : TRUE  BY <3>2
        <4>2. PICK U : U = S \cup {r} /\ U \in SUBSET R  BY <4>1
        <4>3. R \ U = (R \ S) \ {r} /\ U \ {r} = S /\ r \in U  BY <4>1, <4>2
        <4>4. Cardinality(R \ U) = m - 1
          <5>1. IsFiniteSet(R \ S)  BY <1>1
          <5>2. Cardinality((R \ S) \ {r}) = Cardinality(R \ S) - 1  BY <4>1, <5>1, FS_RemoveElement
          <5>3. QED  BY <3>0, <4>3, <5>2
        <4>5. Cardinality(R \ U) <= n
          <5>1. m <= n + 1  BY <2>1, <3>0
          <5>2. QED  BY <3>0, <4>4, <5>1
        <4>6. Held(U, tx) <= Held(R, tx)  BY <1>3, <4>2, <4>5
        <4>7. Held(U, tx) = Held(S, tx) + Count(r.txs, tx)  BY <1>1, <4>2, <4>3, HeldRemove
        <4>8. Count(r.txs, tx) \in Nat  BY <4>1, CountType DEF AreRequests
        <4>9. PICK c : c = Count(r.txs, tx) /\ c \in Nat  BY <4>8
        <4>10. k + c <= h  BY <3>0, <4>6, <4>7, <4>9
        <4>11. k <= h  BY <3>0, <4>9, <4>10
        <4>12. QED  BY <3>0, <4>11
      <3>3. QED  BY <3>1, <3>2
    <2>2. QED  BY <2>1
  <1>4. Cardinality(R \ T) \in N
    <2>1. Cardinality(R \ T) \in Nat  BY <1>1
    <2> HIDE DEF N
    <2>2. QED  BY <1>2, <1>3, <2>1, NatSetInduction
  <1>5. QED  BY <1>1, <1>4

\* Of the submissions, some are cut off by the L1 node's restart.
LEMMA RestartL1Result ==
    ASSUME CommitTypes, RestartL1
    PROVE  /\ blocks' = <<>> /\ blockLog' = <<>>
           /\ UNCHANGED <<written, txCh, seq, batches, states, sealed>>
           /\ CommitTypes' /\ Submitting' \subseteq Submitting
           /\ \A d \in commits' : \E c \in commits : d.block = c.block /\ (d = c \/ d.pc = "done")
  <1>1. PICK cut \in SUBSET {c \in commits : c.pc = "arrived"} :
            commits' = (commits \ cut) \cup {[c EXCEPT !.pc = "done"] : c \in cut}
    BY DEF RestartL1
  <1>2. PICK T : T = {[c EXCEPT !.pc = "done"] : c \in cut}  OBVIOUS
  <1>3. IsFiniteSet(cut) /\ IsFiniteSet(commits \ cut) /\ \A c \in cut : IsRequest(c) /\ c \in commits
    BY <1>1, FS_Subset DEF CommitTypes
  <1>4. /\ IsFiniteSet(T)
        /\ \A t \in T : /\ IsRequest(t) /\ t.pc = "done"
                        /\ \E r \in cut : /\ t.block = r.block /\ t.lane = r.lane
                                         /\ t = [r EXCEPT !.pc = "done"]
    BY <1>2, <1>3, EndedRequests, Zenon
  <1>5. commits' = (commits \ cut) \cup T  BY <1>1, <1>2
  <1>6. IsFiniteSet(commits')  BY <1>3, <1>4, <1>5, FS_Union
  <1>7. CommitTypes'  BY <1>4, <1>5, <1>6 DEF CommitTypes
  <1>8. Submitting' \subseteq Submitting  BY <1>4, <1>5 DEF Submitting
  <1>9. \A d \in commits' : \E c \in commits : d.block = c.block /\ (d = c \/ d.pc = "done")
    BY <1>3, <1>4, <1>5
  <1>10. QED  BY <1>7, <1>8, <1>9 DEF RestartL1, source

\* A restarted L1 node has forgotten its blocks.
LEMMA RestartL1Counts == ASSUME Counted, RestartL1 PROVE Counted'
  <1>1. Types /\ CommitTypes  BY DEF Counted, Types
  <1>2. /\ blocks' = <<>> /\ UNCHANGED <<written, txCh, seq, batches, states>>
        /\ CommitTypes' /\ Submitting' \subseteq Submitting
    BY <1>1, RestartL1Result
  <1>3. DOMAIN blocks' = {}  BY <1>2, EmptyFacts
  <1>4. BlockTypes'  BY <1>3, FS_EmptySet DEF BlockTypes
  <1>5. Types'  BY <1>1, <1>2, <1>4 DEF Types, SeqTypes, BatchTypes, StateTypes
  <1>6. ASSUME NEW tx \in Txs
        PROVE  InSequencer(tx)' + Held(Waiting, tx)' + InStates(tx)' + Held(Submitting, tx)' + InBlocks(tx)'
                   <= InSequencer(tx) + Held(Waiting, tx) + InStates(tx) + Held(Submitting, tx) + InBlocks(tx)
    <2>1. PlacesOK(tx)  BY <1>1, PlacesNat
    <2>2. PlacesOK(tx)'  BY <1>5, PlacesNatNext
    <2>3. /\ InSequencer(tx)' = InSequencer(tx)
          /\ InStates(tx)' = InStates(tx) /\ Held(Waiting, tx)' = Held(Waiting, tx)
      BY <1>2 DEF InSequencer, Unposted, InStates, StateCounts, Waiting
    <2>4. Held(Submitting', tx) <= Held(Submitting, tx)
      <3>1. AreRequests(Submitting) /\ Submitting' \in SUBSET Submitting
        BY <1>2, <2>1 DEF PlacesOK
      <3>2. QED  BY <3>1, HeldSome
    <2>5. InBlocks(tx)' = 0  BY <1>3, SumEmpty DEF InBlocks
    <2>6. QED  BY <2>1, <2>2, <2>3, <2>4, <2>5 DEF PlacesOK
  <1>7. QED  BY <1>2, <1>5, <1>6, PlacesCount

\* Nothing was written at first.
LEMMA CountedStarts == Init => Counted
  <1> SUFFICES ASSUME Init PROVE Counted  OBVIOUS
  <1>1. /\ seq = NewSequencer(0) /\ txCh = <<>> /\ batches = {} /\ commits = {} /\ states = <<>>
        /\ blocks = <<>> /\ written = [tx \in Txs |-> 0]
    BY DEF Init, L1!Init
  <1>2. /\ DOMAIN seq = {"run", "pc", "buffer", "rr", "currentBlock", "laned", "lane", "failed"}
        /\ seq.run = 0 /\ seq.pc = "select" /\ seq.buffer = <<>> /\ seq.rr = 0
        /\ seq.currentBlock = 0 /\ seq.lane = 0
    BY <1>1 DEF NewSequencer
  <1>3. SeqTypes  BY <1>1, <1>2, EmptyFacts, LanesAssumed DEF SeqTypes
  <1>4. BatchTypes /\ CommitTypes  BY <1>1, FS_EmptySet DEF BatchTypes, CommitTypes
  <1>5. DOMAIN states = {} /\ DOMAIN blocks = {}  BY <1>1, EmptyFacts
  <1>6. StateTypes /\ BlockTypes  BY <1>5, FS_EmptySet DEF StateTypes, BlockTypes
  <1>7. Types  BY <1>1, <1>3, <1>4, <1>6 DEF Types
  <1>8. ASSUME NEW tx \in Txs PROVE Conserved(tx)
    <2>1. Count(txCh, tx) = 0 /\ InSequencer(tx) = 0  BY <1>1, <1>2, CountEmpty DEF InSequencer
    <2>2. Waiting = {} /\ Submitting = {}  BY <1>1 DEF Waiting, Submitting
    <2>3. Held(Waiting, tx) = 0 /\ Held(Submitting, tx) = 0  BY <2>2, HeldNone
    <2>4. InStates(tx) = 0 /\ InBlocks(tx) = 0  BY <1>5, SumEmpty DEF InStates, InBlocks
    <2>5. written[tx] = 0  BY <1>1
    <2>6. QED  BY <2>1, <2>3, <2>4, <2>5 DEF Conserved
  <1>9. QED  BY <1>7, <1>8 DEF Counted

\* No step has more of a transaction than was written.
LEMMA CountedKept == Counted /\ [Next]_vars => Counted'
  <1> SUFFICES ASSUME Counted, [Next]_vars PROVE Counted'  OBVIOUS
  <1>1. CASE Sequencer
    <2>1. CASE WriteTx  BY <2>1, WriteTxCounts
    <2>2. CASE Receive  BY <2>2, ReceiveCounts
    <2>3. CASE Post  BY <2>3, PostCounts
    <2>4. CASE Answered
      <3>1. PICK failed : seq' = NextLane(failed)  BY <2>4 DEF Answered
      <3>2. seq.pc # "select" /\ UNCHANGED <<written, txCh, batches, states, commits, blocks>>
        BY <2>4 DEF Answered, source, l1vars
      <3>3. QED  BY <3>1, <3>2, LaneReturnsCounts
    <2>5. QED  BY <1>1, <2>1, <2>2, <2>3, <2>4 DEF Sequencer
  <1>2. CASE Seal  BY <1>2, SealCounts
  <1>3. CASE PostFails
    <2>1. PICK failed : seq' = NextLane(failed)  BY <1>3 DEF PostFails
    <2>2. seq.pc # "select" /\ UNCHANGED <<written, txCh, batches, states, commits, blocks>>
      BY <1>3 DEF PostFails, source, l1vars
    <2>3. QED  BY <2>1, <2>2, LaneReturnsCounts
  <1>4. CASE Handlers
    <2>1. ASSUME NEW b \in batches, HandleBatch(b) \/ Forward(b) \/ Forwarded(b) PROVE Counted'
      BY <2>1, HandleBatchCounts, ForwardCounts, AnswerCounts
    <2>2. ASSUME NEW c \in commits, Submit(c) PROVE Counted'  BY <2>2, SubmitCounts
    <2>3. QED  BY <1>4, <2>1, <2>2 DEF Handlers
  <1>5. ASSUME NEW b \in batches, ForwardFails(b) PROVE Counted'  BY <1>5, AnswerCounts
  <1>6. ASSUME NEW c \in commits, SubmitFails(c) PROVE Counted'  BY <1>6, SubmitCounts
  <1>7. CASE BookRace \/ RestartReplayer
    <2>1. PICK up : ReplayerEnds(up)  BY <1>7 DEF BookRace, RestartReplayer
    <2>2. UNCHANGED <<written, txCh, seq, batches, states>>  BY <1>7 DEF BookRace, RestartReplayer, source
    <2>3. QED  BY <2>1, <2>2, ReplayerEndsCounts
  <1>8. CASE StreamBreaks \/ ReplayerComesBack \/ UNCHANGED vars
    <2>1. UNCHANGED <<written, txCh, seq, batches, states, commits, blocks>>
      BY <1>8 DEF StreamBreaks, ReplayerComesBack, vars, source, l1vars
    <2>2. SeqTypes' /\ written' \in [Txs -> Nat]  BY <2>1 DEF Counted, Types, SeqTypes
    <2>3. ASSUME NEW tx \in Txs
          PROVE  Count(txCh, tx)' + InSequencer(tx)' + written[tx]
                     <= Count(txCh, tx) + InSequencer(tx) + written'[tx]
      <3>1. PlacesOK(tx)  BY PlacesNat DEF Counted
      <3>2. InSequencer(tx)' = InSequencer(tx)  BY <2>1 DEF InSequencer, Unposted
      <3>3. QED  BY <2>1, <3>1, <3>2 DEF PlacesOK
    <2>4. QED  BY <2>1, <2>2, <2>3, StreamCounts
  <1>9. CASE RestartSequencer  BY <1>9, RestartSequencerCounts
  <1>10. CASE RestartAggregator  BY <1>10, RestartAggregatorCounts
  <1>11. CASE RestartL1  BY <1>11, RestartL1Counts
  <1>12. QED
    BY <1>1, <1>2, <1>3, <1>4, <1>5, <1>6, <1>7, <1>8, <1>9, <1>10, <1>11 DEF Next

(***************************************************************************)
(* The l1-cert-node never holds a transaction more often than l2-ingress   *)
(* has written it: for any stream, lanes and channel, whatever connections *)
(* break and whichever daemons are restarted, in any order and number.     *)
(***************************************************************************)
THEOREM TxAppliedOnce == Spec => []EachTxOnce
  <1>1. ASSUME Counted PROVE EachTxOnce
    <2>1. ASSUME NEW tx \in Txs PROVE InBlocks(tx) <= written[tx]
      <3>1. PlacesOK(tx) /\ Conserved(tx)  BY <1>1, PlacesNat DEF Counted
      <3>2. QED  BY <3>1 DEF PlacesOK, Conserved
    <2>2. QED  BY <2>1 DEF EachTxOnce, InBlocks, BlockCounts
  <1>2. QED  BY <1>1, CountedStarts, CountedKept, PTL DEF Spec

-----------------------------------------------------------------------------
(* More lanes than ids *)

\* No block ever gets its last lane: nothing leaves the aggregator, which keeps every
\* block that it was sent until it is restarted.
Wide ==
    /\ commits = {} /\ blocks = <<>> /\ blockLog = <<>>
    /\ \A b \in batches : b.lane \in LaneSet /\ b.pc \in {"arrived", "done"}
    /\ \A x \in DOMAIN states : states[x].lanes \subseteq 0..(args.laneIds - 1)
    /\ restarts = 0 => \A b \in batches : b.pc = "arrived" \/ (b.ok /\ b.block \in DOMAIN states)

WideInv == Counted /\ restarts \in Nat /\ args \in Setups /\ (~OwnIds => Wide)

\* A lane more leaves the block incomplete.
LEMMA NeverComplete ==
    ASSUME args \in Setups, ~OwnIds, Counted, Wide, NEW b \in batches
    PROVE  StateOf(b).lanes \subseteq 0..(args.laneIds - 1) /\ Cardinality(StateOf(b).lanes) # Lanes
  <1>1. StateTypes /\ IsSeq(b.txs) /\ b.lane \in LaneSet  BY DEF Counted, Types, BatchTypes, IsRequest, Wide
  <1>2. Lanes \in Nat /\ args.laneIds \in Nat \ {0} /\ args.laneIds < Lanes
    BY DaemonsAssumption, DaemonSetupsAssumption DEF OwnIds
  <1>3. LaneId(b.lane) \in 0..(args.laneIds - 1)
    <2>1. b.lane \in Nat  BY <1>1, <1>2 DEF LaneSet
    <2>2. QED  BY <1>2, <2>1 DEF LaneId
  <1>4. StateOf(b).lanes = (IF b.block \in DOMAIN states THEN states[b.block].lanes ELSE {})
                               \cup {LaneId(b.lane)}
    BY <1>1, StateCount
  <1>5. StateOf(b).lanes \in SUBSET (0..(args.laneIds - 1))  BY <1>3, <1>4 DEF Wide
  <1>6. IsFiniteSet(0..(args.laneIds - 1)) /\ Cardinality(0..(args.laneIds - 1)) = args.laneIds
    <2>1. /\ 0 \in Int /\ args.laneIds - 1 \in Int /\ ~(0 > args.laneIds - 1)
          /\ (args.laneIds - 1) - 0 + 1 = args.laneIds
      BY <1>2
    <2>2. QED  BY <2>1, FS_Interval
  <1>7. Cardinality(StateOf(b).lanes) <= args.laneIds /\ Cardinality(StateOf(b).lanes) \in Nat
    BY <1>5, <1>6, FS_Subset, FS_CardinalityType
  <1>8. QED  BY <1>2, <1>5, <1>7

\* A lane more leaves its block in the map.
LEMMA HandleBatchWide ==
    ASSUME args \in Setups, ~OwnIds, Counted, Wide, NEW b \in batches, HandleBatch(b) PROVE Wide'
  <1>1. BatchTypes /\ StateTypes  BY DEF Counted, Types
  <1>2. StateOf(b).lanes \subseteq 0..(args.laneIds - 1) /\ Cardinality(StateOf(b).lanes) # Lanes  BY NeverComplete
  <1>3. states' = Put(states, b.block, StateOf(b))  BY <1>1, <1>2, HandleBatchResult
  <1>4. PICK new : /\ batches' = Replace(batches, b, new) /\ new.pc = "done"
                   /\ new.block = b.block /\ new.lane = b.lane /\ new.ok
    BY <1>1, <1>2, HandleBatchResult
  <1>5. UNCHANGED <<args, commits, blocks, blockLog, restarts>>  BY DEF HandleBatch, l1vars
  <1>6. batches' = (batches \ {b}) \cup {new}  BY <1>4 DEF Replace
  <1>7. /\ DOMAIN states' = DOMAIN states \cup {b.block} /\ states'[b.block] = StateOf(b)
        /\ \A x \in DOMAIN states \ {b.block} : states'[x] = states[x]
    BY <1>3 DEF Put
  <1>8. QED  BY <1>2, <1>4, <1>5, <1>6, <1>7 DEF Wide

\* A lane is posted.
LEMMA PostWide == ASSUME Counted, Wide, Post PROVE Wide'
  <1>1. SeqTypes  BY DEF Counted, Types
  <1>2. PICK new : /\ new = [run |-> seq.run, block |-> seq.currentBlock, lane |-> seq.lane,
                             txs |-> seq.laned[seq.lane], pc |-> "arrived", ok |-> FALSE]
                   /\ batches' = batches \cup {new}
    BY DEF Post
  <1>3. new.lane \in LaneSet /\ new.pc = "arrived"  BY <1>1, <1>2 DEF SeqTypes
  <1>4. UNCHANGED <<args, commits, blocks, blockLog, restarts, states>>  BY DEF Post, l1vars
  <1>5. QED  BY <1>2, <1>3, <1>4 DEF Wide

\* The daemons start with nothing posted.
LEMMA WideStarts == Init => WideInv
  <1> SUFFICES ASSUME Init PROVE WideInv  OBVIOUS
  <1>1. /\ batches = {} /\ commits = {} /\ states = <<>> /\ restarts = 0
        /\ blocks = <<>> /\ blockLog = <<>> /\ args \in Setups
    BY DEF Init, L1!Init
  <1>2. DOMAIN states = {}  BY <1>1, EmptyFacts
  <1>3. QED  BY <1>1, <1>2, CountedStarts DEF WideInv, Wide

\* Every step leaves every block incomplete.
LEMMA WideKept == WideInv /\ [Next]_vars => WideInv'
  <1> SUFFICES ASSUME WideInv, [Next]_vars PROVE WideInv'  OBVIOUS
  <1>1. Counted' /\ Counted /\ BatchTypes /\ StateTypes /\ CommitTypes
    BY CountedKept DEF WideInv, Counted, Types
  <1>0. args \in Setups /\ args' = args  BY SetupKept DEF WideInv
  <1>2. restarts' \in Nat /\ (Restart \/ restarts' = restarts)
    <2>1. restarts \in Nat  BY DEF WideInv
    <2>2. CASE Restart  BY <2>1, <2>2, RestartCounts
    <2>3. CASE restarts' = restarts  BY <2>1, <2>3
    <2>4. Restart \/ restarts' = restarts
      BY DEF Next, Sequencer, Handlers, WriteTx, Receive, Seal, Post, Answered, PostFails, HandleBatch,
         Forward, Forwarded, ForwardFails, Submit, SubmitFails, StreamBreaks, BookRace,
         ReplayerComesBack, RestartSequencer, RestartAggregator, RestartReplayer, RestartL1, vars
    <2>5. QED  BY <2>2, <2>3, <2>4
  <1>3. ASSUME ~OwnIds PROVE Wide'
    <2>1. Wide /\ commits = {}  BY <1>3 DEF WideInv, Wide
    <2>2. ASSUME UNCHANGED <<batches, states, commits, blocks, blockLog, restarts>> PROVE Wide'
      BY <1>0, <2>1, <2>2 DEF Wide
    <2>3. CASE Sequencer \/ Seal \/ PostFails
      <3>1. CASE Post  BY <1>1, <2>1, <3>1, PostWide
      <3>2. CASE WriteTx \/ Receive \/ Answered \/ Seal \/ PostFails
        BY <2>2, <3>2 DEF WriteTx, Receive, Answered, Seal, PostFails, l1vars
      <3>3. QED  BY <2>3, <3>1, <3>2 DEF Sequencer
    <2>4. ASSUME NEW b \in batches, HandleBatch(b) \/ Forward(b) \/ Forwarded(b) \/ ForwardFails(b)
          PROVE  Wide'
      <3>1. b.pc \in {"arrived", "done"}  BY <2>1 DEF Wide
      <3>2. ~Forward(b) /\ ~Forwarded(b) /\ ~ForwardFails(b)
        BY <3>1 DEF Forward, Forwarded, ForwardFails
      <3>3. QED  BY <1>0, <1>1, <1>3, <2>1, <2>4, <3>2, HandleBatchWide
    <2>5. CASE BookRace \/ RestartReplayer
      <3>1. PICK up : ReplayerEnds(up)  BY <2>5 DEF BookRace, RestartReplayer
      <3>2. commits' = {} /\ UNCHANGED <<blocks, blockLog>>  BY <2>1, <3>1 DEF ReplayerEnds, l1vars
      <3>3. UNCHANGED <<batches, states>>  BY <2>5 DEF BookRace, RestartReplayer
      <3>4. restarts' = 0 => restarts = 0  BY <1>2, RestartCounts DEF WideInv
      <3>5. QED  BY <1>0, <2>1, <3>2, <3>3, <3>4 DEF Wide
    <2>6. CASE RestartSequencer \/ RestartAggregator \/ RestartL1
      <3>1. Restart  BY <2>6 DEF RestartSequencer, RestartAggregator, RestartL1
      <3>2. restarts' # 0  BY <3>1, RestartCounts DEF WideInv
      <3>3. CASE RestartSequencer
        <4>1. UNCHANGED <<batches, states, commits, blocks, blockLog>>  BY <3>3 DEF RestartSequencer, l1vars
        <4>2. QED  BY <1>0, <2>1, <3>2, <4>1 DEF Wide
      <3>4. CASE RestartAggregator
        <4>1. /\ states' = <<>> /\ batches' = {[b EXCEPT !.pc = "done"] : b \in batches}
              /\ UNCHANGED <<commits, blocks, blockLog>>
          BY <3>4 DEF RestartAggregator, l1vars
        <4>2. \A t \in batches' : t.pc = "done" /\ \E b \in batches : t.lane = b.lane
          <5>1. \A t \in batches' : /\ IsRequest(t) /\ t.pc = "done"
                                   /\ \E r \in batches : /\ t.block = r.block /\ t.lane = r.lane
                                                        /\ t = [r EXCEPT !.pc = "done"]
            BY <1>1, <4>1, EndedRequests, Zenon DEF BatchTypes
          <5>2. QED  BY <5>1
        <4>3. DOMAIN states' = {}  BY <4>1, EmptyFacts
        <4>4. QED  BY <1>0, <2>1, <3>2, <4>1, <4>2, <4>3 DEF Wide
      <3>5. CASE RestartL1
        <4>1. blocks' = <<>> /\ blockLog' = <<>> /\ UNCHANGED <<batches, states>>
          BY <1>1, <3>5, RestartL1Result
        <4>2. commits' = {}  BY <2>1, <3>5 DEF RestartL1
        <4>3. QED  BY <1>0, <2>1, <3>2, <4>1, <4>2 DEF Wide
      <3>6. QED  BY <2>6, <3>3, <3>4, <3>5
    <2>7. CASE StreamBreaks \/ ReplayerComesBack \/ UNCHANGED vars
      BY <2>2, <2>7 DEF StreamBreaks, ReplayerComesBack, vars, l1vars
    <2>8. QED  BY <2>1, <2>3, <2>4, <2>5, <2>6, <2>7 DEF Next, Handlers
  <1>4. QED  BY <1>0, <1>1, <1>2, <1>3 DEF WideInv, OwnIds

(***************************************************************************)
(* A block of which the l2-sequencer was told ok for every lane is in the  *)
(* log of the l1-cert-node, accepted unless the replayer spoilt its proof: *)
(* for any stream, blocks, settings of the replayer and broken connections *)
(* while no daemon is restarted, if the lane ids of a request tell the     *)
(* lanes apart.  If they do not, the l2-aggregator never sends a block on, *)
(* whichever daemons are restarted; as long as none is, it answers ok to   *)
(* every lane and keeps every block.                                       *)
(***************************************************************************)
THEOREM OkIsSubmitted == Spec => []OkMeansSubmitted
  <1>1. ASSUME IInv, OwnIds PROVE OkMeansSubmitted
    <2>1. SUFFICES ASSUME restarts = 0, NEW x \in 0..(seq.currentBlock - 1), x \notin seq.failed
                   PROVE  Logged(x)
      BY <1>1 DEF OkMeansSubmitted, Submitted, Logged, OwnIds
    <2>2. Undisturbed /\ seq.currentBlock \in Nat  BY <1>1, <2>1 DEF IInv, Undisturbed, SeqInv
    <2>3. x \in Nat /\ x < seq.currentBlock  BY <2>2
    <2>4. ASSUME NEW l \in LaneSet PROVE ToldOk(x, l)
      BY <2>1, <2>2, <2>3 DEF Undisturbed, AnswerInv, Returned
    <2>5. Handled(x) = LaneSet
      <3>1. LaneSet \subseteq Handled(x)  BY <2>4 DEF ToldOk, Handled, BatchesOf
      <3>2. Handled(x) \subseteq LaneSet  BY <2>2 DEF Handled, BatchesOf, Undisturbed, BatchInv, BatchOK
      <3>3. QED  BY <3>1, <3>2
    <2>6. PICK b \in BatchesOf(x) : b.pc = "done" /\ b.ok => Logged(x)
      BY <2>2, <2>3, <2>5 DEF Undisturbed, BlockInv, Closed
    <2>7. b \in batches /\ b.block = x /\ b.lane \in LaneSet
      BY <2>2, <2>6 DEF BatchesOf, Undisturbed, BatchInv, BatchOK
    <2>8. PICK c \in batches : c.block = x /\ c.lane = b.lane /\ c.pc = "done" /\ c.ok
      BY <2>4, <2>7 DEF ToldOk
    <2>9. c = b  BY <2>2, <2>7, <2>8 DEF Undisturbed, BatchInv
    <2>10. QED  BY <2>6, <2>8, <2>9
  <1>2. ASSUME WideInv, ~OwnIds PROVE OkMeansSubmitted
    BY <1>2 DEF WideInv, Wide, OkMeansSubmitted, NeverSubmitted, OwnIds
  <1>3. IInv /\ WideInv => OkMeansSubmitted  BY <1>1, <1>2
  <1>4. QED  BY <1>3, InvariantStarts, InvariantKept, WideStarts, WideKept, PTL DEF Spec

-----------------------------------------------------------------------------
(* What is certified was sealed *)

\* The blocks that were sealed are what they were.
LEMMA SealedKept ==
    ASSUME sealed' = sealed
    PROVE  /\ SealedBlocks' = SealedBlocks
           /\ \A txs, x : IsWhole(txs, x)' <=> IsWhole(txs, x)
  BY DEF SealedBlocks, IsWhole

\* A step that neither seals nor posts, nor takes anything from the daemons.
LEMMA FirstRunKept ==
    ASSUME FirstRun, UNCHANGED <<batches, states, commits, blocks, sealed>>,
           seq'.pc = seq.pc, seq'.lane = seq.lane, seq'.laned = seq.laned,
           seq'.currentBlock = seq.currentBlock
    PROVE  FirstRun'
  <1>1. SealedBlocks' = SealedBlocks /\ \A txs, x : IsWhole(txs, x)' <=> IsWhole(txs, x)  BY SealedKept
  <1>2. SealedInv'  BY <1>1 DEF FirstRun, SealedInv
  <1>3. KeysInv'  BY <1>1 DEF FirstRun, KeysInv, Posted, Returned
  <1>4. CommitsFit'  BY <1>1 DEF FirstRun, CommitsFit
  <1>5. BlocksFit'
    <2>1. \A x : Certified(x)' = Certified(x)  BY DEF Certified
    <2>2. QED  BY <1>1, <2>1 DEF FirstRun, BlocksFit
  <1>6. PICK plan : SeqFits(plan) /\ BatchesFit(plan) /\ StatesFit(plan)  BY DEF FirstRun
  <1>7. SeqFits(plan)'  BY <1>1, <1>6 DEF SeqFits
  <1>8. BatchesFit(plan)'  BY <1>1, <1>6 DEF BatchesFit
  <1>9. StatesFit(plan)'  BY <1>1, <1>6 DEF StatesFit, Handled, BatchesOf
  <1>10. QED  BY <1>2, <1>3, <1>4, <1>5, <1>7, <1>8, <1>9 DEF FirstRun

\* A block is sealed that was not sealed before.
LEMMA SealFits == ASSUME Types, seq.run = 0, FirstRun, Seal PROVE FirstRun'
  <1>1. SeqTypes /\ IsSeq(seq.buffer) /\ seq.rr \in Nat /\ seq.currentBlock \in Nat
    BY DEF Types, SeqTypes
  <1>2. /\ seq.pc = "select" /\ seq'.pc = "post" /\ seq'.lane = 0 /\ seq.lane = 0
        /\ seq'.laned = Laned(seq.buffer, seq.rr) /\ seq'.currentBlock = seq.currentBlock
    BY <1>1, SealResult DEF SeqTypes
  <1>3. PICK y, k, laned : y = seq.currentBlock /\ k = <<0, y>> /\ laned = Laned(seq.buffer, seq.rr)
    OBVIOUS
  <1>4. sealed' = Put(sealed, k, seq.buffer) /\ UNCHANGED <<batches, states, commits, blocks>>
    BY <1>3 DEF Seal, l1vars
  <1>5. DOMAIN sealed' = DOMAIN sealed \cup {k} /\ sealed'[k] = seq.buffer
        /\ \A j \in DOMAIN sealed : j # k => sealed'[j] = sealed[j]
    BY <1>4 DEF Put
  <1>6. y \notin SealedBlocks /\ y \in Nat
    <2>1. SealedInv  BY DEF FirstRun
    <2>2. QED  BY <1>1, <1>2, <1>3, <2>1 DEF SealedInv
  <1>7. ASSUME NEW x PROVE <<0, x>> = k <=> x = y  BY <1>3
  <1>8. SealedBlocks' = SealedBlocks \cup {y}
    BY <1>5, <1>6, <1>7 DEF SealedBlocks
  <1>9. ASSUME NEW x \in SealedBlocks PROVE sealed'[<<0, x>>] = sealed[<<0, x>>] /\ x # y
    BY <1>5, <1>6, <1>7 DEF SealedBlocks
  <1>10. ASSUME NEW x \in SealedBlocks, NEW txs PROVE IsWhole(txs, x)' <=> IsWhole(txs, x)
    BY <1>9 DEF IsWhole
  <1>11. SealedInv'
    <2>1. \A x \in SealedBlocks : x < seq.currentBlock  BY <1>2 DEF FirstRun, SealedInv
    <2>2. QED  BY <1>2, <1>3, <1>8, <2>1 DEF SealedInv
  <1>12. KeysInv'  BY <1>2, <1>4, <1>8 DEF FirstRun, KeysInv, Posted, Returned
  <1>13. CommitsFit'  BY <1>4, <1>8, <1>10 DEF FirstRun, CommitsFit
  <1>14. BlocksFit'
    <2>1. \A x : Certified(x)' = Certified(x)  BY <1>4 DEF Certified
    <2>2. QED  BY <1>4, <1>8, <1>10, <2>1 DEF FirstRun, BlocksFit
  <1>15. PICK plan : SeqFits(plan) /\ BatchesFit(plan) /\ StatesFit(plan)  BY DEF FirstRun
  <1>16. PICK new : new = [x \in SealedBlocks \cup {y} |-> IF x = y THEN laned ELSE plan[x]]  OBVIOUS
  <1>17. new[y] = laned /\ \A x \in SealedBlocks : new[x] = plan[x]  BY <1>6, <1>16
  <1>18. SeqFits(new)'
    <2>1. Splits(laned, seq.buffer)
      <3>1. \A l \in LaneSet : IsSeq(laned[l])  BY <1>1, <1>3, LanesAreSeqs
      <3>2. \A tx \in Txs : SumFunctionOnSet(LaneCounts(laned, tx), LaneSet) = Count(seq.buffer, tx)
        BY <1>1, <1>3, LanesCountAll
      <3>3. QED  BY <3>1, <3>2 DEF Splits
    <2>2. Splits(new[y], sealed'[<<0, y>>])  BY <1>3, <1>5, <1>17, <2>1
    <2>3. \A x \in SealedBlocks : Splits(new[x], sealed'[<<0, x>>])
      BY <1>9, <1>15, <1>17 DEF SeqFits
    <2>4. seq'.laned = new[seq'.currentBlock]  BY <1>2, <1>3, <1>17
    <2>5. QED  BY <1>8, <2>2, <2>3, <2>4 DEF SeqFits
  <1>19. BatchesFit(new)'
    <2>1. \A b \in batches : b.block \in SealedBlocks  BY DEF FirstRun, KeysInv
    <2>2. QED  BY <1>4, <1>10, <1>15, <1>17, <2>1 DEF BatchesFit
  <1>20. StatesFit(new)'
    <2>1. \A x : Handled(x)' = Handled(x)  BY <1>4 DEF Handled, BatchesOf
    <2>2. QED  BY <1>4, <1>8, <1>15, <1>17, <2>1 DEF StatesFit
  <1>21. QED  BY <1>11, <1>12, <1>13, <1>14, <1>18, <1>19, <1>20 DEF FirstRun

\* The sequencer goes on to the next lane or to the next block.
LEMMA LaneReturnsFits ==
    ASSUME Types, FirstRun, seq.pc # "select", NEW failed, seq' = NextLane(failed),
           UNCHANGED <<txCh, batches, states, commits, blocks, sealed>>
    PROVE  FirstRun'
  <1>1. SeqTypes /\ seq.currentBlock \in Nat /\ seq.lane \in LaneSet /\ Lanes \in Nat
    BY LanesAssumed DEF Types, SeqTypes
  <1>2. \/ /\ seq.lane + 1 < Lanes /\ seq'.pc = "post" /\ seq'.lane = seq.lane + 1
           /\ seq'.currentBlock = seq.currentBlock /\ seq'.laned = seq.laned
        \/ /\ ~(seq.lane + 1 < Lanes) /\ seq'.pc = "select" /\ seq'.lane = 0
           /\ seq'.currentBlock = seq.currentBlock + 1
    BY <1>1, NextLaneResult
  <1>3. SealedBlocks' = SealedBlocks /\ \A txs, x : IsWhole(txs, x)' <=> IsWhole(txs, x)  BY SealedKept
  <1>4. SealedBlocks \subseteq Nat  BY DEF SealedBlocks
  <1>5. SealedInv'  BY <1>1, <1>2, <1>3, <1>4 DEF FirstRun, SealedInv
  <1>6. KeysInv'
    <2>1. ASSUME NEW x \in Nat, NEW l \in LaneSet, Posted(x, l) PROVE Posted(x, l)'
      <3>1. l \in Nat /\ l < Lanes /\ seq.lane \in Nat /\ seq.lane < Lanes  BY <1>1 DEF LaneSet
      <3>2. CASE seq.lane + 1 < Lanes  BY <1>1, <1>2, <2>1, <3>1, <3>2 DEF Posted, Returned
      <3>3. CASE ~(seq.lane + 1 < Lanes)  BY <1>1, <1>2, <2>1, <3>1, <3>3 DEF Posted, Returned
      <3>4. QED  BY <3>2, <3>3
    <2>2. QED  BY <1>3, <1>4, <2>1 DEF FirstRun, KeysInv
  <1>7. CommitsFit'  BY <1>3 DEF FirstRun, CommitsFit
  <1>8. BlocksFit'
    <2>1. \A x : Certified(x)' = Certified(x)  BY DEF Certified
    <2>2. QED  BY <1>3, <2>1 DEF FirstRun, BlocksFit
  <1>9. PICK plan : SeqFits(plan) /\ BatchesFit(plan) /\ StatesFit(plan)  BY DEF FirstRun
  <1>10. SeqFits(plan)'  BY <1>2, <1>3, <1>9 DEF SeqFits
  <1>11. BatchesFit(plan)'  BY <1>3, <1>9 DEF BatchesFit
  <1>12. StatesFit(plan)'  BY <1>3, <1>9 DEF StatesFit, Handled, BatchesOf
  <1>13. QED  BY <1>5, <1>6, <1>7, <1>8, <1>10, <1>11, <1>12 DEF FirstRun

\* A lane is posted that was not posted before.
LEMMA PostFits == ASSUME Types, FirstRun, Post PROVE FirstRun'
  <1>1. SeqTypes /\ seq.currentBlock \in Nat /\ seq.lane \in LaneSet /\ seq.lane \in Nat
    BY LanesFinite DEF Types, SeqTypes
  <1>2. PICK new : /\ batches' = batches \cup {new} /\ new.pc = "arrived"
                   /\ new.block = seq.currentBlock /\ new.lane = seq.lane
                   /\ new.txs = seq.laned[seq.lane]
    BY <1>1, PostResult
  <1>3. /\ seq.pc = "post" /\ seq'.pc = "await" /\ seq'.lane = seq.lane
        /\ seq'.laned = seq.laned /\ seq'.currentBlock = seq.currentBlock
    BY <1>1, PostResult
  <1>4. UNCHANGED <<states, commits, blocks, sealed>>  BY DEF Post, l1vars
  <1>5. SealedBlocks' = SealedBlocks /\ \A txs, x : IsWhole(txs, x)' <=> IsWhole(txs, x)
    BY <1>4, SealedKept
  <1>6. SealedInv' /\ seq.currentBlock \in SealedBlocks  BY <1>3, <1>5 DEF FirstRun, SealedInv
  <1>7. KeysInv'
    <2>1. KeysInv  BY DEF FirstRun
    <2>2. ASSUME NEW x, NEW l, Posted(x, l) PROVE Posted(x, l)'
      BY <1>3, <2>2 DEF Posted, Returned
    <2>3. Posted(new.block, new.lane)'  BY <1>2, <1>3 DEF Posted
    <2>4. ~Posted(new.block, new.lane)  BY <1>1, <1>2, <1>3 DEF Posted, Returned
    <2>5. ASSUME NEW b \in batches PROVE ~(b.block = new.block /\ b.lane = new.lane)
      BY <2>1, <2>4, <2>5 DEF KeysInv
    <2>6. ASSUME NEW b \in batches', NEW c \in batches', b.block = c.block, b.lane = c.lane PROVE b = c
      BY <1>2, <2>1, <2>5, <2>6 DEF KeysInv
    <2>7. ASSUME NEW b \in batches'
          PROVE  b.lane \in LaneSet /\ b.block \in SealedBlocks /\ Posted(b.block, b.lane)'
      BY <1>1, <1>2, <1>6, <2>1, <2>2, <2>3 DEF KeysInv
    <2>8. QED  BY <1>5, <2>6, <2>7 DEF KeysInv
  <1>8. CommitsFit'  BY <1>4, <1>5 DEF FirstRun, CommitsFit
  <1>9. BlocksFit'
    <2>1. \A x : Certified(x)' = Certified(x)  BY <1>4 DEF Certified
    <2>2. QED  BY <1>4, <1>5, <2>1 DEF FirstRun, BlocksFit
  <1>10. PICK plan : SeqFits(plan) /\ BatchesFit(plan) /\ StatesFit(plan)  BY DEF FirstRun
  <1>11. SeqFits(plan)'  BY <1>3, <1>4, <1>5, <1>10 DEF SeqFits
  <1>12. BatchesFit(plan)'
    <2>1. new.txs = plan[new.block][new.lane]  BY <1>2, <1>3, <1>10 DEF SeqFits
    <2>2. QED  BY <1>2, <1>5, <1>10, <2>1 DEF BatchesFit
  <1>13. StatesFit(plan)'
    <2>1. \A x : Handled(x)' = Handled(x)  BY <1>2 DEF Handled, BatchesOf
    <2>2. QED  BY <1>4, <1>5, <1>10, <2>1 DEF StatesFit
  <1>14. QED  BY <1>6, <1>7, <1>8, <1>9, <1>11, <1>12, <1>13 DEF FirstRun

\* A request moves on.
LEMMA RequestMovesFits ==
    ASSUME FirstRun, NEW b \in batches, NEW new, batches' = Replace(batches, b, new),
           new.block = b.block, new.lane = b.lane, new.pc # "arrived", UNCHANGED <<seq, sealed>>
    PROVE  /\ SealedInv' /\ KeysInv' /\ b.block \in SealedBlocks /\ b.lane \in LaneSet
           /\ \A x : Handled(x)' = IF x = b.block THEN Handled(x) \cup {b.lane} ELSE Handled(x)
           /\ \A plan : SeqFits(plan) => SeqFits(plan)'
           /\ \A plan : BatchesFit(plan) /\ (new.pc = "forward" => IsWhole(new.txs, b.block)) => BatchesFit(plan)'
  <1>1. batches' = (batches \ {b}) \cup {new}  BY DEF Replace
  <1>2. SealedBlocks' = SealedBlocks /\ \A txs, x : IsWhole(txs, x)' <=> IsWhole(txs, x)  BY SealedKept
  <1>3. SealedInv'  BY <1>2 DEF FirstRun, SealedInv
  <1>4. KeysInv /\ b.block \in SealedBlocks /\ b.lane \in LaneSet  BY DEF FirstRun, KeysInv
  <1>5. KeysInv'
    <2>1. \A x, l : Posted(x, l)' <=> Posted(x, l)  BY DEF Posted, Returned
    <2>2. ASSUME NEW c \in batches', NEW d \in batches', c.block = d.block, c.lane = d.lane PROVE c = d
      BY <1>1, <1>4, <2>2 DEF KeysInv
    <2>3. QED  BY <1>1, <1>2, <1>4, <2>1, <2>2 DEF KeysInv
  <1>6. ASSUME NEW x PROVE Handled(x)' = IF x = b.block THEN Handled(x) \cup {b.lane} ELSE Handled(x)
    BY <1>1 DEF Handled, BatchesOf
  <1>7. ASSUME NEW plan, SeqFits(plan) PROVE SeqFits(plan)'  BY <1>2, <1>7 DEF SeqFits
  <1>8. ASSUME NEW plan, BatchesFit(plan), new.pc = "forward" => IsWhole(new.txs, b.block)
        PROVE  BatchesFit(plan)'
    BY <1>1, <1>2, <1>8 DEF BatchesFit
  <1>9. QED  BY <1>3, <1>4, <1>5, <1>6, <1>7, <1>8

\* A block that has all its lanes is whole.
LEMMA AllLanesWhole ==
    ASSUME NEW st, NEW laned, NEW x, Collects(st, laned), Splits(laned, sealed[<<0, x>>]), st.lanes = LaneSet
    PROVE  IsWhole(st.txs, x)
  BY DEF Collects, Splits, IsWhole

\* A lane is added to the block that it is a lane of.
LEMMA LaneCollected ==
    ASSUME args \in Setups, OwnIds, Types, FirstRun, NEW b \in batches, b.pc = "arrived",
           NEW plan, SeqFits(plan), BatchesFit(plan), StatesFit(plan)
    PROVE  /\ Collects(StateOf(b), plan[b.block])
           /\ StateOf(b).lanes \subseteq Handled(b.block) \cup {b.lane}
           /\ StateOf(b).lanes \subseteq LaneSet
  <1>0. PICK y, st, L : /\ y = b.block /\ st = StateOf(b)
                        /\ L = IF y \in DOMAIN states THEN states[y].lanes ELSE {}
    OBVIOUS
  <1>1. StateTypes /\ IsSeq(b.txs)  BY DEF Types, BatchTypes, IsRequest
  <1>2. KeysInv /\ y \in SealedBlocks /\ b.lane \in LaneSet  BY <1>0 DEF FirstRun, KeysInv
  <1>3. Handled(y) \subseteq LaneSet  BY DEF Handled, BatchesOf, FirstRun, KeysInv
  <1>4. b.lane \notin Handled(y)
    <2>1. SUFFICES ASSUME b.lane \in Handled(y) PROVE FALSE  OBVIOUS
    <2>2. PICK c \in batches : c.block = y /\ c.pc # "arrived" /\ c.lane = b.lane
      BY <2>1 DEF Handled, BatchesOf
    <2>3. c = b  BY <1>0, <1>2, <2>2 DEF KeysInv
    <2>4. QED  BY <2>2, <2>3
  <1>5. L \subseteq Handled(y) /\ st.lanes = L \cup {b.lane}
    <2>0. LaneId(b.lane) = b.lane  BY <1>2, LaneIdIsLane
    <2>1. st.lanes = L \cup {b.lane}  BY <1>0, <1>1, <2>0, StateCount
    <2>2. L \subseteq Handled(y)  BY <1>0 DEF StatesFit
    <2>3. QED  BY <2>1, <2>2
  <1>6. ASSUME NEW tx \in Txs
        PROVE  Count(st.txs, tx) = IF tx.amount = 0 THEN 0
                                   ELSE SumFunctionOnSet(LaneCounts(plan[y], tx), st.lanes)
    <2> DEFINE f == LaneCounts(plan[y], tx)
    <2>1. Count(st.txs, tx) = (IF y \in DOMAIN states THEN Count(states[y].txs, tx) ELSE 0)
                                  + (IF tx.amount = 0 THEN 0 ELSE Count(b.txs, tx))
      BY <1>0, <1>1, StateCount
    <2>2. \A l \in LaneSet : f[l] = Count(plan[y][l], tx) /\ f[l] \in Nat
      BY <1>2, CountType DEF LaneCounts, SeqFits, Splits
    <2>3. f[b.lane] = Count(b.txs, tx) /\ f[b.lane] \in Nat
      BY <1>0, <1>2, <2>2 DEF BatchesFit
    <2>4. Countable(f, L)
      <3>1. L \in SUBSET LaneSet  BY <1>3, <1>5
      <3>2. IsFiniteSet(L)  BY <3>1, LanesFinite, FS_Subset
      <3>3. QED  BY <2>2, <3>1, <3>2 DEF Countable
    <2>5. (IF y \in DOMAIN states THEN Count(states[y].txs, tx) ELSE 0)
              = IF tx.amount = 0 THEN 0 ELSE SumFunctionOnSet(f, L)
      <3>1. CASE y \in DOMAIN states
        <4>1. L = states[y].lanes  BY <1>0, <3>1
        <4>2. QED  BY <3>1, <4>1 DEF StatesFit, Collects
      <3>2. CASE y \notin DOMAIN states
        <4>1. L = {}  BY <1>0, <3>2
        <4>2. SumFunctionOnSet(f, L) = 0  BY <4>1, SumEmpty
        <4> HIDE DEF f
        <4>3. QED  BY <3>2, <4>2
      <3>3. QED  BY <3>1, <3>2
    <2> HIDE DEF f
    <2>6. SumFunctionOnSet(f, L \cup {b.lane}) = SumFunctionOnSet(f, L) + f[b.lane]
      <3>1. Summable(f, L) /\ b.lane \notin L /\ f[b.lane] \in Int  BY <1>4, <1>5, <2>3, <2>4, SumNat
      <3>2. QED  BY <3>1, SumAdd
    <2>7. SumFunctionOnSet(f, L) \in Nat  BY <2>4, SumNat
    <2>8. CASE tx.amount = 0  BY <2>1, <2>5, <2>8
    <2>9. CASE tx.amount # 0
      <3>1. Count(st.txs, tx) = SumFunctionOnSet(f, L) + f[b.lane]  BY <2>1, <2>3, <2>5, <2>9
      <3>2. QED  BY <1>5, <2>6, <2>9, <3>1 DEF f
    <2>10. QED  BY <2>8, <2>9
  <1>7. Collects(st, plan[y])  BY <1>6 DEF Collects
  <1>8. QED  BY <1>0, <1>2, <1>3, <1>5, <1>7

\* The aggregator collects what the sequencer has sealed, and sends on whole blocks.
LEMMA HandleBatchFits ==
    ASSUME args \in Setups, OwnIds, Types, FirstRun, NEW b \in batches, HandleBatch(b) PROVE FirstRun'
  <1>0. PICK y, st : y = b.block /\ st = StateOf(b)  OBVIOUS
  <1>1. BatchTypes /\ StateTypes  BY DEF Types
  <1>2. b.pc = "arrived" /\ UNCHANGED <<seq, commits, blocks, sealed>>  BY <1>1, HandleBatchResult
  <1>3. PICK new : /\ batches' = Replace(batches, b, new) /\ new.block = b.block /\ new.lane = b.lane
                   /\ \/ /\ Cardinality(st.lanes) = Lanes /\ new.pc = "forward" /\ new.txs = st.txs
                         /\ states' = [x \in DOMAIN states \ {y} |-> states[x]]
                      \/ new.pc = "done" /\ states' = Put(states, y, st)
    BY <1>0, <1>1, HandleBatchResult
  <1>4. PICK plan : SeqFits(plan) /\ BatchesFit(plan) /\ StatesFit(plan)  BY DEF FirstRun
  <1>5. /\ Collects(st, plan[y]) /\ st.lanes \subseteq Handled(y) \cup {b.lane} /\ st.lanes \subseteq LaneSet
    BY <1>0, <1>2, <1>4, LaneCollected
  <1>6. new.pc # "arrived"  BY <1>3
  <1>7. /\ SealedInv' /\ KeysInv' /\ y \in SealedBlocks
        /\ \A x : Handled(x)' = IF x = b.block THEN Handled(x) \cup {b.lane} ELSE Handled(x)
        /\ SeqFits(plan)'
        /\ (new.pc = "forward" => IsWhole(new.txs, b.block)) => BatchesFit(plan)'
    BY <1>0, <1>2, <1>3, <1>4, <1>6, RequestMovesFits
  <1>8. new.pc = "forward" => IsWhole(new.txs, b.block)
    <2>1. SUFFICES ASSUME new.pc = "forward" PROVE IsWhole(new.txs, b.block)  OBVIOUS
    <2>2. Cardinality(st.lanes) = Lanes /\ new.txs = st.txs  BY <1>3, <2>1
    <2>3. st.lanes = LaneSet
      <3>1. st.lanes \in SUBSET LaneSet  BY <1>5
      <3>2. QED  BY <2>2, <3>1, LanesFinite, FS_Subset
    <2>4. Splits(plan[y], sealed[<<0, y>>])  BY <1>4, <1>7 DEF SeqFits
    <2>5. QED  BY <1>0, <1>5, <2>2, <2>3, <2>4, AllLanesWhole
  <1>9. SealedBlocks' = SealedBlocks /\ \A txs, x : IsWhole(txs, x)' <=> IsWhole(txs, x)
    BY <1>2, SealedKept
  <1>10. StatesFit(plan)'
    <2>1. ASSUME NEW x \in DOMAIN states', x # y
          PROVE  x \in DOMAIN states /\ states'[x] = states[x]
      BY <1>3, <2>1 DEF Put
    <2>2. ASSUME y \in DOMAIN states' PROVE states'[y] = st
      BY <1>3, <2>2 DEF Put
    <2>3. ASSUME NEW x \in DOMAIN states'
          PROVE  /\ x \in SealedBlocks' /\ states'[x].lanes \subseteq Handled(x)'
                 /\ Collects(states'[x], plan[x])
      <3>1. CASE x = y  BY <1>0, <1>5, <1>7, <1>9, <2>2, <3>1
      <3>2. CASE x # y  BY <1>0, <1>4, <1>7, <1>9, <2>1, <3>2 DEF StatesFit
      <3>3. QED  BY <3>1, <3>2
    <2>4. QED  BY <2>3 DEF StatesFit
  <1>11. CommitsFit'  BY <1>2, <1>9 DEF FirstRun, CommitsFit
  <1>12. BlocksFit'
    <2>1. \A x : Certified(x)' = Certified(x)  BY <1>2 DEF Certified
    <2>2. QED  BY <1>2, <1>9, <2>1 DEF FirstRun, BlocksFit
  <1>13. QED  BY <1>7, <1>8, <1>10, <1>11, <1>12 DEF FirstRun

\* A request that has left the critical section is forwarded or answered.
LEMMA ForwardFits ==
    ASSUME Types, FirstRun, NEW b \in batches, Forward(b) \/ Forwarded(b) \/ ForwardFails(b)
    PROVE  FirstRun'
  <1>1. BatchTypes  BY DEF Types
  <1>2. b.pc \in {"forward", "await"} /\ UNCHANGED <<seq, states, blocks, sealed>>
    BY <1>1, ForwardResult, AnswerResult
  <1>3. PICK new : /\ batches' = Replace(batches, b, new) /\ new.block = b.block /\ new.lane = b.lane
                   /\ new.pc \in {"await", "done"}
    BY <1>1, ForwardResult, AnswerResult
  <1>4. \/ commits' = commits
        \/ \E c : commits' = commits \cup {c} /\ b.pc = "forward" /\ c.block = b.block /\ c.txs = b.txs
    BY <1>1, ForwardResult, AnswerResult
  <1>5. PICK plan : SeqFits(plan) /\ BatchesFit(plan) /\ StatesFit(plan)  BY DEF FirstRun
  <1>6. /\ SealedInv' /\ KeysInv' /\ b.block \in SealedBlocks
        /\ \A x : Handled(x)' = IF x = b.block THEN Handled(x) \cup {b.lane} ELSE Handled(x)
        /\ SeqFits(plan)' /\ BatchesFit(plan)'
    BY <1>2, <1>3, <1>5, RequestMovesFits
  <1>7. SealedBlocks' = SealedBlocks /\ \A txs, x : IsWhole(txs, x)' <=> IsWhole(txs, x)
    BY <1>2, SealedKept
  <1>8. StatesFit(plan)'
    <2>1. \A x : Handled(x) \subseteq Handled(x)'  BY <1>6
    <2>2. QED  BY <1>2, <1>5, <1>7, <2>1 DEF StatesFit
  <1>9. CommitsFit'
    <2>1. b.pc = "forward" => IsWhole(b.txs, b.block)  BY <1>5 DEF BatchesFit
    <2>2. QED  BY <1>4, <1>6, <1>7, <2>1 DEF FirstRun, CommitsFit
  <1>10. BlocksFit'
    <2>1. \A x : Certified(x)' = Certified(x)  BY <1>2 DEF Certified
    <2>2. QED  BY <1>2, <1>7, <2>1 DEF FirstRun, BlocksFit
  <1>11. QED  BY <1>6, <1>8, <1>9, <1>10 DEF FirstRun

\* A restarted aggregator does not finish what it had begun.
LEMMA RestartAggregatorFits == ASSUME Types, FirstRun, RestartAggregator PROVE FirstRun'
  <1>1. /\ states' = <<>> /\ batches' = {[b EXCEPT !.pc = "done"] : b \in batches}
        /\ UNCHANGED <<seq, commits, blocks, sealed>>
    BY DEF RestartAggregator, l1vars
  <1>2. ASSUME NEW d \in batches'
        PROVE  /\ d.pc = "done"
               /\ \E b \in batches : d.block = b.block /\ d.lane = b.lane /\ d = [b EXCEPT !.pc = "done"]
    <2>1. IsFiniteSet(batches) /\ \A b \in batches : IsRequest(b)  BY DEF Types, BatchTypes
    <2>2. \A t \in batches' : /\ IsRequest(t) /\ t.pc = "done"
                              /\ \E r \in batches : /\ t.block = r.block /\ t.lane = r.lane
                                                    /\ t = [r EXCEPT !.pc = "done"]
      BY <1>1, <2>1, EndedRequests, Zenon
    <2>3. QED  BY <2>2
  <1>3. SealedBlocks' = SealedBlocks /\ \A txs, x : IsWhole(txs, x)' <=> IsWhole(txs, x)
    BY <1>1, SealedKept
  <1>4. SealedInv'  BY <1>1, <1>3 DEF FirstRun, SealedInv
  <1>5. KeysInv'
    <2>1. KeysInv  BY DEF FirstRun
    <2>2. \A x, l : Posted(x, l)' <=> Posted(x, l)  BY <1>1 DEF Posted, Returned
    <2>3. ASSUME NEW d \in batches', NEW e \in batches', d.block = e.block, d.lane = e.lane PROVE d = e
      <3>1. PICK b \in batches : d.block = b.block /\ d.lane = b.lane /\ d = [b EXCEPT !.pc = "done"]
        BY <1>2
      <3>2. PICK c \in batches : e.block = c.block /\ e.lane = c.lane /\ e = [c EXCEPT !.pc = "done"]
        BY <1>2
      <3>3. b = c  BY <2>1, <2>3, <3>1, <3>2 DEF KeysInv
      <3>4. QED  BY <3>1, <3>2, <3>3
    <2>4. ASSUME NEW d \in batches'
          PROVE  d.lane \in LaneSet /\ d.block \in SealedBlocks /\ Posted(d.block, d.lane)
      <3>1. PICK b \in batches : d.block = b.block /\ d.lane = b.lane  BY <1>2
      <3>2. QED  BY <2>1, <3>1 DEF KeysInv
    <2>5. QED  BY <1>3, <2>2, <2>3, <2>4 DEF KeysInv
  <1>6. CommitsFit'  BY <1>1, <1>3 DEF FirstRun, CommitsFit
  <1>7. BlocksFit'
    <2>1. \A x : Certified(x)' = Certified(x)  BY <1>1 DEF Certified
    <2>2. QED  BY <1>1, <1>3, <2>1 DEF FirstRun, BlocksFit
  <1>8. PICK plan : SeqFits(plan) /\ BatchesFit(plan) /\ StatesFit(plan)  BY DEF FirstRun
  <1>9. SeqFits(plan)'  BY <1>1, <1>3, <1>8 DEF SeqFits
  <1>10. BatchesFit(plan)'  BY <1>2 DEF BatchesFit
  <1>11. StatesFit(plan)'  BY <1>1, EmptyFacts DEF StatesFit
  <1>12. QED  BY <1>4, <1>5, <1>6, <1>7, <1>9, <1>10, <1>11 DEF FirstRun

\* Commits end; what is submitted is whole.
LEMMA CommitsFitKept ==
    ASSUME FirstRun, UNCHANGED <<seq, batches, states, sealed>>,
           \A d \in commits' : \E c \in commits : d.block = c.block /\ (d = c \/ d.pc = "done"),
           blocks' = blocks \/ blocks' = <<>> \/ \E c \in commits : c.pc = "arrived" /\ SubmitToL1(c)
    PROVE  FirstRun'
  <1>1. SealedBlocks' = SealedBlocks /\ \A txs, x : IsWhole(txs, x)' <=> IsWhole(txs, x)  BY SealedKept
  <1>2. SealedInv'  BY <1>1 DEF FirstRun, SealedInv
  <1>3. KeysInv'  BY <1>1 DEF FirstRun, KeysInv, Posted, Returned
  <1>4. CommitsFit'  BY <1>1 DEF FirstRun, CommitsFit
  <1>5. BlocksFit'
    <2>0. BlocksFit /\ CommitsFit  BY DEF FirstRun
    <2>1. CASE blocks' = blocks
      <3>1. \A x : Certified(x)' = Certified(x)  BY <2>1 DEF Certified
      <3>2. QED  BY <1>1, <2>0, <2>1, <3>1 DEF BlocksFit
    <2>2. CASE blocks' = <<>>  BY <2>2, EmptyFacts DEF BlocksFit
    <2>3. ASSUME NEW c \in commits, c.pc = "arrived", SubmitToL1(c) PROVE BlocksFit'
      <3>1. c.block \in SealedBlocks /\ IsWhole(c.txs, c.block)  BY <2>0, <2>3 DEF CommitsFit
      <3>2. ASSUME NEW a, a.commitment[2] = c.txs, blocks' = Put(blocks, c.block, a) PROVE BlocksFit'
        <4>1. /\ DOMAIN blocks' = DOMAIN blocks \cup {c.block} /\ Certified(c.block)' = c.txs
              /\ \A x \in DOMAIN blocks \ {c.block} : Certified(x)' = Certified(x)
          BY <3>2 DEF Put, Certified
        <4>2. QED  BY <1>1, <2>0, <3>1, <4>1 DEF BlocksFit
      <3>3. QED  BY <2>1, <2>3, <3>2, SubmissionResult
    <2>4. QED  BY <2>1, <2>2, <2>3
  <1>6. PICK plan : SeqFits(plan) /\ BatchesFit(plan) /\ StatesFit(plan)  BY DEF FirstRun
  <1>7. SeqFits(plan)'  BY <1>1, <1>6 DEF SeqFits
  <1>8. BatchesFit(plan)'  BY <1>1, <1>6 DEF BatchesFit
  <1>9. StatesFit(plan)'  BY <1>1, <1>6 DEF StatesFit, Handled, BatchesOf
  <1>10. QED  BY <1>2, <1>3, <1>4, <1>5, <1>7, <1>8, <1>9 DEF FirstRun

\* The replayer answers a commit.
LEMMA SubmitFits == ASSUME Types, FirstRun, NEW c \in commits, Submit(c) \/ SubmitFails(c) PROVE FirstRun'
  <1>1. CommitTypes  BY DEF Types
  <1>2. /\ c.pc = "arrived" /\ UNCHANGED <<seq, batches, states, sealed>>
        /\ SubmitToL1(c) \/ blocks' = blocks
    BY <1>1, SubmitResult
  <1>3. PICK new : commits' = Replace(commits, c, new) /\ new.pc = "done" /\ new.block = c.block
    BY <1>1, SubmitResult
  <1>4. \A d \in commits' : \E e \in commits : d.block = e.block /\ (d = e \/ d.pc = "done")
    BY <1>3 DEF Replace
  <1>5. QED  BY <1>2, <1>4, CommitsFitKept

\* The replayer ends.
LEMMA ReplayerEndsFits ==
    ASSUME Types, FirstRun, NEW up, ReplayerEnds(up), UNCHANGED <<seq, batches, states, sealed>>
    PROVE  FirstRun'
  <1>1. commits' = {[c EXCEPT !.pc = "done"] : c \in commits}  BY DEF ReplayerEnds
  <1>2. \A d \in commits' : \E c \in commits : d.block = c.block /\ (d = c \/ d.pc = "done")
    <2>1. IsFiniteSet(commits) /\ \A c \in commits : IsRequest(c)  BY DEF Types, CommitTypes
    <2>2. \A t \in commits' : /\ IsRequest(t) /\ t.pc = "done"
                              /\ \E r \in commits : /\ t.block = r.block /\ t.lane = r.lane
                                                    /\ t = [r EXCEPT !.pc = "done"]
      BY <1>1, <2>1, EndedRequests, Zenon
    <2>3. QED  BY <2>2
  <1>3. blocks' = blocks \/ \E c \in commits : c.pc = "arrived" /\ SubmitToL1(c)
    BY DEF ReplayerEnds, l1vars
  <1>4. QED  BY <1>2, <1>3, CommitsFitKept

-----------------------------------------------------------------------------
(* The theorem *)

WholeInv == WideInv /\ (OwnIds /\ seq.run = 0 => FirstRun)

\* Nothing is sealed at first.
LEMMA WholeStarts == Init => WholeInv
  <1> SUFFICES ASSUME Init PROVE WholeInv  OBVIOUS
  <1>1. /\ seq = NewSequencer(0) /\ batches = {} /\ commits = {} /\ states = <<>>
        /\ blocks = <<>> /\ sealed = <<>>
    BY DEF Init, L1!Init
  <1>2. seq.pc = "select"  BY <1>1 DEF NewSequencer
  <1>3. SealedBlocks = {} /\ DOMAIN states = {} /\ DOMAIN blocks = {}
    BY <1>1, EmptyFacts DEF SealedBlocks
  <1>4. SealedInv /\ KeysInv /\ CommitsFit /\ BlocksFit
    BY <1>1, <1>2, <1>3 DEF SealedInv, KeysInv, CommitsFit, BlocksFit
  <1>5. \E plan : SeqFits(plan) /\ BatchesFit(plan) /\ StatesFit(plan)
    BY <1>1, <1>2, <1>3 DEF SeqFits, BatchesFit, StatesFit
  <1>6. QED  BY <1>4, <1>5, WideStarts DEF WholeInv, FirstRun

\* Every step of the first run keeps to the plan.
LEMMA FirstRunStep ==
    ASSUME args \in Setups, OwnIds, Types, seq.run = 0, FirstRun, [Next]_vars, seq'.run = 0
    PROVE  FirstRun'
  <1>0. SeqTypes  BY DEF Types
  <1>1. CASE Sequencer
    <2>1. CASE WriteTx \/ Receive
      <3>1. UNCHANGED <<batches, states, commits, blocks, sealed>>
        BY <2>1 DEF WriteTx, Receive, l1vars
      <3>2. /\ seq'.pc = seq.pc /\ seq'.lane = seq.lane /\ seq'.laned = seq.laned
            /\ seq'.currentBlock = seq.currentBlock
        BY <1>0, <2>1 DEF WriteTx, Receive, SeqTypes
      <3>3. QED  BY <3>1, <3>2, FirstRunKept
    <2>2. CASE Post  BY <2>2, PostFits
    <2>3. CASE Answered
      <3>1. PICK failed : seq' = NextLane(failed)  BY <2>3 DEF Answered
      <3>2. seq.pc # "select" /\ UNCHANGED <<txCh, batches, states, commits, blocks, sealed>>
        BY <2>3 DEF Answered, l1vars
      <3>3. QED  BY <3>1, <3>2, LaneReturnsFits
    <2>4. QED  BY <1>1, <2>1, <2>2, <2>3 DEF Sequencer
  <1>2. CASE Seal  BY <1>2, SealFits
  <1>3. CASE PostFails
    <2>1. PICK failed : seq' = NextLane(failed)  BY <1>3 DEF PostFails
    <2>2. seq.pc # "select" /\ UNCHANGED <<txCh, batches, states, commits, blocks, sealed>>
      BY <1>3 DEF PostFails, l1vars
    <2>3. QED  BY <2>1, <2>2, LaneReturnsFits
  <1>4. CASE Handlers
    <2>1. ASSUME NEW b \in batches, HandleBatch(b) \/ Forward(b) \/ Forwarded(b) PROVE FirstRun'
      BY <2>1, HandleBatchFits, ForwardFits
    <2>2. ASSUME NEW c \in commits, Submit(c) PROVE FirstRun'  BY <2>2, SubmitFits
    <2>3. QED  BY <1>4, <2>1, <2>2 DEF Handlers
  <1>5. ASSUME NEW b \in batches, ForwardFails(b) PROVE FirstRun'  BY <1>5, ForwardFits
  <1>6. ASSUME NEW c \in commits, SubmitFails(c) PROVE FirstRun'  BY <1>6, SubmitFits
  <1>7. CASE BookRace \/ RestartReplayer
    <2>1. PICK up : ReplayerEnds(up)  BY <1>7 DEF BookRace, RestartReplayer
    <2>2. UNCHANGED <<seq, batches, states, sealed>>  BY <1>7 DEF BookRace, RestartReplayer
    <2>3. QED  BY <2>1, <2>2, ReplayerEndsFits
  <1>8. CASE StreamBreaks \/ ReplayerComesBack \/ UNCHANGED vars
    <2>1. UNCHANGED <<seq, batches, states, commits, blocks, sealed>>
      BY <1>8 DEF StreamBreaks, ReplayerComesBack, vars, l1vars
    <2>2. QED  BY <2>1, FirstRunKept
  <1>9. CASE RestartSequencer
    <2>1. seq'.run = seq.run + 1  BY <1>9 DEF RestartSequencer, NewSequencer
    <2>2. QED  BY <2>1
  <1>10. CASE RestartAggregator  BY <1>10, RestartAggregatorFits
  <1>11. CASE RestartL1
    <2>1. /\ blocks' = <<>> /\ UNCHANGED <<seq, batches, states, sealed>>
          /\ \A d \in commits' : \E c \in commits : d.block = c.block /\ (d = c \/ d.pc = "done")
      BY <1>11, RestartL1Result DEF Types
    <2>2. QED  BY <2>1, CommitsFitKept
  <1>12. QED
    BY <1>1, <1>2, <1>3, <1>4, <1>5, <1>6, <1>7, <1>8, <1>9, <1>10, <1>11 DEF Next

\* Once the sequencer was restarted it stays so.
LEMMA RunsOnlyGrow == ASSUME SeqTypes, [Next]_vars, seq'.run = 0 PROVE seq.run = 0
  <1>0. DOMAIN seq = {"run", "pc", "buffer", "rr", "currentBlock", "laned", "lane", "failed"} /\ seq.run \in Nat
    BY DEF SeqTypes
  <1>1. CASE seq' = seq  BY <1>1
  <1>2. CASE RestartSequencer
    <2>1. seq'.run = seq.run + 1  BY <1>2 DEF RestartSequencer, NewSequencer
    <2>2. QED  BY <1>0, <2>1
  <1>3. CASE Receive \/ Seal \/ Post \/ Answered \/ PostFails
    <2>1. seq'.run = seq.run  BY <1>0, <1>3 DEF Receive, Seal, Post, Answered, PostFails, NextLane
    <2>2. QED  BY <2>1
  <1>4. QED
    BY <1>1, <1>2, <1>3 DEF Next, Sequencer, Handlers, WriteTx, HandleBatch, Forward, Forwarded, ForwardFails,
       Submit, SubmitFails, StreamBreaks, BookRace, ReplayerComesBack, RestartAggregator, RestartReplayer,
       RestartL1, vars

\* Every step keeps the invariant.
LEMMA WholeKept == WholeInv /\ [Next]_vars => WholeInv'
  <1> SUFFICES ASSUME WholeInv, [Next]_vars PROVE WholeInv'  OBVIOUS
  <1>1. WideInv /\ Types /\ SeqTypes /\ args \in Setups /\ args' = args
    BY SetupKept DEF WholeInv, WideInv, Counted, Types
  <1>2. WideInv'  BY <1>1, WideKept
  <1>3. ASSUME OwnIds, seq'.run = 0 PROVE FirstRun'
    <2>1. seq.run = 0  BY <1>1, <1>3, RunsOnlyGrow
    <2>2. FirstRun  BY <1>3, <2>1 DEF WholeInv
    <2>3. QED  BY <1>1, <1>3, <2>1, <2>2, FirstRunStep
  <1>4. QED  BY <1>1, <1>2, <1>3 DEF WholeInv, OwnIds

(***************************************************************************)
(* What the l1-cert-node has certified in the sequencer's first run is a   *)
(* sealed block with all its valid transactions, each as often as it was   *)
(* sealed: for any stream, lanes and channel, whatever connections break   *)
(* and however often the aggregator, the replayer and the L1 node are      *)
(* restarted, in any order.  (With more lanes than lane ids nothing is     *)
(* certified.)                                                             *)
(***************************************************************************)
THEOREM CertifiedIsWhole == Spec => []CertifiedWhole
  <1>1. ASSUME WholeInv PROVE CertifiedWhole
    <2>1. CASE OwnIds
      <3>1. SUFFICES ASSUME seq.run = 0, BlocksFit PROVE CertifiedWhole
        BY <1>1, <2>1 DEF WholeInv, FirstRun, CertifiedWhole
      <3>2. QED  BY <3>1 DEF BlocksFit, CertifiedWhole, SealedBlocks, IsWhole
    <2>2. CASE ~OwnIds
      <3>1. DOMAIN blocks = {}  BY <1>1, <2>2, EmptyFacts DEF WholeInv, WideInv, Wide
      <3>2. QED  BY <3>1 DEF CertifiedWhole
    <2>3. QED  BY <2>1, <2>2
  <1>2. QED  BY <1>1, WholeStarts, WholeKept, PTL DEF Spec
=============================================================================
