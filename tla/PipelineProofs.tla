--------------------------- MODULE PipelineProofs ---------------------------
(***************************************************************************)
(* Proofs about the pipeline for every configuration, any number of        *)
(* blocks, lanes and lane ids, and cancellation at any moment.             *)
(*                                                                         *)
(* The argument: the lane batches of a run have a fixed order, Batch(0),   *)
(* Batch(1), ...; whatever has not been given up by a goroutine that left  *)
(* is a contiguous stretch of it, cut at the places where the goroutines   *)
(* stand.                                                                  *)
(***************************************************************************)
EXTENDS Pipeline, SumTheorems

-----------------------------------------------------------------------------
(* The inductive invariant *)

IsSeq(q) == \E S : q \in Seq(S)

Alive(goroutine) == goroutine.pc \notin {"exit", "exited"}

RunnerInv == ConfigTyped(cfg) /\ Validate(cfg) /\ cfg.proofSeed = ProofSeed

\* Ingress counts its blocks, unless it was cancelled in the warm-up.
OnSchedule == ingress.next = (IF ingress.phase = "warmup" THEN PhaseBlocks(cfg, cfg.warmup)
                              ELSE TotalBlocks(cfg)) - ingress.left

IngressInv ==
    /\ ingress \in [pc : {"check", "enqueue", "retry", "store", "wait", "returned"},
                    phase : {"warmup", "certification"}, left : Nat, next : Nat]
    /\ ingress.next <= TotalBlocks(cfg)
    /\ ingress.phase = "certification" => ingress.left <= PhaseBlocks(cfg, cfg.certification)
    /\ ingress.pc \in {"enqueue", "retry"} => ingress.left > 0 /\ OnSchedule
    /\ ingress.pc = "check" => ctxDone \/ OnSchedule

\* The job of block b, and the jobs the sequencer has taken.
Job(b) == [phase |-> PhaseOf(cfg, b), block |-> b, txs |-> TxsOf(cfg, b)]

Sequenced == ingress.next - Len(ingressQ)

SequencerInv ==
    /\ IsSeq(ingressQ) /\ Sequenced \in Nat
    /\ \A i \in DOMAIN ingressQ : ingressQ[i] = Job(Sequenced + i - 1)
    /\ sequencer = [pc |-> sequencer.pc, job |-> sequencer.job, lane |-> sequencer.lane]
    /\ sequencer.pc \in {"check", "dequeue", "loadDone", "enqueue", "retry", "exit", "exited"}
    /\ sequencer.pc \in {"enqueue", "retry"} => /\ Sequenced > 0
                                                /\ sequencer.job = Job(Sequenced - 1)
                                                /\ sequencer.lane \in 0..(cfg.lanes - 1)

\* The n-th lane batch of the run, from 0.
Batch(n) == LET b == n \div cfg.lanes IN
            [phase |-> PhaseOf(cfg, b), block |-> b, lane |-> (n % cfg.lanes) % LaneIds,
             payload |-> LaneOf(TxsOf(cfg, b), n % cfg.lanes)]

\* The number of lane batches the sequencer has produced, while it is at work.
Produced == IF sequencer.pc \in {"enqueue", "retry"}
            THEN (Sequenced - 1) * cfg.lanes + sequencer.lane
            ELSE Sequenced * cfg.lanes

\* A commit of block b that has all its transactions.
CommitOK(c, b) == /\ c # <<>>
                  /\ c.block = b /\ c.phase = PhaseOf(cfg, b)
                  /\ c.commitment = <<b, c.txs>> /\ c.txCount = Len(c.txs)
                  /\ IsSeq(c.txs)
                  /\ Len(c.txs) = Len(TxsOf(cfg, b)) /\ Range(c.txs) = Range(TxsOf(cfg, b))

\* The indexes (from 0) of the transactions of block b in its first k lanes.
InLanes(b, k) == {i \in 0..(Len(TxsOf(cfg, b)) - 1) : i % cfg.lanes < k}

\* The aggregateState of block b with its first k lanes.
PartialOK(st, b, k) ==
    /\ st \in [phase : {PhaseOf(cfg, b)}, lanes : {0..(k - 1)}, txs : {st.txs}]
    /\ IsSeq(st.txs)
    /\ Len(st.txs) = Cardinality(InLanes(b, k))
    /\ Range(st.txs) = {TxsOf(cfg, b)[i + 1] : i \in InLanes(b, k)}

Held == IF replayer.pc = "submit" THEN 1 ELSE 0

\* The number of blocks that have left the aggregator.
Committed == Len(blockLog) + Held + Len(commitQ)

\* The aggregator has taken n lane batches.  With more lanes than ids no block
\* is ever complete.
AggregatorAt(n) ==
    IF LanesFit
    THEN IF aggregator.pc \in {"enqueue", "retry"}
         THEN /\ CommitOK(aggregator.commit, Committed)
              /\ n = (Committed + 1) * cfg.lanes
              /\ DOMAIN states = {Committed}
         ELSE /\ aggregator.commit = <<>>
              /\ n \div cfg.lanes = Committed
              /\ DOMAIN states = IF n % cfg.lanes = 0 THEN {} ELSE {Committed}
              /\ n % cfg.lanes # 0 => PartialOK(states[Committed], Committed, n % cfg.lanes)
    ELSE /\ aggregator.pc \notin {"enqueue", "retry"}
         /\ DOMAIN states = {k \div cfg.lanes : k \in 0..(n - 1)}
         /\ \A b \in DOMAIN states :
               states[b] \in [phase : {states[b].phase}, lanes : SUBSET (0..(LaneIds - 1)),
                              txs : {states[b].txs}]

LanesAt(n) == /\ \A i \in DOMAIN laneQ : laneQ[i] = Batch(n + i - 1)
              /\ n + Len(laneQ) <= TotalBlocks(cfg) * cfg.lanes
              /\ Alive(sequencer) => n + Len(laneQ) = Produced

AggregatorInv ==
    /\ IsSeq(laneQ)
    /\ aggregator = [pc |-> aggregator.pc, commit |-> aggregator.commit]
    /\ aggregator.pc \in {"check", "dequeue", "loadDone", "enqueue", "retry", "exit", "exited"}
    /\ Alive(aggregator) => \E n \in Nat : LanesAt(n) /\ AggregatorAt(n)

LogOK(i) == LET e == blockLog[i] IN
            /\ e.block = i - 1 /\ e.phase = PhaseOf(cfg, i - 1)
            /\ e.txCount = Len(TxsOf(cfg, i - 1))
            /\ Range(e.commitment[2]) = Range(TxsOf(cfg, i - 1))
            /\ e.finalized = ~Spoilt(runner, i - 1)
            /\ e.proofVerified = ~Spoilt(runner, i - 1)
            /\ e.duplicate = FALSE

ReplayerInv ==
    /\ IsSeq(commitQ) /\ IsSeq(blockLog)
    /\ Committed <= TotalBlocks(cfg)
    /\ \A i \in DOMAIN blockLog : LogOK(i)
    /\ DOMAIN blocks = {b \in 0..(Len(blockLog) - 1) : ~Spoilt(runner, b)}
    /\ replayer.pc \in {"check", "dequeue", "loadDone", "submit", "exited"}
    /\ replayer = [pc |-> replayer.pc, commit |-> replayer.commit]
    /\ replayer.pc = "submit" => CommitOK(replayer.commit, Len(blockLog))
    /\ \A i \in DOMAIN commitQ : CommitOK(commitQ[i], Len(blockLog) + Held + i - 1)

\* Nothing moves after the report.
ReportInv ==
    IF report.built
    THEN /\ ingress.pc = "returned" /\ replayer.pc = "exited"
         /\ sequencer.pc = "exited" /\ aggregator.pc = "exited"
    ELSE report = NoReport

IInv == RunnerInv /\ IngressInv /\ SequencerInv /\ AggregatorInv /\ ReplayerInv /\ ReportInv
-----------------------------------------------------------------------------
(* Sequences and numbers *)

\* What a send does to a queue.
LEMMA AppendFacts ==
    ASSUME NEW q, IsSeq(q), NEW x
    PROVE  /\ IsSeq(Append(q, x)) /\ Len(q) \in Nat /\ Len(Append(q, x)) = Len(q) + 1
           /\ DOMAIN q = 1..Len(q) /\ DOMAIN Append(q, x) = 1..(Len(q) + 1)
           /\ \A i \in 1..Len(q) : Append(q, x)[i] = q[i]
           /\ Append(q, x)[Len(q) + 1] = x
  <1>1. PICK S : q \in Seq(S)  BY DEF IsSeq
  <1>2. q \in Seq(S \cup {x})  BY <1>1
  <1>3. Append(q, x) \in Seq(S \cup {x})  BY <1>2
  <1>4. QED  BY <1>2, <1>3 DEF IsSeq

\* What a receive does to a queue.
LEMMA TailFacts ==
    ASSUME NEW q, IsSeq(q), q # <<>>
    PROVE  /\ IsSeq(Tail(q)) /\ Len(q) \in Nat \ {0} /\ Len(Tail(q)) = Len(q) - 1
           /\ DOMAIN q = 1..Len(q) /\ DOMAIN Tail(q) = 1..(Len(q) - 1)
           /\ \A i \in 1..(Len(q) - 1) : Tail(q)[i] = q[i + 1]
           /\ Head(q) = q[1]
  <1>1. PICK S : q \in Seq(S)  BY DEF IsSeq
  <1>2. Tail(q) \in Seq(S)  BY <1>1
  <1>3. QED  BY <1>1, <1>2 DEF IsSeq

\* The indices of a sequence.
LEMMA SeqFacts ==
    ASSUME NEW q, IsSeq(q) PROVE Len(q) \in Nat /\ DOMAIN q = 1..Len(q) /\ (q = <<>> <=> Len(q) = 0)
  BY DEF IsSeq

\* Quotient and remainder of a natural number.
LEMMA Division ==
    ASSUME NEW n \in Nat, NEW d \in Nat \ {0}
    PROVE  n \div d \in Nat /\ n % d \in 0..(d - 1) /\ n = (n \div d) * d + (n % d)
  <1>1. n \div d \in Nat /\ n % d \in 0..(d - 1)  OBVIOUS
  <1>2. n = (n \div d) * d + (n % d)  OBVIOUS
  <1>3. QED  BY <1>1, <1>2

\* A remainder is less than its divisor.
LEMMA Remainder ==
    ASSUME NEW n \in Nat, NEW d \in Nat \ {0} PROVE n % d \in Nat /\ n % d >= 0 /\ n % d < d
  OBVIOUS

\* Place n is in row b, at r.
PlaceIs(n, d, b, r) == b \in Nat /\ r \in 0..(d - 1) /\ n = b * d + r

\* Block and lane of the place b * d + r, computed back.
LEMMA Divided ==
    ASSUME NEW d \in Nat \ {0}, NEW n, NEW b, NEW r, PlaceIs(n, d, b, r)
    PROVE  n \in Nat /\ n \div d = b /\ n % d = r
  <1> DEFINE q == n \div d
             s == n % d
  <1>1. b \in Nat /\ r \in 0..(d - 1) /\ n = b * d + r  BY DEF PlaceIs
  <1>2. b * d \in Nat  BY <1>1
  <1>3. n \in Nat  BY <1>1, <1>2
  <1>4. q \in Nat /\ s \in 0..(d - 1) /\ n = q * d + s  BY <1>3, Division
  <1> HIDE DEF q, s
  <1>5. ASSUME NEW x \in Nat, NEW y \in Nat, x > y PROVE x * d >= y * d + d
    <2>1. PICK z \in Nat : x = y + 1 + z
      <3>1. x - y - 1 \in Nat /\ x = y + 1 + (x - y - 1)  BY <1>5
      <3>2. QED  BY <3>1
    <2>2. x * d = y * d + d + z * d /\ z * d \in Nat /\ y * d \in Nat  BY <2>1
    <2>3. QED  BY <2>2
  <1>6. ~(q > b) /\ ~(b > q)
    <2>1. q * d \in Nat  BY <1>4
    <2>2. ASSUME q > b PROVE FALSE
      <3>1. q * d >= b * d + d  BY <1>1, <1>4, <1>5, <2>2
      <3>2. QED  BY <1>1, <1>2, <1>4, <2>1, <3>1
    <2>3. ASSUME b > q PROVE FALSE
      <3>1. b * d >= q * d + d  BY <1>1, <1>4, <1>5, <2>3
      <3>2. QED  BY <1>1, <1>2, <1>4, <2>1, <3>1
    <2>4. QED  BY <2>2, <2>3
  <1>7. q = b  BY <1>1, <1>4, <1>6
  <1>8. s = r  BY <1>1, <1>2, <1>4, <1>7
  <1>9. QED  BY <1>3, <1>7, <1>8 DEF q, s

\* One further, in the same row or at the start of the next.
LEMMA NextOver ==
    ASSUME NEW n \in Nat, NEW d \in Nat \ {0}
    PROVE  /\ (n % d) + 1 < d => (n + 1) \div d = n \div d /\ (n + 1) % d = (n % d) + 1
           /\ (n % d) + 1 = d => /\ (n + 1) \div d = (n \div d) + 1 /\ (n + 1) % d = 0
                               /\ n + 1 = ((n \div d) + 1) * d
  <1> DEFINE b == n \div d
             r == n % d
  <1>1. b \in Nat /\ r \in 0..(d - 1) /\ n = b * d + r  BY Division
  <1> HIDE DEF b, r
  <1>2. ASSUME r + 1 < d PROVE (n + 1) \div d = b /\ (n + 1) % d = r + 1
    <2>1. PlaceIs(n + 1, d, b, r + 1)  BY <1>1, <1>2 DEF PlaceIs
    <2>2. QED  BY <2>1, Divided
  <1>3. ASSUME r + 1 = d PROVE (n + 1) \div d = b + 1 /\ (n + 1) % d = 0 /\ n + 1 = (b + 1) * d
    <2>1. n + 1 = b * d + d  BY <1>1, <1>3
    <2>2. b * d + d = (b + 1) * d /\ (b + 1) * d \in Nat  BY <1>1
    <2>3. PlaceIs(n + 1, d, b + 1, 0)  BY <1>1, <2>1, <2>2 DEF PlaceIs
    <2>4. QED  BY <2>1, <2>2, <2>3, Divided
  <1>4. QED  BY <1>2, <1>3 DEF b, r

-----------------------------------------------------------------------------
(* What a validated configuration gives *)

\* What Validate says of the numbers of a configuration.
LEMMA Numbers ==
    ASSUME NEW c, ConfigTyped(c), Validate(c)
    PROVE  /\ c.lanes \in Nat \ {0} /\ c.blockTimeMillis \in Nat \ {0}
           /\ c.warmup.tps \in Nat /\ c.warmup.seconds \in Nat
           /\ c.certification.tps \in Nat \ {0} /\ c.certification.seconds \in Nat \ {0}
           /\ PhaseBlocks(c, c.warmup) \in Nat
           /\ PhaseBlocks(c, c.certification) \in Nat
           /\ TotalBlocks(c) \in Nat
           /\ TxPerBlock(c, c.warmup.tps) \in Nat
           /\ TxPerBlock(c, c.certification.tps) \in Nat
  <1>1. /\ c.lanes \in Nat \ {0} /\ c.blockTimeMillis \in Nat \ {0}
        /\ c.warmup.tps \in Nat /\ c.warmup.seconds \in Nat
        /\ c.certification.tps \in Nat \ {0} /\ c.certification.seconds \in Nat \ {0}
    BY DEF ConfigTyped, Rates, Validate
  <1>2. ASSUME NEW p, p.seconds \in Nat PROVE PhaseBlocks(c, p) \in Nat
    <2>1. p.seconds * 1000 \in Nat  BY <1>2
    <2>2. PICK ms, d : ms = p.seconds * 1000 /\ d = c.blockTimeMillis  OBVIOUS
    <2>3. ms \in Nat /\ d \in Nat \ {0}  BY <1>1, <2>1, <2>2
    <2>4. ms \div d \in Nat  BY <2>3
    <2>5. (p.seconds * 1000) \div c.blockTimeMillis \in Nat  BY <2>2, <2>4
    <2>6. QED  BY <2>5 DEF PhaseBlocks, BlocksForPhase
  <1>3. ASSUME NEW tps \in Nat PROVE TxPerBlock(c, tps) \in Nat
    <2> DEFINE x == tps * c.blockTimeMillis
    <2>1. x \in Nat  BY <1>1, <1>3
    <2>2. ASSUME <<tps, c.blockTimeMillis>> \in FloatBelow PROVE x > 0 /\ x % 1000 = 0
      BY <2>2, FloatAssumption
    <2> HIDE DEF x
    <2>3. x \div 1000 \in Nat  BY <2>1
    <2>4. ASSUME x > 0, x % 1000 = 0 PROVE x \div 1000 >= 1  BY <2>1, <2>4
    <2>5. TxPerBlock(c, tps) = IF <<tps, c.blockTimeMillis>> \in FloatBelow
                               THEN x \div 1000 - 1 ELSE x \div 1000
      BY DEF TxPerBlock, x
    <2>6. CASE <<tps, c.blockTimeMillis>> \in FloatBelow
      <3>1. x \div 1000 >= 1  BY <2>2, <2>4, <2>6
      <3>2. QED  BY <2>3, <2>5, <2>6, <3>1
    <2>7. CASE <<tps, c.blockTimeMillis>> \notin FloatBelow  BY <2>3, <2>5, <2>7
    <2>8. QED  BY <2>6, <2>7
  <1>4. PhaseBlocks(c, c.warmup) \in Nat /\ PhaseBlocks(c, c.certification) \in Nat
    BY <1>1, <1>2
  <1>5. TotalBlocks(c) \in Nat  BY <1>4 DEF TotalBlocks
  <1>6. QED  BY <1>1, <1>3, <1>4, <1>5

\* The transactions of a block are a sequence of valid ones.
LEMMA BlockTxs ==
    ASSUME NEW c, ConfigTyped(c), Validate(c), NEW b
    PROVE  /\ IsSeq(TxsOf(c, b)) /\ Len(TxsOf(c, b)) \in Nat
           /\ DOMAIN TxsOf(c, b) = 1..Len(TxsOf(c, b))
           /\ \A i \in DOMAIN TxsOf(c, b) : TxsOf(c, b)[i].amount \in Nat \ {0}
           /\ PhaseOf(c, b) = "certification"
                  => Len(TxsOf(c, b)) = TxPerBlock(c, c.certification.tps)
  <1> DEFINE n == TxPerBlock(c, IF PhaseOf(c, b) = "warmup" THEN c.warmup.tps ELSE c.certification.tps)
  <1>1. n \in Nat  BY Numbers
  <1>2. PhaseOf(c, b) = "certification" => n = TxPerBlock(c, c.certification.tps)  OBVIOUS
  <1>3. TxsOf(c, b) = [i \in 1..n |-> SyntheticTx(b, i)]  BY DEF TxsOf, GenerateSyntheticTxs
  <1> HIDE DEF n
  <1>4. TxsOf(c, b) \in Seq({SyntheticTx(b, i) : i \in 1..n})  BY <1>1, <1>3
  <1>5. Len(TxsOf(c, b)) = n /\ DOMAIN TxsOf(c, b) = 1..n  BY <1>1, <1>3
  <1>6. \A i \in 1..n : TxsOf(c, b)[i].amount = i  BY <1>3 DEF SyntheticTx
  <1>7. QED  BY <1>1, <1>2, <1>4, <1>5, <1>6 DEF IsSeq

-----------------------------------------------------------------------------
(* The lanes of a block *)

\* A later row starts after an earlier one has ended.
LEMMA MoreRows ==
    ASSUME NEW d \in Nat \ {0}, NEW x \in Nat, NEW y \in Nat, x > y PROVE x * d >= y * d + d
  <1>1. PICK z \in Nat : x = y + 1 + z
    <2>1. x - y - 1 \in Nat /\ x = y + 1 + (x - y - 1)  OBVIOUS
    <2>2. QED  BY <2>1
  <1>2. x * d = y * d + d + z * d /\ z * d \in Nat /\ y * d \in Nat  BY <1>1
  <1>3. QED  BY <1>2

\* The places below n in column r, from the first row down, are as many as there
\* are rows that reach column r.
Column(n, d, r) == {i \in 0..(n - 1) : i % d = r}

\* The transactions of a lane are every d-th, without gaps.
LEMMA ColumnFacts ==
    ASSUME NEW n \in Nat, NEW d \in Nat \ {0}, NEW r \in 0..(d - 1)
    PROVE  /\ IsFiniteSet(Column(n, d, r)) /\ Cardinality(Column(n, d, r)) \in Nat
           /\ \A k \in 1..Cardinality(Column(n, d, r)) : (k - 1) * d + r \in Column(n, d, r)
           /\ \A i \in Column(n, d, r) : \E k \in 1..Cardinality(Column(n, d, r)) :
                  i = (k - 1) * d + r
  <1> DEFINE own == Column(n, d, r)
             z == n - 1 - r
             m == IF r < n THEN (z \div d) + 1 ELSE 0
             f == [k \in 1..m |-> (k - 1) * d + r]
  <1>1. ASSUME r < n
        PROVE  z \in Nat /\ z \div d \in Nat /\ z % d \in 0..(d - 1) /\ z = (z \div d) * d + (z % d)
    <2>1. z \in Nat  BY <1>1
    <2> HIDE DEF z
    <2>2. QED  BY <2>1, Division
  <1>2. m \in Nat  BY <1>1
  <1>3. ASSUME NEW k \in 1..m PROVE (k - 1) * d + r \in own
    <2> DEFINE i == (k - 1) * d + r
    <2>1. k - 1 \in Nat /\ r < n  BY <1>2, <1>3
    <2>2. PlaceIs(i, d, k - 1, r)  BY <2>1 DEF PlaceIs
    <2>3. i \in Nat /\ i % d = r
      <3> HIDE DEF i
      <3>1. QED  BY <2>2, Divided
    <2>4. (k - 1) * d <= z
      <3> DEFINE q == z \div d
      <3>1. q \in Nat /\ q * d \in Nat /\ q * d <= z /\ k - 1 <= q /\ m = q + 1
        <4>1. q \in Nat /\ m = q + 1  BY <1>1, <2>1
        <4>2. k - 1 <= q  BY <1>3, <4>1
        <4>3. z \in Nat /\ z % d \in Nat /\ z = q * d + (z % d)  BY <1>1, <2>1
        <4> HIDE DEF q, z
        <4>4. q * d \in Nat  BY <4>1
        <4>5. QED  BY <4>1, <4>2, <4>3, <4>4
      <3> HIDE DEF q
      <3>2. CASE k - 1 = q  BY <3>1, <3>2
      <3>3. CASE k - 1 < q
        <4>1. q * d >= (k - 1) * d + d  BY <2>1, <3>1, <3>3, MoreRows
        <4>2. (k - 1) * d \in Nat /\ z \in Nat  BY <1>1, <2>1
        <4> HIDE DEF z
        <4>3. QED  BY <3>1, <4>1, <4>2
      <3>4. QED  BY <2>1, <3>1, <3>2, <3>3
    <2>5. (k - 1) * d \in Nat  BY <2>1
    <2>6. i \in 0..(n - 1)  BY <2>1, <2>4, <2>5
    <2>7. QED  BY <2>3, <2>6 DEF Column
  <1>4. ASSUME NEW i \in own PROVE \E k \in 1..m : i = (k - 1) * d + r
    <2> DEFINE k == (i \div d) + 1
    <2>1. i \in Nat /\ i <= n - 1 /\ i % d = r  BY DEF Column
    <2>2. i \div d \in Nat /\ i = (i \div d) * d + r  BY <2>1, Division
    <2>3. (i \div d) * d \in Nat  BY <2>2
    <2>4. r < n /\ (i \div d) * d <= z  BY <2>1, <2>2, <2>3
    <2>5. i \div d <= z \div d
      <3> DEFINE q == z \div d
                 p == i \div d
      <3>1. /\ q \in Nat /\ p \in Nat /\ z \in Nat /\ p * d <= z
            /\ z % d \in 0..(d - 1) /\ z = q * d + (z % d)
        BY <1>1, <2>2, <2>4
      <3> HIDE DEF q, p, z
      <3>2. SUFFICES ASSUME p > q PROVE FALSE  BY <3>1 DEF q, p, z
      <3>3. p * d >= q * d + d  BY <3>1, <3>2, MoreRows
      <3>4. p * d \in Nat /\ q * d \in Nat  BY <3>1
      <3>5. QED  BY <3>1, <3>3, <3>4
    <2>6. z \div d \in Nat /\ m = (z \div d) + 1  BY <1>1, <2>4
    <2>7. k \in 1..m /\ k - 1 = i \div d  BY <2>2, <2>5, <2>6
    <2>8. i = (k - 1) * d + r  BY <2>2, <2>7
    <2>9. QED  BY <2>7, <2>8
  <1>5. f \in Bijection(1..m, own)
    <2>1. f \in [1..m -> own]  BY <1>3
    <2>2. ASSUME NEW k \in 1..m, NEW j \in 1..m, f[k] = f[j] PROVE k = j
      <3>1. k - 1 \in Nat /\ j - 1 \in Nat  BY <1>2
      <3>2. PlaceIs(f[k], d, k - 1, r) /\ PlaceIs(f[j], d, j - 1, r)  BY <3>1 DEF PlaceIs
      <3>3. f[k] \div d = k - 1 /\ f[j] \div d = j - 1
        <4> HIDE DEF f
        <4>1. QED  BY <3>2, Divided
      <3>4. QED  BY <1>2, <2>2, <3>3
    <2>3. \A i \in own : \E k \in 1..m : f[k] = i  BY <1>4
    <2> HIDE DEF f, own, m
    <2>4. QED  BY <2>1, <2>2, <2>3 DEF Bijection, Injection, Surjection, IsInjective
  <1>6. IsFiniteSet(own) /\ Cardinality(own) = m
    <2> HIDE DEF f, own, m
    <2>1. IsFiniteSet(1..m) /\ Cardinality(1..m) = m  BY <1>2, FS_Interval
    <2>2. ExistsBijection(1..m, own)  BY <1>5 DEF ExistsBijection
    <2>3. QED  BY <2>1, <2>2, FS_Bijection
  <1> HIDE DEF m, own, f
  <1>7. QED  BY <1>2, <1>3, <1>4, <1>6 DEF own

\* What lane r of block b holds.
LEMMA LaneFacts ==
    ASSUME RunnerInv, NEW b, NEW r \in 0..(cfg.lanes - 1)
    PROVE  LET own == Column(Len(TxsOf(cfg, b)), cfg.lanes, r)
               p   == LaneOf(TxsOf(cfg, b), r)
           IN  /\ IsSeq(p) /\ Len(p) = Cardinality(own)
               /\ Range(p) = {TxsOf(cfg, b)[i + 1] : i \in own}
               /\ \A k \in DOMAIN p : p[k].amount \in Nat \ {0}
  <1> DEFINE txs == TxsOf(cfg, b)
             n   == Len(txs)
             d   == cfg.lanes
             own == Column(n, d, r)
             m   == Cardinality(own)
             p   == LaneOf(txs, r)
  <1>1. d \in Nat \ {0} /\ r \in 0..(d - 1)  BY Numbers DEF RunnerInv
  <1>2. /\ n \in Nat /\ DOMAIN txs = 1..n
        /\ \A i \in DOMAIN txs : txs[i].amount \in Nat \ {0}
    BY BlockTxs DEF RunnerInv
  <1>3. /\ IsFiniteSet(own) /\ m \in Nat
        /\ \A k \in 1..m : (k - 1) * d + r \in own
        /\ \A i \in own : \E k \in 1..m : i = (k - 1) * d + r
    <2> HIDE DEF n, d
    <2>1. QED  BY <1>1, <1>2, ColumnFacts
  <1>4. p = [k \in 1..m |-> txs[(k - 1) * d + r + 1]]  BY DEF LaneOf, Column
  <1>5. own \subseteq 0..(n - 1)  BY DEF Column
  <1>6. ASSUME NEW k \in 1..m
        PROVE  /\ (k - 1) * d + r \in own /\ (k - 1) * d + r + 1 \in DOMAIN txs
               /\ p[k] = txs[((k - 1) * d + r) + 1]
    <2> HIDE DEF d, n, own, m
    <2>1. (k - 1) * d + r \in own  BY <1>3
    <2>2. p[k] = txs[(k - 1) * d + r + 1]  BY <1>4
    <2> DEFINE x == (k - 1) * d + r
    <2>3. x \in 0..(n - 1)  BY <1>5, <2>1
    <2>4. x + 1 \in DOMAIN txs  BY <1>2, <2>3
    <2>5. QED  BY <2>1, <2>2, <2>4
  <1> HIDE DEF txs, n, d, own, m, p
  <1>7. p \in Seq({txs[i + 1] : i \in own})  BY <1>3, <1>4, <1>6
  <1>8. Len(p) = m /\ DOMAIN p = 1..m  BY <1>3, <1>4
  <1>9. Range(p) = {txs[i + 1] : i \in own}
    <2>1. ASSUME NEW x \in Range(p) PROVE x \in {txs[i + 1] : i \in own}
      <3>1. PICK k \in 1..m : x = p[k]  BY <1>8 DEF Range
      <3>2. QED  BY <1>6, <3>1
    <2>2. ASSUME NEW i \in own PROVE txs[i + 1] \in Range(p)
      <3>1. PICK k \in 1..m : i = (k - 1) * d + r  BY <1>3
      <3>2. p[k] = txs[i + 1]  BY <1>6, <3>1
      <3>3. QED  BY <1>8, <3>2 DEF Range
    <2>3. QED  BY <2>1, <2>2
  <1>10. \A k \in DOMAIN p : p[k].amount \in Nat \ {0}  BY <1>2, <1>6, <1>8
  <1>11. IsSeq(p)  BY <1>7 DEF IsSeq
  <1>12. QED  BY <1>8, <1>9, <1>10, <1>11 DEF txs, n, d, own, m, p

\* What the loop over a payload has kept after each of its transactions.
IsKept(kept, p) == kept = [i \in 0..Len(p) |->
    IF i = 0 THEN <<>>
    ELSE IF isPayloadValid(p[i]) THEN Append(kept[i - 1], p[i]) ELSE kept[i - 1]]

\* A payload of valid transactions is kept as it is.
LEMMA AllKept ==
    ASSUME NEW p, IsSeq(p), \A i \in DOMAIN p : p[i].amount \in Nat \ {0} PROVE ValidTxs(p) = p
  <1> DEFINE upto(i) == [j \in 1..i |-> p[j]]
             w == [i \in 0..Len(p) |-> upto(i)]
             kept == CHOOSE f : IsKept(f, p)
             N == {i \in Nat : i \in 0..Len(p) => kept[i] = upto(i)}
  <1>1. Len(p) \in Nat /\ DOMAIN p = 1..Len(p)  BY SeqFacts
  <1>2. \A i \in 1..Len(p) : isPayloadValid(p[i])  BY <1>1 DEF isPayloadValid
  <1>3. upto(0) = <<>>  OBVIOUS
  <1>4. ASSUME NEW i \in 1..Len(p) PROVE Append(upto(i - 1), p[i]) = upto(i)
    <2>1. i - 1 \in Nat /\ upto(i - 1) \in Seq({p[j] : j \in 1..i})  BY <1>1, <1>4
    <2>2. Len(upto(i - 1)) = i - 1  BY <2>1
    <2>3. QED  BY <2>1, <2>2
  <1>5. upto(Len(p)) = p
    <2>1. PICK S : p \in Seq(S)  BY DEF IsSeq
    <2>2. QED  BY <2>1
  <1>6. IsKept(w, p)
    <2> HIDE DEF upto
    <2>1. ASSUME NEW i \in 0..Len(p)
          PROVE  w[i] = IF i = 0 THEN <<>>
                        ELSE IF isPayloadValid(p[i]) THEN Append(w[i - 1], p[i]) ELSE w[i - 1]
      <3>1. CASE i = 0  BY <1>3, <3>1
      <3>2. CASE i # 0
        <4>1. i \in 1..Len(p) /\ i - 1 \in 0..Len(p)  BY <1>1, <3>2
        <4>2. QED  BY <1>2, <1>4, <4>1
      <3>3. QED  BY <3>1, <3>2
    <2>2. QED  BY <2>1 DEF IsKept
  <1>7. IsKept(kept, p)
    <2> HIDE DEF w
    <2>1. QED  BY <1>6
  <1>8. ValidTxs(p) = kept[Len(p)]  BY DEF ValidTxs, IsKept
  <1> HIDE DEF kept, upto
  <1>9. 0 \in N  BY <1>1, <1>3, <1>7 DEF IsKept
  <1>10. ASSUME NEW i \in Nat, i \in N PROVE i + 1 \in N
    <2>1. SUFFICES ASSUME i + 1 \in 0..Len(p) PROVE kept[i + 1] = upto(i + 1)  OBVIOUS
    <2>2. i \in 0..Len(p) /\ i + 1 \in 1..Len(p) /\ (i + 1) - 1 = i /\ i + 1 # 0  BY <1>1, <2>1
    <2>3. kept[i] = upto(i)  BY <1>10, <2>2
    <2>4. kept[i + 1] = Append(kept[(i + 1) - 1], p[i + 1])  BY <1>2, <1>7, <2>1, <2>2 DEF IsKept
    <2>5. Append(upto((i + 1) - 1), p[i + 1]) = upto(i + 1)  BY <1>4, <2>2
    <2>6. QED  BY <2>2, <2>3, <2>4, <2>5
  <1>11. \A i \in Nat : i \in N
    <2> HIDE DEF N
    <2>1. QED  BY <1>9, <1>10, NatSetInduction
  <1>12. kept[Len(p)] = upto(Len(p))  BY <1>1, <1>11
  <1>13. QED  BY <1>5, <1>8, <1>12

\* What concatenation does.
LEMMA ConcatFacts ==
    ASSUME NEW p, IsSeq(p), NEW q, IsSeq(q)
    PROVE  IsSeq(p \o q) /\ Len(p \o q) = Len(p) + Len(q) /\ Range(p \o q) = Range(p) \cup Range(q)
  <1>1. PICK S : p \in Seq(S)  BY DEF IsSeq
  <1>2. PICK T : q \in Seq(T)  BY DEF IsSeq
  <1>3. p \in Seq(S \cup T) /\ q \in Seq(S \cup T)  BY <1>1, <1>2
  <1>4. /\ p \o q \in Seq(S \cup T) /\ Len(p \o q) = Len(p) + Len(q)
        /\ Len(p) \in Nat /\ Len(q) \in Nat
        /\ DOMAIN p = 1..Len(p) /\ DOMAIN q = 1..Len(q) /\ DOMAIN (p \o q) = 1..(Len(p) + Len(q))
        /\ \A i \in 1..Len(p) : (p \o q)[i] = p[i]
        /\ \A i \in 1..Len(q) : (p \o q)[Len(p) + i] = q[i]
    BY <1>3
  <1> DEFINE pq == p \o q
  <1> HIDE DEF pq
  <1>5. Range(pq) = Range(p) \cup Range(q)
    <2>1. ASSUME NEW i \in 1..(Len(p) + Len(q)) PROVE pq[i] \in Range(p) \cup Range(q)
      <3>1. CASE i <= Len(p)
        <4>1. i \in 1..Len(p)  BY <1>4, <3>1
        <4>2. QED  BY <1>4, <4>1 DEF Range, pq
      <3>2. CASE i > Len(p)
        <4>1. i - Len(p) \in 1..Len(q) /\ i = Len(p) + (i - Len(p))  BY <1>4, <3>2
        <4>2. pq[i] = q[i - Len(p)]  BY <1>4, <4>1 DEF pq
        <4>3. QED  BY <1>4, <4>1, <4>2 DEF Range
      <3>3. QED  BY <1>4, <3>1, <3>2
    <2>2. ASSUME NEW i \in 1..Len(p) PROVE p[i] \in Range(pq)
      <3>1. i \in 1..(Len(p) + Len(q))  BY <1>4
      <3>2. QED  BY <1>4, <3>1 DEF Range, pq
    <2>3. ASSUME NEW i \in 1..Len(q) PROVE q[i] \in Range(pq)
      <3>1. Len(p) + i \in 1..(Len(p) + Len(q))  BY <1>4
      <3>2. QED  BY <1>4, <3>1 DEF Range, pq
    <2>4. Range(pq) = {pq[i] : i \in 1..(Len(p) + Len(q))}  BY <1>4 DEF Range, pq
    <2>5. Range(p) = {p[i] : i \in 1..Len(p)} /\ Range(q) = {q[i] : i \in 1..Len(q)}
      BY <1>4 DEF Range
    <2>6. QED  BY <2>1, <2>2, <2>3, <2>4, <2>5
  <1>6. QED  BY <1>4, <1>5 DEF IsSeq, pq

\* A block whose first lane is on its way holds nothing yet.
LEMMA PartialStart ==
    ASSUME RunnerInv, NEW b, NEW batch, batch.phase = PhaseOf(cfg, b)
    PROVE  PartialOK(NewState(batch), b, 0)
  <1>1. cfg.lanes \in Nat \ {0} /\ Len(TxsOf(cfg, b)) \in Nat  BY Numbers, BlockTxs DEF RunnerInv
  <1>2. InLanes(b, 0) = {}
    <2>1. ASSUME NEW i \in Nat PROVE ~(i % cfg.lanes < 0)
      <3>1. i % cfg.lanes \in Nat  BY <1>1, Remainder
      <3>2. QED  BY <3>1
    <2>2. QED  BY <1>1, <2>1 DEF InLanes
  <1>3. Cardinality(InLanes(b, 0)) = 0  BY <1>2, FS_EmptySet
  <1>4. 0..(0 - 1) = {}  OBVIOUS
  <1>5. IsSeq(<<>>) /\ Len(<<>>) = 0 /\ Range(<<>>) = {}  BY DEF IsSeq, Range
  <1>6. NewState(batch) \in [phase : {PhaseOf(cfg, b)}, lanes : {0..(0 - 1)}, txs : {<<>>}]
    BY <1>4 DEF NewState
  <1>7. NewState(batch).txs = <<>>  BY DEF NewState
  <1>8. QED  BY <1>2, <1>3, <1>5, <1>6, <1>7 DEF PartialOK

\* A lane that is added is the next one.
LEMMA PartialStep ==
    ASSUME RunnerInv, NEW b, NEW k \in 0..(cfg.lanes - 1), NEW st, PartialOK(st, b, k),
           NEW batch, batch.lane = k, batch.payload = LaneOf(TxsOf(cfg, b), k)
    PROVE  PartialOK(AddLane(st, batch), b, k + 1)
  <1> DEFINE txs == TxsOf(cfg, b)
             n   == Len(txs)
             d   == cfg.lanes
             own == Column(n, d, k)
             p   == LaneOf(txs, k)
             old == InLanes(b, k)
             new == InLanes(b, k + 1)
  <1>1. d \in Nat \ {0} /\ n \in Nat  BY Numbers, BlockTxs DEF RunnerInv
  <1>2. /\ IsSeq(p) /\ Len(p) = Cardinality(own) /\ Range(p) = {txs[i + 1] : i \in own}
        /\ \A j \in DOMAIN p : p[j].amount \in Nat \ {0}
    BY LaneFacts
  <1>3. ValidTxs(p) = p  BY <1>2, AllKept
  <1>4. new = old \cup own /\ old \cap own = {}
    <2>1. \A i \in 0..(n - 1) : i % d \in Nat
      <3>1. TAKE i \in 0..(n - 1)
      <3>2. i \in Nat  BY <1>1
      <3>3. QED  BY <1>1, <3>2, Remainder
    <2>2. k \in Nat  BY <1>1
    <2>3. ASSUME NEW i \in 0..(n - 1) PROVE i % d < k + 1 <=> (i % d < k \/ i % d = k)
      BY <2>1, <2>2
    <2> HIDE DEF n, d
    <2>4. QED  BY <2>1, <2>2, <2>3 DEF InLanes, Column, n, d
  <1>5. Cardinality(new) = Cardinality(old) + Cardinality(own)
    <2>1. IsFiniteSet(0..(n - 1))  BY <1>1, FS_Interval
    <2>2. old \in SUBSET (0..(n - 1)) /\ own \in SUBSET (0..(n - 1))  BY DEF InLanes, Column
    <2> HIDE DEF old, own, new, n
    <2>3. IsFiniteSet(old) /\ IsFiniteSet(own)  BY <2>1, <2>2, FS_Subset
    <2>4. Cardinality(old \cap own) = 0  BY <1>4, FS_EmptySet
    <2>5. Cardinality(old) \in Nat /\ Cardinality(own) \in Nat  BY <2>3, FS_CardinalityType
    <2>6. Cardinality(old \cup own) = Cardinality(old) + Cardinality(own) - Cardinality(old \cap own)
      BY <2>3, FS_Union
    <2>7. QED  BY <1>4, <2>4, <2>5, <2>6
  <1> DEFINE after == st.txs \o p
  <1>6. AddLane(st, batch) \in [phase : {PhaseOf(cfg, b)}, lanes : {0..((k + 1) - 1)}, txs : {after}]
    <2>1. 0..(k - 1) \cup {k} = 0..((k + 1) - 1)  BY <1>1
    <2>2. st \in [phase : {PhaseOf(cfg, b)}, lanes : {0..(k - 1)}, txs : {st.txs}]  BY DEF PartialOK
    <2>3. AddLane(st, batch) = [st EXCEPT !.lanes = @ \cup {k}, !.txs = @ \o p]
      BY <1>3 DEF AddLane
    <2> DEFINE t == st.txs
    <2> HIDE DEF t, p
    <2>4. [st EXCEPT !.lanes = @ \cup {k}, !.txs = @ \o p]
              \in [phase : {PhaseOf(cfg, b)}, lanes : {0..(k - 1) \cup {k}}, txs : {t \o p}]
      BY <2>2 DEF t
    <2>5. QED  BY <2>1, <2>3, <2>4 DEF t
  <1>7. IsSeq(st.txs) /\ Len(st.txs) = Cardinality(old) /\ Range(st.txs) = {txs[i + 1] : i \in old}
    BY DEF PartialOK
  <1> HIDE DEF txs, n, d, own, p, old, new
  <1>8. /\ IsSeq(st.txs \o p) /\ Len(st.txs \o p) = Cardinality(new)
        /\ Range(st.txs \o p) = {txs[i + 1] : i \in old} \cup {txs[i + 1] : i \in own}
    BY <1>2, <1>5, <1>7, ConcatFacts
  <1>9. Range(st.txs \o p) = {txs[i + 1] : i \in new}  BY <1>4, <1>8
  <1>10. AddLane(st, batch).txs = after  BY <1>6
  <1> HIDE DEF after
  <1>11. QED  BY <1>6, <1>8, <1>9, <1>10 DEF PartialOK, after, txs, new

\* With all its lanes a block has all its transactions.
LEMMA PartialDone ==
    ASSUME RunnerInv, NEW b, NEW st, PartialOK(st, b, cfg.lanes)
    PROVE  Len(st.txs) = Len(TxsOf(cfg, b)) /\ Range(st.txs) = Range(TxsOf(cfg, b))
  <1> DEFINE txs == TxsOf(cfg, b)
             n   == Len(txs)
             d   == cfg.lanes
  <1>1. d \in Nat \ {0} /\ n \in Nat /\ DOMAIN txs = 1..n  BY Numbers, BlockTxs DEF RunnerInv
  <1>2. InLanes(b, d) = 0..(n - 1)
    <2>1. ASSUME NEW i \in 0..(n - 1) PROVE i % d < d
      <3>1. i \in Nat  BY <1>1
      <3>2. QED  BY <1>1, <3>1, Remainder
    <2>2. QED  BY <2>1 DEF InLanes
  <1>3. Cardinality(0..(n - 1)) = n
    <2> HIDE DEF n
    <2>1. 0 \in Int /\ n - 1 \in Int  BY <1>1
    <2>2. Cardinality(0..(n - 1)) = IF 0 > n - 1 THEN 0 ELSE (n - 1) - 0 + 1  BY <2>1, FS_Interval
    <2>3. QED  BY <1>1, <2>2
  <1>4. {txs[i + 1] : i \in 0..(n - 1)} = Range(txs)
    <2>1. \A i \in 0..(n - 1) : i + 1 \in 1..n  BY <1>1
    <2>2. \A i \in 1..n : i - 1 \in 0..(n - 1) /\ (i - 1) + 1 = i  BY <1>1
    <2> HIDE DEF n, txs
    <2>3. ASSUME NEW i \in 1..n PROVE txs[i] \in {txs[j + 1] : j \in 0..(n - 1)}  BY <2>2
    <2>4. QED  BY <1>1, <2>1, <2>3 DEF Range
  <1>5. QED  BY <1>2, <1>3, <1>4 DEF PartialOK

-----------------------------------------------------------------------------
(* What does not depend on a step *)

\* What the runner's phase determines stays while it does.
LEMMA SameRun ==
    ASSUME runner' = runner
    PROVE  /\ cfg' = cfg /\ (RunnerInv' <=> RunnerInv) /\ (LanesFit' <=> LanesFit)
           /\ \A b : Job(b)' = Job(b)
           /\ \A n : Batch(n)' = Batch(n)
           /\ \A c, b : CommitOK(c, b)' <=> CommitOK(c, b)
           /\ \A st, b, k : PartialOK(st, b, k)' <=> PartialOK(st, b, k)
  <1>1. cfg' = cfg  BY DEF cfg
  <1>2. (RunnerInv' <=> RunnerInv) /\ (LanesFit' <=> LanesFit)  BY <1>1 DEF RunnerInv, LanesFit
  <1>3. \A b : Job(b)' = Job(b)  BY <1>1 DEF Job
  <1>4. \A n : Batch(n)' = Batch(n)  BY <1>1 DEF Batch, LaneOf
  <1>5. \A c, b : CommitOK(c, b)' <=> CommitOK(c, b)  BY <1>1 DEF CommitOK
  <1>6. \A st, b, k : PartialOK(st, b, k)' <=> PartialOK(st, b, k)
    BY <1>1 DEF PartialOK, InLanes
  <1>7. QED  BY <1>1, <1>2, <1>3, <1>4, <1>5, <1>6

\* A step of another goroutine leaves ingress alone.
LEMMA IngressKeeps ==
    ASSUME IngressInv, UNCHANGED <<runner, ingress>>, ctxDone => ctxDone' PROVE IngressInv'
  <1>1. cfg' = cfg  BY SameRun
  <1>2. QED  BY <1>1 DEF IngressInv, OnSchedule

\* A step that leaves the sequencer's input and output alone.
LEMMA SequencerKeeps ==
    ASSUME SequencerInv, UNCHANGED <<runner, ingressQ, sequencer>>, Sequenced' = Sequenced
    PROVE  SequencerInv'
  <1>1. cfg' = cfg /\ \A b : Job(b)' = Job(b)  BY SameRun
  <1>2. QED  BY <1>1 DEF SequencerInv

\* The aggregator's place stays while its state and its output do.
LEMMA AggregatorAtKeeps ==
    ASSUME UNCHANGED <<runner, aggregator, states>>, Committed' = Committed,
           NEW n \in Nat, AggregatorAt(n)
    PROVE  AggregatorAt(n)'
  <1>1. /\ cfg' = cfg /\ (LanesFit' <=> LanesFit)
        /\ \A c, b : CommitOK(c, b)' <=> CommitOK(c, b)
        /\ \A st, b, k : PartialOK(st, b, k)' <=> PartialOK(st, b, k)
    BY SameRun
  <1>2. CASE LanesFit
    <2>1. CASE aggregator.pc \in {"enqueue", "retry"}  BY <1>1, <1>2, <2>1 DEF AggregatorAt
    <2>2. CASE aggregator.pc \notin {"enqueue", "retry"}  BY <1>1, <1>2, <2>2 DEF AggregatorAt
    <2>3. QED  BY <2>1, <2>2
  <1>3. CASE ~LanesFit  BY <1>1, <1>3 DEF AggregatorAt
  <1>4. QED  BY <1>2, <1>3

\* A step that leaves the aggregator's input and output alone.
LEMMA AggregatorKeeps ==
    ASSUME AggregatorInv, UNCHANGED <<runner, laneQ, aggregator, states>>, Committed' = Committed,
           Alive(sequencer)' => Alive(sequencer) /\ Produced' = Produced
    PROVE  AggregatorInv'
  <1>1. cfg' = cfg /\ \A n : Batch(n)' = Batch(n)  BY SameRun
  <1>2. ASSUME NEW n \in Nat, LanesAt(n) PROVE LanesAt(n)'  BY <1>1, <1>2 DEF LanesAt
  <1>3. \A n \in Nat : AggregatorAt(n) => AggregatorAt(n)'  BY AggregatorAtKeeps
  <1>4. Alive(aggregator)' <=> Alive(aggregator)  BY DEF Alive
  <1>5. QED  BY <1>2, <1>3, <1>4 DEF AggregatorInv

\* A step that leaves the replayer and the L1 node alone.
LEMMA ReplayerKeeps ==
    ASSUME ReplayerInv, UNCHANGED <<runner, commitQ, replayer, blockLog, blocks>> PROVE ReplayerInv'
  <1>1. cfg' = cfg /\ \A c, b : CommitOK(c, b)' <=> CommitOK(c, b)  BY SameRun
  <1>2. Held' = Held /\ Committed' = Committed  BY DEF Held, Committed
  <1>3. ASSUME NEW i PROVE LogOK(i)' <=> LogOK(i)  BY <1>1 DEF LogOK
  <1>4. QED  BY <1>1, <1>2, <1>3 DEF ReplayerInv

\* The committed blocks stay while the replayer's side does.
LEMMA SameCommitted ==
    ASSUME UNCHANGED <<commitQ, replayer, blockLog>> PROVE Committed' = Committed
  BY DEF Committed, Held

\* What the sequencer has produced stays while it does.
LEMMA SameProduced ==
    ASSUME UNCHANGED <<runner, sequencer>>, Sequenced' = Sequenced
    PROVE  (Alive(sequencer)' <=> Alive(sequencer)) /\ Produced' = Produced
  BY SameRun DEF Alive, Produced

\* Only the last step of main builds the report, and it is the last.
LEMMA NotBuilt ==
    ASSUME ReportInv,
           \/ ingress.pc # "returned" \/ replayer.pc # "exited"
           \/ sequencer.pc # "exited" \/ aggregator.pc # "exited"
    PROVE  report.built = FALSE /\ report = NoReport
  BY DEF ReportInv, NoReport

\* A run without a report stays without one.
LEMMA ReportKeeps ==
    ASSUME report = NoReport, report' = report PROVE ReportInv'
  BY DEF ReportInv, NoReport

\* The context is cancelled.
LEMMA CancelStep == ASSUME IInv, Cancel PROVE IInv'
  <1>1. UNCHANGED <<runner, queues, goroutines, report, l1vars>> /\ ctxDone' = TRUE  BY DEF Cancel
  <1>2. RunnerInv'  BY <1>1, SameRun DEF IInv
  <1>3. IngressInv'  BY <1>1, IngressKeeps DEF IInv, goroutines
  <1>10. Sequenced' = Sequenced  BY <1>1 DEF Sequenced, goroutines, queues
  <1>4. SequencerInv'  BY <1>1, <1>10, SequencerKeeps DEF IInv, goroutines, queues
  <1>5. ReplayerInv'  BY <1>1, ReplayerKeeps DEF IInv, goroutines, queues, l1vars
  <1>6. Committed' = Committed  BY <1>1, SameCommitted DEF goroutines, queues, l1vars
  <1>7. (Alive(sequencer)' <=> Alive(sequencer)) /\ Produced' = Produced
    BY <1>1, <1>10, SameProduced DEF goroutines
  <1>8. AggregatorInv'  BY <1>1, <1>6, <1>7, AggregatorKeeps DEF IInv, goroutines, queues
  <1>9. ReportInv'  BY <1>1 DEF IInv, ReportInv, goroutines
  <1>11. QED  BY <1>2, <1>3, <1>4, <1>5, <1>8, <1>9 DEF IInv

-----------------------------------------------------------------------------
(* Main *)

\* What the steps of the runner's own goroutine, which is ingress, leave alone.
LEMMA MainKeeps ==
    ASSUME IInv, IngressFrame, Sequenced' = Sequenced
    PROVE  RunnerInv' /\ AggregatorInv' /\ ReplayerInv' /\ (ingressQ' = ingressQ => SequencerInv')
  <1>1. UNCHANGED <<runner, laneQ, commitQ, sequencer, aggregator, states, replayer, blockLog, blocks>>
    BY DEF IngressFrame, l1vars
  <1>2. RunnerInv'  BY <1>1, SameRun DEF IInv
  <1>3. ReplayerInv'  BY <1>1, ReplayerKeeps DEF IInv
  <1>4. Committed' = Committed  BY <1>1, SameCommitted
  <1>5. (Alive(sequencer)' <=> Alive(sequencer)) /\ Produced' = Produced  BY <1>1, SameProduced
  <1>6. AggregatorInv'  BY <1>1, <1>4, <1>5, AggregatorKeeps DEF IInv
  <1>7. ingressQ' = ingressQ => SequencerInv'  BY <1>1, SequencerKeeps DEF IInv
  <1>8. QED  BY <1>2, <1>3, <1>6, <1>7

\* The end of a phase, after its last block or because of a cancellation.
LEMMA PhaseEnds ==
    ASSUME RunnerInv, IngressInv, PhaseReturns, runner' = runner, ctxDone' = ctxDone,
           ctxDone \/ (ingress.left = 0 /\ OnSchedule)
    PROVE  IngressInv' /\ ingress'.next = ingress.next
  <1> DEFINE W == PhaseBlocks(cfg, cfg.warmup)
             C == PhaseBlocks(cfg, cfg.certification)
  <1>1. W \in Nat /\ C \in Nat /\ TotalBlocks(cfg) = W + C  BY Numbers DEF RunnerInv, TotalBlocks
  <1>2. cfg' = cfg  BY SameRun
  <1>3. CASE ingress.phase = "warmup"
    <2>1. ingress' = [ingress EXCEPT !.pc = "check", !.phase = "certification", !.left = C]
      BY <1>3 DEF PhaseReturns
    <2>2. ingress'.pc = "check" /\ ingress'.phase = "certification" /\ ingress'.left = C
          /\ ingress'.next = ingress.next
      BY <2>1 DEF IngressInv
    <2>3. ingress' \in [pc : {"check", "enqueue", "retry", "store", "wait", "returned"},
                        phase : {"warmup", "certification"}, left : Nat, next : Nat]
      BY <1>1, <2>1 DEF IngressInv
    <2>4. ctxDone \/ OnSchedule'
      <3>1. ASSUME ~ctxDone PROVE ingress.next = W  BY <1>1, <1>3, <3>1 DEF OnSchedule, IngressInv
      <3>2. ingress.next = W => OnSchedule'  BY <1>1, <1>2, <2>2 DEF OnSchedule
      <3>3. QED  BY <3>1, <3>2
    <2>5. QED  BY <1>2, <2>2, <2>3, <2>4 DEF IngressInv
  <1>4. CASE ingress.phase = "certification"
    <2>1. ingress' = [ingress EXCEPT !.pc = "store"]  BY <1>4 DEF PhaseReturns
    <2>2. QED  BY <1>2, <2>1 DEF IngressInv
  <1>5. QED  BY <1>3, <1>4 DEF IngressInv

\* The runner's own goroutine generates jobs, waits and reports.
LEMMA MainStep == ASSUME IInv, Main PROVE IInv'
  <1> DEFINE W == PhaseBlocks(cfg, cfg.warmup)
             C == PhaseBlocks(cfg, cfg.certification)
             pcs == {"check", "enqueue", "retry", "store", "wait", "returned"}
  <1>1. W \in Nat /\ C \in Nat /\ TotalBlocks(cfg) = W + C  BY Numbers DEF IInv, RunnerInv, TotalBlocks
  <1>2. IngressFrame /\ runner' = runner /\ ctxDone' = ctxDone /\ cfg' = cfg
    <2>1. IngressFrame
      BY DEF Main, IngressCheck, IngressEnqueue, IngressRetry, IngressStore, BuildReport
    <2>2. QED  BY <2>1, SameRun DEF IngressFrame
  <1>3. ingress.pc # "returned" /\ report = NoReport
    <2>1. ingress.pc # "returned"
      BY DEF Main, IngressCheck, IngressEnqueue, IngressRetry, IngressStore, BuildReport
    <2>2. QED  BY <2>1, NotBuilt DEF IInv
  <1>4. RunnerInv /\ IngressInv  BY DEF IInv
  <1>5. ingress \in [pc : pcs, phase : {"warmup", "certification"}, left : Nat, next : Nat]
    BY <1>4 DEF IngressInv
  <1>6. ASSUME ingressQ' = ingressQ, ingress'.next = ingress.next, IngressInv', ReportInv' PROVE IInv'
    <2>1. Sequenced' = Sequenced  BY <1>6 DEF Sequenced
    <2>2. QED  BY <1>2, <1>6, <2>1, MainKeeps DEF IInv
  <1>7. CASE IngressCheck
    <2>1. ingressQ' = ingressQ /\ report' = report /\ ingress.pc = "check"  BY <1>7 DEF IngressCheck
    <2>2. ReportInv'  BY <1>3, <2>1, ReportKeeps
    <2>3. ctxDone \/ OnSchedule  BY <1>4, <2>1 DEF IngressInv
    <2>4. CASE (ingress.left = 0 \/ ctxDone) /\ PhaseReturns
      BY <1>2, <1>4, <1>6, <2>1, <2>2, <2>3, <2>4, PhaseEnds
    <2>5. CASE ingress.left # 0 /\ ~ctxDone /\ ingress' = [ingress EXCEPT !.pc = "enqueue"]
      <3>1. ingress'.next = ingress.next /\ ingress'.left = ingress.left
            /\ ingress'.phase = ingress.phase /\ ingress'.pc = "enqueue" /\ ingress.left > 0
        BY <1>5, <2>5
      <3>2. OnSchedule'  BY <1>2, <2>3, <2>5, <3>1 DEF OnSchedule
      <3>3. ingress' \in [pc : pcs, phase : {"warmup", "certification"}, left : Nat, next : Nat]
        BY <1>5, <2>5
      <3>4. IngressInv'  BY <1>2, <1>4, <3>1, <3>2, <3>3 DEF IngressInv
      <3>5. QED  BY <1>6, <2>1, <2>2, <3>1, <3>4
    <2>6. QED  BY <1>7, <2>4, <2>5 DEF IngressCheck
  <1>8. CASE IngressEnqueue
    <2>1. report' = report /\ ingress.pc = "enqueue"  BY <1>8 DEF IngressEnqueue
    <2>2. ReportInv'  BY <1>3, <2>1, ReportKeeps
    <2>3. OnSchedule /\ ingress.left > 0  BY <1>4, <2>1 DEF IngressInv
    <2>4. CASE ingress' = [ingress EXCEPT !.pc = "retry"] /\ ingressQ' = ingressQ
      <3>1. ingress'.next = ingress.next /\ ingress'.left = ingress.left
            /\ ingress'.phase = ingress.phase /\ ingress'.pc = "retry"
        BY <1>5, <2>4
      <3>2. OnSchedule'  BY <1>2, <2>3, <3>1 DEF OnSchedule
      <3>3. ingress' \in [pc : pcs, phase : {"warmup", "certification"}, left : Nat, next : Nat]
        BY <1>5, <2>4
      <3>4. IngressInv'  BY <1>2, <1>4, <2>3, <3>1, <3>2, <3>3 DEF IngressInv
      <3>5. QED  BY <1>6, <2>2, <2>4, <3>1, <3>4
    <2>5. ASSUME ingressQ' = Append(ingressQ, [phase |-> ingress.phase, block |-> ingress.next,
                                               txs |-> TxsOf(cfg, ingress.next)]),
                 ingress' = [ingress EXCEPT !.pc = "check", !.left = @ - 1, !.next = @ + 1]
          PROVE  IInv'
      <3>1. /\ ingress'.next = ingress.next + 1 /\ ingress'.left = ingress.left - 1
            /\ ingress'.phase = ingress.phase /\ ingress'.pc = "check"
        BY <1>5, <2>5
      <3>2. ingress.next \in Nat /\ ingress.left \in Nat /\ ingress.left > 0  BY <1>5, <2>3
      <3>3. OnSchedule'  BY <1>1, <1>2, <2>3, <3>1, <3>2 DEF OnSchedule
      <3>4. ingress' \in [pc : pcs, phase : {"warmup", "certification"}, left : Nat, next : Nat]
        <4>1. ingress.left - 1 \in Nat /\ ingress.next + 1 \in Nat  BY <3>2
        <4>2. QED  BY <1>5, <2>5, <4>1
      <3>5. ingress.next < (IF ingress.phase = "warmup" THEN W ELSE W + C)
        BY <1>1, <2>3, <3>2 DEF OnSchedule
      <3>6. IngressInv'
        <4>1. ingress.next + 1 <= W + C  BY <1>1, <3>2, <3>5
        <4>2. ingress.phase = "certification" => ingress.left - 1 <= C
          BY <1>1, <1>4, <3>2 DEF IngressInv
        <4>3. QED  BY <1>1, <1>2, <3>1, <3>3, <3>4, <4>1, <4>2 DEF IngressInv
      <3>7. PhaseOf(cfg, ingress.next) = ingress.phase
        <4>1. CASE ingress.phase = "warmup"  BY <3>5, <4>1 DEF PhaseOf
        <4>2. CASE ingress.phase = "certification"
          <5>1. ingress.left <= C /\ ingress.next = (W + C) - ingress.left
            BY <1>1, <1>4, <2>3, <4>2 DEF IngressInv, OnSchedule
          <5>2. ~(ingress.next < W)  BY <1>1, <3>2, <5>1
          <5>3. QED  BY <4>2, <5>2 DEF PhaseOf
        <4>3. QED  BY <1>5, <4>1, <4>2
      <3>8. SequencerInv /\ IsSeq(ingressQ) /\ Sequenced \in Nat  BY DEF IInv, SequencerInv
      <3> DEFINE job == [phase |-> ingress.phase, block |-> ingress.next,
                         txs |-> TxsOf(cfg, ingress.next)]
      <3>9. job = Job(ingress.next)  BY <3>7 DEF Job
      <3> HIDE DEF job
      <3>10. /\ IsSeq(ingressQ') /\ Len(ingressQ') = Len(ingressQ) + 1 /\ Len(ingressQ) \in Nat
             /\ DOMAIN ingressQ = 1..Len(ingressQ) /\ DOMAIN ingressQ' = 1..(Len(ingressQ) + 1)
             /\ \A i \in 1..Len(ingressQ) : ingressQ'[i] = ingressQ[i]
             /\ ingressQ'[Len(ingressQ) + 1] = Job(ingress.next)
        <4>1. ingressQ' = Append(ingressQ, job)  BY <2>5 DEF job
        <4>2. QED  BY <3>8, <3>9, <4>1, AppendFacts
      <3>11. Sequenced' = Sequenced  BY <3>1, <3>2, <3>10 DEF Sequenced
      <3>12. SequencerInv'
        <4>1. ASSUME NEW i \in DOMAIN ingressQ' PROVE ingressQ'[i] = Job(Sequenced + i - 1)
          <5>1. CASE i \in 1..Len(ingressQ)  BY <3>8, <3>10, <5>1 DEF SequencerInv
          <5>2. CASE i = Len(ingressQ) + 1
            <6>1. Sequenced + i - 1 = ingress.next  BY <3>2, <3>10, <5>2 DEF Sequenced
            <6>2. QED  BY <3>10, <5>2, <6>1
          <5>3. QED  BY <3>10, <5>1, <5>2
        <4>2. \A b : Job(b)' = Job(b)  BY <1>2, SameRun
        <4>3. sequencer' = sequencer  BY <1>2 DEF IngressFrame
        <4>4. QED  BY <1>2, <3>8, <3>10, <3>11, <4>1, <4>2, <4>3 DEF SequencerInv
      <3>13. RunnerInv' /\ AggregatorInv' /\ ReplayerInv'  BY <1>2, <3>11, MainKeeps
      <3>14. QED  BY <2>2, <3>6, <3>12, <3>13 DEF IInv
    <2>6. QED  BY <1>8, <2>4, <2>5 DEF IngressEnqueue
  <1>9. CASE IngressRetry
    <2>1. ingressQ' = ingressQ /\ report' = report /\ ingress.pc = "retry"  BY <1>9 DEF IngressRetry
    <2>2. ReportInv'  BY <1>3, <2>1, ReportKeeps
    <2>3. OnSchedule /\ ingress.left > 0  BY <1>4, <2>1 DEF IngressInv
    <2>4. CASE ctxDone /\ PhaseReturns  BY <1>2, <1>4, <1>6, <2>1, <2>2, <2>4, PhaseEnds
    <2>5. CASE ingress' = [ingress EXCEPT !.pc = "enqueue"]
      <3>1. ingress'.next = ingress.next /\ ingress'.left = ingress.left
            /\ ingress'.phase = ingress.phase /\ ingress'.pc = "enqueue"
        BY <1>5, <2>5
      <3>2. OnSchedule'  BY <1>2, <2>3, <3>1 DEF OnSchedule
      <3>3. ingress' \in [pc : pcs, phase : {"warmup", "certification"}, left : Nat, next : Nat]
        BY <1>5, <2>5
      <3>4. IngressInv'  BY <1>2, <1>4, <2>3, <3>1, <3>2, <3>3 DEF IngressInv
      <3>5. QED  BY <1>6, <2>1, <2>2, <3>1, <3>4
    <2>6. QED  BY <1>9, <2>4, <2>5 DEF IngressRetry
  <1>10. ASSUME NEW pc \in {"wait", "returned"}, ingress' = [ingress EXCEPT !.pc = pc]
         PROVE  IngressInv' /\ ingress'.next = ingress.next /\ ingress'.pc = pc
    <2>1. ingress'.next = ingress.next /\ ingress'.left = ingress.left
          /\ ingress'.phase = ingress.phase /\ ingress'.pc = pc
      BY <1>5, <1>10
    <2>2. ingress' \in [pc : pcs, phase : {"warmup", "certification"}, left : Nat, next : Nat]
      BY <1>5, <1>10
    <2>3. QED  BY <1>2, <1>4, <2>1, <2>2 DEF IngressInv
  <1>11. CASE IngressStore
    <2>1. /\ ingressQ' = ingressQ /\ report' = report
          /\ ingress' = [ingress EXCEPT !.pc = "wait"]  BY <1>11 DEF IngressStore
    <2>2. ReportInv'  BY <1>3, <2>1, ReportKeeps
    <2>3. QED  BY <1>6, <1>10, <2>1, <2>2
  <1>12. CASE BuildReport
    <2>1. /\ ingressQ' = ingressQ /\ ingress' = [ingress EXCEPT !.pc = "returned"]
          /\ sequencer.pc = "exited" /\ aggregator.pc = "exited" /\ replayer.pc = "exited"
          /\ report' = [pass |-> Pass, built |-> TRUE]
      BY <1>12 DEF BuildReport
    <2>2. IngressInv' /\ ingress'.next = ingress.next /\ ingress'.pc = "returned"  BY <1>10, <2>1
    <2>3. report'.built = TRUE  BY <2>1
    <2>4. ReportInv'  BY <1>2, <2>1, <2>2, <2>3 DEF ReportInv, IngressFrame
    <2>5. QED  BY <1>6, <2>1, <2>2, <2>4
  <1>13. QED  BY <1>7, <1>8, <1>9, <1>11, <1>12 DEF Main

-----------------------------------------------------------------------------
(* The sequencer *)

\* The sequencer takes a job, cuts it into lanes or leaves.
LEMMA SequencerStep == ASSUME IInv, Sequencer PROVE IInv'
  <1> DEFINE pcs  == {"check", "dequeue", "loadDone", "enqueue", "retry", "exit", "exited"}
             busy == {"enqueue", "retry"}
             d    == cfg.lanes
  <1>1. SequencerFrame /\ sequencer.pc # "exited"
    BY DEF Sequencer, SequencerCheck, SequencerDequeue, SequencerLoadDone, SequencerEnqueue,
           SequencerRetry, SequencerExit
  <1>2. UNCHANGED <<runner, ctxDone, commitQ, ingress, aggregator, states, replayer, report,
                    blockLog, blocks>>
    BY <1>1 DEF SequencerFrame, l1vars
  <1>3. RunnerInv' /\ IngressInv' /\ ReplayerInv' /\ ReportInv'
    <2>1. RunnerInv'  BY <1>2, SameRun DEF IInv
    <2>2. IngressInv'  BY <1>2, IngressKeeps DEF IInv
    <2>3. ReplayerInv'  BY <1>2, ReplayerKeeps DEF IInv
    <2>4. ReportInv'  BY <1>1, <1>2, NotBuilt, ReportKeeps DEF IInv
    <2>5. QED  BY <2>1, <2>2, <2>3, <2>4
  <1>4. SUFFICES SequencerInv' /\ AggregatorInv'  BY <1>3 DEF IInv
  <1>5. /\ RunnerInv /\ SequencerInv /\ AggregatorInv
        /\ d \in Nat \ {0} /\ TotalBlocks(cfg) \in Nat
        /\ ingress.next \in Nat /\ ingress.next <= TotalBlocks(cfg)
    <2>1. RunnerInv /\ SequencerInv /\ AggregatorInv /\ IngressInv  BY DEF IInv
    <2>2. d \in Nat \ {0} /\ TotalBlocks(cfg) \in Nat  BY <2>1, Numbers DEF RunnerInv
    <2>3. QED  BY <2>1, <2>2 DEF IngressInv
  <1>6. Committed' = Committed  BY <1>2, SameCommitted
  <1>7. cfg' = cfg /\ (\A b : Job(b)' = Job(b)) /\ (\A n : Batch(n)' = Batch(n))  BY <1>2, SameRun
  <1>8. /\ IsSeq(ingressQ) /\ Sequenced \in Nat /\ Len(ingressQ) \in Nat
        /\ sequencer = [pc |-> sequencer.pc, job |-> sequencer.job, lane |-> sequencer.lane]
    BY <1>5, SeqFacts DEF SequencerInv
  <1>9. ASSUME NEW pc \in pcs, sequencer' = [sequencer EXCEPT !.pc = pc], Alive(sequencer),
               pc = "exit" \/ (pc \in busy <=> sequencer.pc \in busy),
               ingressQ' = ingressQ, laneQ' = laneQ
        PROVE  SequencerInv' /\ AggregatorInv'
    <2>1. sequencer'.pc = pc /\ sequencer'.job = sequencer.job /\ sequencer'.lane = sequencer.lane
          /\ sequencer' = [pc |-> sequencer'.pc, job |-> sequencer'.job, lane |-> sequencer'.lane]
      BY <1>8, <1>9
    <2>2. Sequenced' = Sequenced  BY <1>2, <1>9 DEF Sequenced
    <2>3. pc \in busy => sequencer.pc \in busy  BY <1>9
    <2>4. SequencerInv'  BY <1>5, <1>7, <1>9, <2>1, <2>2, <2>3 DEF SequencerInv
    <2>5. Alive(sequencer)' => Alive(sequencer) /\ Produced' = Produced
      BY <1>7, <1>9, <2>1, <2>2 DEF Alive, Produced
    <2>6. QED  BY <1>2, <1>5, <1>6, <1>9, <2>4, <2>5, AggregatorKeeps
  <1>10. CASE SequencerCheck
    <2>1. PICK pc \in {"exit", "dequeue"} : sequencer' = [sequencer EXCEPT !.pc = pc]
      BY <1>10 DEF SequencerCheck
    <2>2. sequencer.pc = "check" /\ ingressQ' = ingressQ /\ laneQ' = laneQ
      BY <1>10 DEF SequencerCheck
    <2>3. QED  BY <1>9, <2>1, <2>2 DEF Alive
  <1>11. CASE SequencerLoadDone
    <2>1. PICK pc \in {"exit", "check"} : sequencer' = [sequencer EXCEPT !.pc = pc]
      BY <1>11 DEF SequencerLoadDone
    <2>2. sequencer.pc = "loadDone" /\ ingressQ' = ingressQ /\ laneQ' = laneQ
      BY <1>11 DEF SequencerLoadDone
    <2>3. QED  BY <1>9, <2>1, <2>2 DEF Alive
  <1>12. CASE SequencerRetry
    <2>1. PICK pc \in {"exit", "enqueue"} : sequencer' = [sequencer EXCEPT !.pc = pc]
      BY <1>12 DEF SequencerRetry
    <2>2. sequencer.pc = "retry" /\ ingressQ' = ingressQ /\ laneQ' = laneQ
      BY <1>12 DEF SequencerRetry
    <2>3. QED  BY <1>9, <2>1, <2>2 DEF Alive
  <1>13. CASE SequencerExit
    <2>1. /\ sequencer' = [pc |-> "exited", job |-> <<>>, lane |-> 0]
          /\ ingressQ' = ingressQ /\ laneQ' = laneQ
      BY <1>13 DEF SequencerExit
    <2>2. Sequenced' = Sequenced  BY <1>2, <2>1 DEF Sequenced
    <2>3. SequencerInv'  BY <1>5, <1>7, <2>1, <2>2 DEF SequencerInv
    <2>4. ~Alive(sequencer)'  BY <2>1 DEF Alive
    <2>5. QED  BY <1>2, <1>5, <1>6, <2>1, <2>3, <2>4, AggregatorKeeps
  <1>14. CASE SequencerDequeue
    <2>1. sequencer.pc = "dequeue" /\ laneQ' = laneQ  BY <1>14 DEF SequencerDequeue
    <2>2. CASE ingressQ = <<>> /\ ingressQ' = ingressQ /\ sequencer' = [sequencer EXCEPT !.pc = "loadDone"]
      BY <1>9, <2>1, <2>2 DEF Alive
    <2>3. ASSUME ingressQ # <<>>, ingressQ' = Tail(ingressQ),
                 sequencer' = [pc |-> "enqueue", job |-> Head(ingressQ), lane |-> 0]
          PROVE  SequencerInv' /\ AggregatorInv'
      <3>1. /\ IsSeq(ingressQ') /\ Len(ingressQ) \in Nat \ {0} /\ Len(ingressQ') = Len(ingressQ) - 1
            /\ DOMAIN ingressQ = 1..Len(ingressQ) /\ DOMAIN ingressQ' = 1..(Len(ingressQ) - 1)
            /\ \A i \in 1..(Len(ingressQ) - 1) : ingressQ'[i] = ingressQ[i + 1]
            /\ Head(ingressQ) = ingressQ[1]
        BY <1>8, <2>3, TailFacts
      <3>2. Sequenced' = Sequenced + 1  BY <1>2, <1>5, <3>1 DEF Sequenced
      <3>3. Head(ingressQ) = Job(Sequenced)
        <4>1. ingressQ[1] = Job(Sequenced + 1 - 1)  BY <1>5, <3>1 DEF SequencerInv
        <4>2. Sequenced + 1 - 1 = Sequenced  BY <1>8
        <4>3. QED  BY <3>1, <4>1, <4>2
      <3>4. ASSUME NEW i \in DOMAIN ingressQ' PROVE ingressQ'[i] = Job(Sequenced' + i - 1)
        <4>1. i \in Nat /\ i + 1 \in DOMAIN ingressQ /\ ingressQ'[i] = ingressQ[i + 1]  BY <3>1
        <4>2. ingressQ[i + 1] = Job(Sequenced + (i + 1) - 1)  BY <1>5, <4>1 DEF SequencerInv
        <4>3. Sequenced + (i + 1) - 1 = Sequenced' + i - 1  BY <1>8, <3>2, <4>1
        <4>4. QED  BY <4>1, <4>2, <4>3
      <3>5. sequencer'.pc = "enqueue" /\ sequencer'.job = Job(Sequenced) /\ sequencer'.lane = 0
            /\ sequencer' = [pc |-> sequencer'.pc, job |-> sequencer'.job, lane |-> sequencer'.lane]
        BY <2>3, <3>3
      <3>6. Sequenced' \in Nat /\ Sequenced' > 0 /\ Sequenced' - 1 = Sequenced /\ 0 \in 0..(d - 1)
        BY <1>5, <1>8, <3>2
      <3>7. SequencerInv'  BY <1>7, <3>1, <3>4, <3>5, <3>6 DEF SequencerInv
      <3>8. Alive(sequencer) /\ Produced' = Produced
        <4>1. Alive(sequencer)  BY <2>1 DEF Alive
        <4>2. Produced = Sequenced * d  BY <2>1 DEF Produced
        <4>3. Produced' = Sequenced * d + 0  BY <1>7, <3>5, <3>6 DEF Produced
        <4>4. Sequenced * d \in Nat  BY <1>5, <1>8
        <4>5. QED  BY <4>1, <4>2, <4>3, <4>4
      <3>9. QED  BY <1>2, <1>5, <1>6, <2>1, <3>7, <3>8, AggregatorKeeps
    <2>4. QED  BY <1>14, <2>2, <2>3 DEF SequencerDequeue
  <1>15. CASE SequencerEnqueue
    <2>1. sequencer.pc = "enqueue" /\ ingressQ' = ingressQ  BY <1>15 DEF SequencerEnqueue
    <2>2. CASE laneQ' = laneQ /\ sequencer' = [sequencer EXCEPT !.pc = "retry"]
      BY <1>9, <2>1, <2>2 DEF Alive
    <2> DEFINE l == sequencer.lane
               S == Sequenced
               N == (S - 1) * d + l
    <2>3. S \in Nat \ {0} /\ l \in 0..(d - 1) /\ sequencer.job = Job(S - 1)
      BY <1>5, <1>8, <2>1 DEF SequencerInv
    <2>4. Sequenced' = Sequenced  BY <1>2, <2>1 DEF Sequenced
    <2>5. ASSUME laneQ' = Append(laneQ, [phase |-> sequencer.job.phase,
                                         block |-> sequencer.job.block, lane |-> sequencer.lane % LaneIds,
                                         payload |-> LaneOf(sequencer.job.txs, sequencer.lane)]),
                 sequencer' = IF sequencer.lane + 1 < cfg.lanes
                              THEN [sequencer EXCEPT !.lane = @ + 1]
                              ELSE [pc |-> "check", job |-> <<>>, lane |-> 0]
          PROVE  SequencerInv' /\ AggregatorInv'
      <3>1. N \in Nat /\ N \div d = S - 1 /\ N % d = l
        <4>1. PlaceIs(N, d, S - 1, l)  BY <1>5, <2>3 DEF PlaceIs
        <4> HIDE DEF N, d
        <4>2. QED  BY <1>5, <4>1, Divided
      <3>2. laneQ' = Append(laneQ, Batch(N))
        <4>1. Batch(N) = [phase |-> PhaseOf(cfg, S - 1), block |-> S - 1, lane |-> l % LaneIds,
                          payload |-> LaneOf(TxsOf(cfg, S - 1), l)]
          BY <3>1 DEF Batch
        <4>2. sequencer.job.phase = PhaseOf(cfg, S - 1) /\ sequencer.job.block = S - 1
              /\ sequencer.job.txs = TxsOf(cfg, S - 1)
          BY <2>3 DEF Job
        <4>3. QED  BY <2>5, <4>1, <4>2
      <3>3. SequencerInv' /\ Alive(sequencer)' /\ Produced' = N + 1
        <4>1. CASE l + 1 < d
          <5>1. sequencer' = [sequencer EXCEPT !.lane = l + 1]  BY <2>5, <4>1
          <5>2. sequencer'.pc = "enqueue" /\ sequencer'.job = sequencer.job /\ sequencer'.lane = l + 1
                /\ sequencer' = [pc |-> sequencer'.pc, job |-> sequencer'.job, lane |-> sequencer'.lane]
            BY <1>8, <2>1, <5>1
          <5>3. l + 1 \in 0..(d - 1)  BY <1>5, <2>3, <4>1
          <5>4. SequencerInv'  BY <1>5, <1>7, <2>1, <2>3, <2>4, <5>2, <5>3 DEF SequencerInv
          <5>5. Produced' = (S - 1) * d + (l + 1)  BY <1>7, <2>4, <5>2 DEF Produced
          <5>6. (S - 1) * d \in Nat  BY <1>5, <2>3
          <5>7. Produced' = N + 1  BY <2>3, <5>5, <5>6
          <5>8. QED  BY <5>2, <5>4, <5>7 DEF Alive
        <4>2. CASE l + 1 = d
          <5>1. sequencer' = [pc |-> "check", job |-> <<>>, lane |-> 0]  BY <1>5, <2>3, <2>5, <4>2
          <5>2. SequencerInv'  BY <1>5, <1>7, <2>1, <2>4, <5>1 DEF SequencerInv
          <5>3. Produced' = S * d  BY <1>7, <2>4, <5>1 DEF Produced
          <5>4. S * d = (S - 1) * d + d /\ (S - 1) * d \in Nat  BY <1>5, <2>3
          <5>5. Produced' = N + 1  BY <1>5, <2>3, <4>2, <5>3, <5>4
          <5>6. QED  BY <5>1, <5>2, <5>5 DEF Alive
        <4>3. QED  BY <1>5, <2>3, <4>1, <4>2
      <3>4. N + 1 <= TotalBlocks(cfg) * d
        <4>1. S <= TotalBlocks(cfg)  BY <1>5, <1>8 DEF Sequenced
        <4>2. TotalBlocks(cfg) * d >= (S - 1) * d + d  BY <1>5, <2>3, <4>1, MoreRows
        <4>3. (S - 1) * d \in Nat /\ TotalBlocks(cfg) * d \in Nat  BY <1>5, <2>3
        <4>4. QED  BY <1>5, <2>3, <4>2, <4>3
      <3>5. Produced = N /\ Alive(sequencer)  BY <2>1 DEF Produced, Alive
      <3> HIDE DEF N
      <3>6. IsSeq(laneQ)  BY <1>5 DEF AggregatorInv
      <3>7. /\ IsSeq(laneQ') /\ Len(laneQ) \in Nat /\ Len(laneQ') = Len(laneQ) + 1
            /\ DOMAIN laneQ = 1..Len(laneQ) /\ DOMAIN laneQ' = 1..(Len(laneQ) + 1)
            /\ \A i \in 1..Len(laneQ) : laneQ'[i] = laneQ[i]
            /\ laneQ'[Len(laneQ) + 1] = Batch(N)
        BY <3>2, <3>6, AppendFacts
      <3>8. ASSUME NEW n \in Nat, LanesAt(n) PROVE LanesAt(n)'
        <4>1. n + Len(laneQ) = N  BY <3>5, <3>8 DEF LanesAt
        <4>2. ASSUME NEW i \in DOMAIN laneQ' PROVE laneQ'[i] = Batch(n + i - 1)
          <5>1. CASE i \in 1..Len(laneQ)  BY <3>7, <3>8, <5>1 DEF LanesAt
          <5>2. CASE i = Len(laneQ) + 1
            <6>1. n + i - 1 = N  BY <3>7, <4>1, <5>2
            <6>2. QED  BY <3>7, <5>2, <6>1
          <5>3. QED  BY <3>7, <5>1, <5>2
        <4>3. n + Len(laneQ') = N + 1  BY <3>1, <3>7, <4>1
        <4>4. QED  BY <1>7, <3>3, <3>4, <4>2, <4>3 DEF LanesAt
      <3>9. \A n \in Nat : AggregatorAt(n) => AggregatorAt(n)'  BY <1>2, <1>6, AggregatorAtKeeps
      <3>10. AggregatorInv'  BY <1>2, <1>5, <3>7, <3>8, <3>9 DEF AggregatorInv, Alive
      <3>11. QED  BY <3>3, <3>10
    <2>6. QED  BY <1>15, <2>2, <2>5 DEF SequencerEnqueue
  <1>16. QED
    BY <1>10, <1>11, <1>12, <1>13, <1>14, <1>15 DEF Sequencer

-----------------------------------------------------------------------------
(* The aggregator *)

\* The aggregator takes a lane, completes a block or leaves.
LEMMA AggregatorStep == ASSUME IInv, Aggregator PROVE IInv'
  <1> DEFINE pcs  == {"check", "dequeue", "loadDone", "enqueue", "retry", "exit", "exited"}
             busy == {"enqueue", "retry"}
             d    == cfg.lanes
  <1>1. AggregatorFrame /\ aggregator.pc # "exited"
    BY DEF Aggregator, AggregatorCheck, AggregatorDequeue, AggregatorEmpty, AggregatorLoadDone,
           AggregatorEnqueue, AggregatorRetry, AggregatorExit
  <1>2. UNCHANGED <<runner, ctxDone, ingressQ, ingress, sequencer, replayer, report, blockLog, blocks>>
    BY <1>1 DEF AggregatorFrame, l1vars
  <1>3. Sequenced' = Sequenced  BY <1>2 DEF Sequenced
  <1>4. (Alive(sequencer)' <=> Alive(sequencer)) /\ Produced' = Produced  BY <1>2, <1>3, SameProduced
  <1>5. RunnerInv' /\ IngressInv' /\ SequencerInv' /\ ReportInv'
    <2>1. RunnerInv'  BY <1>2, SameRun DEF IInv
    <2>2. IngressInv'  BY <1>2, IngressKeeps DEF IInv
    <2>3. SequencerInv'  BY <1>2, <1>3, SequencerKeeps DEF IInv
    <2>4. ReportInv'  BY <1>1, <1>2, NotBuilt, ReportKeeps DEF IInv
    <2>5. QED  BY <2>1, <2>2, <2>3, <2>4
  <1>6. /\ RunnerInv /\ AggregatorInv /\ ReplayerInv
        /\ d \in Nat \ {0} /\ TotalBlocks(cfg) \in Nat /\ LaneIds \in Nat \ {0}
    <2>1. RunnerInv /\ AggregatorInv /\ ReplayerInv  BY DEF IInv
    <2>2. d \in Nat \ {0} /\ TotalBlocks(cfg) \in Nat  BY <2>1, Numbers DEF RunnerInv
    <2>3. QED  BY <2>1, <2>2, SetupAssumption
  <1>7. /\ IsSeq(laneQ) /\ Len(laneQ) \in Nat
        /\ aggregator = [pc |-> aggregator.pc, commit |-> aggregator.commit]
    BY <1>6, SeqFacts DEF AggregatorInv
  <1>8. /\ cfg' = cfg /\ (LanesFit' <=> LanesFit) /\ (\A n : Batch(n)' = Batch(n))
        /\ (\A c, b : CommitOK(c, b)' <=> CommitOK(c, b))
        /\ (\A st, b, k : PartialOK(st, b, k)' <=> PartialOK(st, b, k))
    BY <1>2, SameRun
  <1>9. /\ IsSeq(commitQ) /\ Len(commitQ) \in Nat /\ Len(blockLog) \in Nat /\ Held \in {0, 1}
        /\ Committed \in Nat /\ Committed <= TotalBlocks(cfg)
    BY <1>6, SeqFacts DEF ReplayerInv, Committed, Held
  <1>10. ASSUME commitQ' = commitQ, AggregatorInv' PROVE IInv'
    <2>1. ReplayerInv'  BY <1>2, <1>6, <1>10, ReplayerKeeps
    <2>2. QED  BY <1>5, <1>10, <2>1 DEF IInv
  <1>11. ASSUME NEW pc \in pcs, aggregator' = [aggregator EXCEPT !.pc = pc], Alive(aggregator),
                pc = "exit" \/ (pc \in busy <=> aggregator.pc \in busy),
                laneQ' = laneQ, commitQ' = commitQ, states' = states
         PROVE  IInv'
    <2>1. aggregator'.pc = pc /\ aggregator'.commit = aggregator.commit
          /\ aggregator' = [pc |-> aggregator'.pc, commit |-> aggregator'.commit]
      BY <1>7, <1>11
    <2>2. Committed' = Committed  BY <1>2, <1>11, SameCommitted
    <2>3. CASE pc = "exit"
      <3>1. ~Alive(aggregator)'  BY <2>1, <2>3 DEF Alive
      <3>2. AggregatorInv'  BY <1>6, <1>11, <2>1, <3>1 DEF AggregatorInv
      <3>3. QED  BY <1>10, <1>11, <3>2
    <2>4. CASE pc # "exit"
      <3>1. ASSUME NEW n \in Nat, AggregatorAt(n) PROVE AggregatorAt(n)'
        <4>1. CASE LanesFit /\ pc \in busy
          BY <1>8, <1>11, <2>1, <2>2, <2>4, <3>1, <4>1 DEF AggregatorAt
        <4>2. CASE LanesFit /\ pc \notin busy
          BY <1>8, <1>11, <2>1, <2>2, <2>4, <3>1, <4>2 DEF AggregatorAt
        <4>3. CASE ~LanesFit
          BY <1>8, <1>11, <2>1, <2>2, <2>4, <3>1, <4>3 DEF AggregatorAt
        <4>4. QED  BY <4>1, <4>2, <4>3
      <3>2. ASSUME NEW n \in Nat, LanesAt(n) PROVE LanesAt(n)'
        BY <1>4, <1>8, <1>11, <3>2 DEF LanesAt
      <3>3. AggregatorInv'  BY <1>6, <1>11, <2>1, <3>1, <3>2 DEF AggregatorInv
      <3>4. QED  BY <1>10, <1>11, <3>3
    <2>5. QED  BY <2>3, <2>4
  <1>12. CASE AggregatorCheck
    <2>1. PICK pc \in {"exit", "dequeue"} : aggregator' = [aggregator EXCEPT !.pc = pc]
      BY <1>12 DEF AggregatorCheck
    <2>2. aggregator.pc = "check" /\ laneQ' = laneQ /\ commitQ' = commitQ /\ states' = states
      BY <1>12 DEF AggregatorCheck
    <2>3. QED  BY <1>11, <2>1, <2>2 DEF Alive
  <1>13. CASE AggregatorEmpty
    <2>1. /\ aggregator.pc = "dequeue" /\ laneQ' = laneQ /\ commitQ' = commitQ /\ states' = states
          /\ aggregator' = [aggregator EXCEPT !.pc = "loadDone"]
      BY <1>13 DEF AggregatorEmpty
    <2>2. QED  BY <1>11, <2>1 DEF Alive
  <1>14. CASE AggregatorLoadDone
    <2>1. PICK pc \in {"exit", "check"} : aggregator' = [aggregator EXCEPT !.pc = pc]
      BY <1>14 DEF AggregatorLoadDone
    <2>2. aggregator.pc = "loadDone" /\ laneQ' = laneQ /\ commitQ' = commitQ /\ states' = states
      BY <1>14 DEF AggregatorLoadDone
    <2>3. QED  BY <1>11, <2>1, <2>2 DEF Alive
  <1>15. CASE AggregatorRetry
    <2>1. PICK pc \in {"exit", "enqueue"} : aggregator' = [aggregator EXCEPT !.pc = pc]
      BY <1>15 DEF AggregatorRetry
    <2>2. aggregator.pc = "retry" /\ laneQ' = laneQ /\ commitQ' = commitQ /\ states' = states
      BY <1>15 DEF AggregatorRetry
    <2>3. QED  BY <1>11, <2>1, <2>2 DEF Alive
  <1>16. CASE AggregatorExit
    <2>1. /\ aggregator' = [pc |-> "exited", commit |-> <<>>]
          /\ laneQ' = laneQ /\ commitQ' = commitQ
      BY <1>16 DEF AggregatorExit
    <2>2. ~Alive(aggregator)'  BY <2>1 DEF Alive
    <2>3. AggregatorInv'  BY <1>7, <2>1, <2>2 DEF AggregatorInv
    <2>4. QED  BY <1>10, <2>1, <2>3
  <1>17. CASE AggregatorEnqueue
    <2>1. aggregator.pc = "enqueue" /\ laneQ' = laneQ  BY <1>17 DEF AggregatorEnqueue
    <2>2. CASE /\ commitQ' = commitQ /\ states' = states
               /\ aggregator' = [aggregator EXCEPT !.pc = "retry"]
      BY <1>11, <2>1, <2>2 DEF Alive
    <2>3. ASSUME commitQ' = Append(commitQ, aggregator.commit),
                 states' = [b \in DOMAIN states \ {aggregator.commit.block} |-> states[b]],
                 aggregator' = [pc |-> "check", commit |-> <<>>]
          PROVE  IInv'
      <3>1. PICK n \in Nat : LanesAt(n) /\ AggregatorAt(n)  BY <1>6, <2>1 DEF AggregatorInv, Alive
      <3> DEFINE B == Committed
      <3>2. /\ LanesFit /\ CommitOK(aggregator.commit, B)
            /\ n = (B + 1) * d /\ DOMAIN states = {B}
        BY <2>1, <3>1 DEF AggregatorAt
      <3>3. /\ IsSeq(commitQ') /\ Len(commitQ') = Len(commitQ) + 1
            /\ DOMAIN commitQ = 1..Len(commitQ) /\ DOMAIN commitQ' = 1..(Len(commitQ) + 1)
            /\ \A i \in 1..Len(commitQ) : commitQ'[i] = commitQ[i]
            /\ commitQ'[Len(commitQ) + 1] = aggregator.commit
        BY <1>9, <2>3, AppendFacts
      <3>4. Held' = Held /\ Committed' = B + 1
        <4>1. Held' = Held  BY <1>2 DEF Held
        <4>2. QED  BY <1>2, <1>9, <3>3, <4>1 DEF Committed
      <3>5. B + 1 <= TotalBlocks(cfg)
        <4>1. (B + 1) * d <= TotalBlocks(cfg) * d
          <5>1. n + Len(laneQ) <= TotalBlocks(cfg) * d  BY <3>1 DEF LanesAt
          <5>2. TotalBlocks(cfg) * d \in Nat  BY <1>6
          <5>3. QED  BY <1>7, <3>2, <5>1, <5>2
        <4>2. SUFFICES ASSUME B + 1 > TotalBlocks(cfg) PROVE FALSE  BY <1>6, <1>9
        <4>3. B + 1 \in Nat  BY <1>9
        <4>4. (B + 1) * d >= TotalBlocks(cfg) * d + d  BY <1>6, <4>2, <4>3, MoreRows
        <4>5. (B + 1) * d \in Nat /\ TotalBlocks(cfg) * d \in Nat  BY <1>6, <4>3
        <4>6. QED  BY <1>6, <4>1, <4>4, <4>5
      <3>6. ReplayerInv'
        <4>1. ASSUME NEW i \in DOMAIN commitQ' PROVE CommitOK(commitQ'[i], Len(blockLog) + Held + i - 1)
          <5>1. CASE i \in 1..Len(commitQ)  BY <1>6, <3>3, <5>1 DEF ReplayerInv
          <5>2. CASE i = Len(commitQ) + 1
            <6>1. Len(blockLog) + Held + i - 1 = B  BY <1>9, <5>2 DEF Committed
            <6>2. QED  BY <3>2, <3>3, <5>2, <6>1
          <5>3. QED  BY <3>3, <5>1, <5>2
        <4>2. ASSUME NEW i PROVE LogOK(i)' <=> LogOK(i)  BY <1>2, <1>8 DEF LogOK
        <4>3. QED  BY <1>2, <1>6, <1>8, <3>3, <3>4, <3>5, <4>1, <4>2 DEF ReplayerInv
      <3>7. AggregatorAt(n)'
        <4>1. PlaceIs(n, d, B + 1, 0)  BY <1>6, <1>9, <3>2 DEF PlaceIs
        <4>2. n \div d = B + 1 /\ n % d = 0
          <5> HIDE DEF d, B
          <5>1. QED  BY <1>6, <4>1, Divided
        <4>3. aggregator.commit.block = B  BY <3>2 DEF CommitOK
        <4>4. DOMAIN states' = {}  BY <2>3, <3>2, <4>3
        <4>5. aggregator'.pc = "check" /\ aggregator'.commit = <<>>  BY <2>3
        <4>6. QED  BY <1>8, <3>2, <3>4, <4>2, <4>4, <4>5 DEF AggregatorAt
      <3>8. LanesAt(n)'  BY <1>4, <1>8, <2>1, <3>1 DEF LanesAt
      <3>9. AggregatorInv'  BY <1>7, <2>1, <2>3, <3>7, <3>8 DEF AggregatorInv
      <3>10. QED  BY <1>5, <3>6, <3>9 DEF IInv
    <2>4. QED  BY <1>17, <2>2, <2>3 DEF AggregatorEnqueue
  <1>18. CASE AggregatorDequeue
    <2> DEFINE batch == Head(laneQ)
               b     == batch.block
               base  == IF b \in DOMAIN states THEN states[b] ELSE NewState(batch)
               st    == AddLane(base, batch)
               whole == [phase |-> st.phase, block |-> b, commitment |-> L1!CommitmentFromTxs(b, st.txs),
                         txCount |-> Len(st.txs), txs |-> st.txs]
    <2>1. /\ aggregator.pc = "dequeue" /\ laneQ # <<>> /\ laneQ' = Tail(laneQ) /\ commitQ' = commitQ
          /\ states' = [x \in DOMAIN states \cup {b} |-> IF x = b THEN st ELSE states[x]]
          /\ aggregator' = IF Cardinality(st.lanes) = d
                           THEN [pc |-> "enqueue", commit |-> whole]
                           ELSE [aggregator EXCEPT !.pc = "check"]
      BY <1>18 DEF AggregatorDequeue
    <2>2. PICK n \in Nat : LanesAt(n) /\ AggregatorAt(n)  BY <1>6, <2>1 DEF AggregatorInv, Alive
    <2> DEFINE q == n \div d
               r == n % d
    <2>3. q \in Nat /\ r \in Nat /\ r \in 0..(d - 1) /\ n = q * d + r
      <3>1. q \in Nat /\ r \in 0..(d - 1) /\ n = q * d + r  BY <1>6, Division
      <3> HIDE DEF q, r
      <3>2. r \in Nat  BY <1>6, <3>1
      <3>3. QED  BY <3>1, <3>2
    <2>4. /\ IsSeq(laneQ') /\ Len(laneQ) \in Nat \ {0} /\ Len(laneQ') = Len(laneQ) - 1
          /\ DOMAIN laneQ = 1..Len(laneQ) /\ DOMAIN laneQ' = 1..(Len(laneQ) - 1)
          /\ \A i \in 1..(Len(laneQ) - 1) : laneQ'[i] = laneQ[i + 1]
          /\ batch = laneQ[1]
      BY <1>7, <2>1, TailFacts
    <2>5. /\ b = q /\ batch.phase = PhaseOf(cfg, q) /\ batch.lane = r % LaneIds
          /\ batch.payload = LaneOf(TxsOf(cfg, q), r)
      <3>1. laneQ[1] = Batch(n + 1 - 1) /\ n + 1 - 1 = n  BY <2>2, <2>4 DEF LanesAt
      <3>2. batch = Batch(n)  BY <2>4, <3>1
      <3>3. QED  BY <3>2 DEF Batch
    <2>6. LanesAt(n + 1)'
      <3>1. ASSUME NEW i \in DOMAIN laneQ' PROVE laneQ'[i] = Batch((n + 1) + i - 1)
        <4>1. i \in Nat /\ i + 1 \in DOMAIN laneQ /\ laneQ'[i] = laneQ[i + 1]  BY <2>4
        <4>2. laneQ[i + 1] = Batch(n + (i + 1) - 1)  BY <2>2, <4>1 DEF LanesAt
        <4>3. n + (i + 1) - 1 = (n + 1) + i - 1  BY <4>1
        <4>4. QED  BY <4>1, <4>2, <4>3
      <3>2. (n + 1) + Len(laneQ') = n + Len(laneQ)  BY <2>4
      <3>3. QED  BY <1>4, <1>8, <2>2, <3>1, <3>2 DEF LanesAt
    <2>7. Committed' = Committed  BY <1>2, <2>1, SameCommitted
    <2>8. ASSUME aggregator' = [aggregator EXCEPT !.pc = "check"]
          PROVE  /\ aggregator'.pc = "check" /\ aggregator'.commit = aggregator.commit
                 /\ aggregator' = [pc |-> aggregator'.pc, commit |-> aggregator'.commit]
      BY <1>7, <2>8
    <2>9. DOMAIN states' = DOMAIN states \cup {q} /\ states'[q] = st
          /\ \A x \in DOMAIN states : x # q => states'[x] = states[x]
      <3> HIDE DEF st, q, base, batch
      <3>1. QED  BY <2>1, <2>5
    <2>10. AggregatorAt(n + 1)' /\ aggregator'.pc \in {"enqueue", "check"}
           /\ aggregator' = [pc |-> aggregator'.pc, commit |-> aggregator'.commit]
      <3>1. CASE LanesFit
        <4>1. /\ aggregator.commit = <<>> /\ q = Committed
              /\ DOMAIN states = IF r = 0 THEN {} ELSE {q}
              /\ r # 0 => PartialOK(states[q], q, r)
          BY <2>1, <2>2, <3>1 DEF AggregatorAt
        <4>2. PartialOK(base, q, r)
          <5>1. CASE r = 0
            <6>1. base = NewState(batch)  BY <2>5, <4>1, <5>1
            <6> HIDE DEF base, batch, q, r
            <6>2. QED  BY <1>6, <2>5, <5>1, <6>1, PartialStart
          <5>2. CASE r # 0  BY <2>5, <4>1, <5>2
          <5>3. QED  BY <5>1, <5>2
        <4>3. batch.lane = r
          <5>1. r < LaneIds  BY <1>6, <2>3, <3>1 DEF LanesFit
          <5>2. PlaceIs(r, LaneIds, 0, r)  BY <1>6, <2>3, <5>1 DEF PlaceIs
          <5>3. r % LaneIds = r
            <6> HIDE DEF r
            <6>1. QED  BY <1>6, <5>2, Divided
          <5>4. QED  BY <2>5, <5>3
        <4>4. PartialOK(st, q, r + 1)
          <5> HIDE DEF base, batch, q, r
          <5>1. QED  BY <1>6, <2>3, <2>5, <4>2, <4>3, PartialStep
        <4>5. st.lanes = 0..r /\ Cardinality(st.lanes) = r + 1
          <5> HIDE DEF st, q, r
          <5>1. st \in [phase : {PhaseOf(cfg, q)}, lanes : {0..((r + 1) - 1)}, txs : {st.txs}]
            BY <4>4 DEF PartialOK
          <5>2. (r + 1) - 1 = r  BY <2>3
          <5>3. st.lanes = 0..r  BY <5>1, <5>2
          <5>4. 0 \in Int /\ r \in Int  BY <2>3
          <5>5. Cardinality(0..r) = IF 0 > r THEN 0 ELSE r - 0 + 1  BY <5>4, FS_Interval
          <5>6. QED  BY <2>3, <5>3, <5>5
        <4>6. DOMAIN states' = {q}  BY <2>9, <4>1
        <4>7. CASE r + 1 = d
          <5>1. aggregator' = [pc |-> "enqueue", commit |-> whole]  BY <2>1, <4>5, <4>7
          <5>2. CommitOK(whole, q)
            <6> HIDE DEF st
            <6>1. PartialOK(st, q, d)  BY <4>4, <4>7
            <6>2. Len(st.txs) = Len(TxsOf(cfg, q)) /\ Range(st.txs) = Range(TxsOf(cfg, q))
              BY <1>6, <6>1, PartialDone
            <6>3. IsSeq(st.txs) /\ st.phase = PhaseOf(cfg, q)  BY <6>1 DEF PartialOK
            <6>4. /\ whole.phase = st.phase /\ whole.block = q /\ whole.commitment = <<q, st.txs>>
                  /\ whole.txCount = Len(st.txs) /\ whole.txs = st.txs
              BY <2>5 DEF L1!CommitmentFromTxs
            <6>5. whole # <<>>  OBVIOUS
            <6> HIDE DEF whole
            <6>6. QED  BY <6>2, <6>3, <6>4, <6>5 DEF CommitOK
          <5>3. aggregator'.pc = "enqueue" /\ aggregator'.commit = whole  BY <5>1
          <5>4. n + 1 = (q + 1) * d  BY <1>6, <4>7, NextOver
          <5>5. AggregatorAt(n + 1)'
            <6> HIDE DEF whole, q
            <6>1. QED  BY <1>8, <2>7, <3>1, <4>1, <4>6, <5>2, <5>3, <5>4 DEF AggregatorAt
          <5>6. QED  BY <5>1, <5>3, <5>5
        <4>8. CASE r + 1 < d
          <5>1. aggregator' = [aggregator EXCEPT !.pc = "check"]  BY <1>6, <2>1, <2>3, <4>5, <4>8
          <5>2. (n + 1) \div d = q /\ (n + 1) % d = r + 1  BY <1>6, <4>8, NextOver
          <5>3. r + 1 # 0  BY <2>3
          <5>4. AggregatorAt(n + 1)'
            <6> HIDE DEF st, q, r
            <6>1. QED
              BY <1>8, <2>7, <2>8, <2>9, <3>1, <4>1, <4>4, <4>6, <5>1, <5>2, <5>3 DEF AggregatorAt
          <5>5. QED  BY <2>8, <5>1, <5>4
        <4>9. r + 1 = d \/ r + 1 < d
          <5> HIDE DEF q, r, d
          <5>1. r \in 0..(d - 1) /\ d \in Nat \ {0}  BY <1>6, <2>3
          <5>2. QED  BY <5>1
        <4>10. QED  BY <4>7, <4>8, <4>9
      <3>2. CASE ~LanesFit
        <4> DEFINE ids == 0..(LaneIds - 1)
                   typed(s) == s \in [phase : {s.phase}, lanes : SUBSET ids, txs : {s.txs}]
        <4>1. /\ DOMAIN states = {k \div d : k \in 0..(n - 1)}
              /\ \A x \in DOMAIN states : typed(states[x])
          BY <2>2, <3>2 DEF AggregatorAt
        <4>2. typed(base)
          <5>1. CASE b \in DOMAIN states  BY <4>1, <5>1
          <5>2. CASE b \notin DOMAIN states  BY <5>2 DEF NewState
          <5>3. QED  BY <5>1, <5>2
        <4>3. batch.lane \in ids
          <5> HIDE DEF r
          <5>1. r % LaneIds \in ids  BY <1>6, <2>3, Division
          <5>2. QED  BY <2>5, <5>1
        <4>4. typed(st)
          <5> DEFINE t == ValidTxs(batch.payload)
                     l == batch.lane
                     u == base.txs
                     p == base.phase
          <5>1. st = [base EXCEPT !.lanes = @ \cup {l}, !.txs = @ \o t]  BY DEF AddLane
          <5>2. base \in [phase : {p}, lanes : SUBSET ids, txs : {u}] /\ l \in ids  BY <4>2, <4>3
          <5> HIDE DEF t, l, base, ids, p
          <5>3. [base EXCEPT !.lanes = @ \cup {l}, !.txs = @ \o t]
                    \in [phase : {p}, lanes : SUBSET ids, txs : {u \o t}]
            BY <5>2
          <5> HIDE DEF st
          <5>4. QED  BY <5>1, <5>3
        <4>5. Cardinality(st.lanes) # d
          <5>1. IsFiniteSet(ids) /\ Cardinality(ids) = LaneIds
            <6>1. 0 \in Int /\ LaneIds - 1 \in Int  BY <1>6
            <6>2. IsFiniteSet(ids) /\ Cardinality(ids) = IF 0 > LaneIds - 1 THEN 0 ELSE (LaneIds - 1) - 0 + 1
              BY <6>1, FS_Interval
            <6>3. QED  BY <1>6, <6>2
          <5> HIDE DEF st, ids
          <5>2. st.lanes \in SUBSET ids  BY <4>4
          <5>3. Cardinality(st.lanes) \in Nat /\ Cardinality(st.lanes) <= LaneIds
            BY <5>1, <5>2, FS_Subset, FS_CardinalityType
          <5>4. QED  BY <1>6, <3>2, <5>3 DEF LanesFit
        <4>6. aggregator' = [aggregator EXCEPT !.pc = "check"]  BY <2>1, <4>5
        <4>7. DOMAIN states' = {k \div d : k \in 0..((n + 1) - 1)}
          <5>1. 0..((n + 1) - 1) = 0..(n - 1) \cup {n}  OBVIOUS
          <5> HIDE DEF d
          <5>2. QED  BY <2>9, <4>1, <5>1
        <4>8. \A x \in DOMAIN states' : typed(states'[x])
          <5> HIDE DEF st, q, typed
          <5>1. QED  BY <2>9, <4>1, <4>4
        <4>9. AggregatorAt(n + 1)'
          <5> HIDE DEF st, q
          <5>1. QED  BY <1>8, <2>8, <3>2, <4>6, <4>7, <4>8 DEF AggregatorAt
        <4>10. QED  BY <2>8, <4>6, <4>9
      <3>3. QED  BY <3>1, <3>2
    <2>11. n + 1 \in Nat  OBVIOUS
    <2>12. AggregatorInv'  BY <2>4, <2>6, <2>10, <2>11 DEF AggregatorInv
    <2>13. QED  BY <1>10, <2>1, <2>12
  <1>19. QED
    BY <1>12, <1>13, <1>14, <1>15, <1>16, <1>17, <1>18 DEF Aggregator

-----------------------------------------------------------------------------
(* The replayer *)

\* What the L1 node makes of the next commit: the block is new and its payload is
\* good, so only the proof counts.
LEMMA Submitted ==
    ASSUME RunnerInv, ReplayerInv, ReplayerSubmit
    PROVE  LET b == Len(blockLog) IN
           \E e : /\ blockLog' = Append(blockLog, e)
                  /\ e.block = b /\ e.phase = PhaseOf(cfg, b)
                  /\ e.txCount = Len(TxsOf(cfg, b))
                  /\ Range(e.commitment[2]) = Range(TxsOf(cfg, b))
                  /\ e.finalized = ~Spoilt(runner, b) /\ e.proofVerified = ~Spoilt(runner, b)
                  /\ e.duplicate = FALSE
                  /\ DOMAIN blocks' = IF Spoilt(runner, b) THEN DOMAIN blocks ELSE DOMAIN blocks \cup {b}
  <1> DEFINE b   == Len(blockLog)
             c   == replayer.commit
             req == [phase |-> c.phase, block |-> c.block, commitment |-> c.commitment,
                     proof |-> BuildProofRecord(c.block, c.commitment, ReplayedProof(runner, c.block)),
                     txCount |-> c.txCount, txs |-> c.txs]
             result(e, bs) ==
                /\ blockLog' = Append(blockLog, e)
                /\ e.block = b /\ e.phase = PhaseOf(cfg, b)
                /\ e.txCount = Len(TxsOf(cfg, b))
                /\ Range(e.commitment[2]) = Range(TxsOf(cfg, b))
                /\ e.finalized = ~Spoilt(runner, b) /\ e.proofVerified = ~Spoilt(runner, b)
                /\ e.duplicate = FALSE
                /\ DOMAIN bs = IF Spoilt(runner, b) THEN DOMAIN blocks ELSE DOMAIN blocks \cup {b}
  <1>1. replayer.pc = "submit" /\ L1!SubmitCertifiedBlock(req)  BY DEF ReplayerSubmit
  <1>2. /\ c.block = b /\ c.phase = PhaseOf(cfg, b)
        /\ c.commitment = <<b, c.txs>> /\ c.txCount = Len(c.txs)
        /\ IsSeq(c.txs)
        /\ Len(c.txs) = Len(TxsOf(cfg, b)) /\ Range(c.txs) = Range(TxsOf(cfg, b))
    BY <1>1 DEF ReplayerInv, CommitOK
  <1>3. b \in Nat /\ b \notin DOMAIN blocks
    <2>1. b \in Nat  BY SeqFacts DEF ReplayerInv
    <2> HIDE DEF b
    <2>2. b \notin 0..(b - 1)  BY <2>1
    <2>3. DOMAIN blocks = {x \in 0..(b - 1) : ~Spoilt(runner, x)}  BY DEF ReplayerInv, b
    <2>4. QED  BY <2>1, <2>2, <2>3
  <1>4. /\ req.phase = PhaseOf(cfg, b) /\ req.block = b /\ req.commitment = <<b, c.txs>>
        /\ req.txCount = Len(c.txs) /\ req.txs = c.txs
        /\ req.proof.bytes = ReplayedProof(runner, b)
        /\ req.proof.block = b /\ req.proof.commitment = req.commitment
    BY <1>2 DEF BuildProofRecord
  <1> HIDE DEF req, b, c
  <1>5. ~L1!Known(req)  BY <1>3, <1>4 DEF L1!Known
  <1>6. L1!PayloadOK(req)
    <2>1. ASSUME NEW i \in DOMAIN c.txs PROVE c.txs[i].amount # 0
      <3>1. c.txs[i] \in Range(TxsOf(cfg, b))  BY <1>2 DEF Range
      <3>2. PICK j \in DOMAIN TxsOf(cfg, b) : c.txs[i] = TxsOf(cfg, b)[j]  BY <3>1 DEF Range
      <3>3. TxsOf(cfg, b)[j].amount \in Nat \ {0}  BY BlockTxs DEF RunnerInv
      <3>4. QED  BY <3>2, <3>3
    <2>2. QED  BY <1>4, <2>1 DEF L1!PayloadOK, L1!CommitmentFromTxs
  <1>7. L1!ProofOK(req) <=> ~Spoilt(runner, b)
    <2>1. runner.cfg.proofSeed = ProofSeed  BY DEF RunnerInv, cfg
    <2>2. QED  BY <1>4, <2>1 DEF L1!ProofOK, Spoilt, L1!GenerateProofBytes, GenerateProofBytes
  <1>8. \/ Spoilt(runner, b) /\ L1!SubmitBadProof(req)
        \/ ~Spoilt(runner, b) /\ L1!SubmitAccepted(req)
    BY <1>1, <1>5, <1>6, <1>7
       DEF L1!SubmitCertifiedBlock, L1!SubmitDuplicate, L1!SubmitConflict, L1!SubmitBadPayload,
           L1!SubmitBadProof, L1!SubmitAccepted
  <1>9. <<b, c.txs>>[2] = c.txs  OBVIOUS
  <1>10. CASE Spoilt(runner, b) /\ L1!SubmitBadProof(req)
    <2> DEFINE e == L1!LogEntry(req, FALSE, FALSE, FALSE, FALSE, stateVersion, Len(req.txs))
    <2>1. blockLog' = Append(blockLog, e) /\ blocks' = blocks
      BY <1>10 DEF L1!SubmitBadProof, L1!Respond
    <2>2. /\ e.block = b /\ e.phase = PhaseOf(cfg, b) /\ e.txCount = Len(c.txs)
          /\ e.commitment = <<b, c.txs>>
          /\ e.finalized = FALSE /\ e.proofVerified = FALSE /\ e.duplicate = FALSE
      BY <1>4 DEF L1!LogEntry
    <2> HIDE DEF e
    <2>3. result(e, blocks')  BY <1>2, <1>9, <1>10, <2>1, <2>2
    <2>4. QED  BY <2>3 DEF b
  <1>11. CASE ~Spoilt(runner, b) /\ L1!SubmitAccepted(req)
    <2>0. PICK delta : blockLog' = Append(blockLog, L1!LogEntry(req, TRUE, TRUE, FALSE, TRUE,
                                                                stateVersion + 1, delta))
      BY <1>11 DEF L1!SubmitAccepted, L1!Respond
    <2> DEFINE e == L1!LogEntry(req, TRUE, TRUE, FALSE, TRUE, stateVersion + 1, delta)
    <2>1. blockLog' = Append(blockLog, e) /\ DOMAIN blocks' = DOMAIN blocks \cup {b}
      <3>1. blockLog' = Append(blockLog, e)  BY <2>0
      <3>2. blocks' = [x \in DOMAIN blocks \cup {req.block} |->
                          IF x = req.block THEN L1!Accepted(req, stateVersion + 1) ELSE blocks[x]]
        BY <1>11 DEF L1!SubmitAccepted
      <3>3. QED  BY <1>4, <3>1, <3>2
    <2>2. /\ e.block = b /\ e.phase = PhaseOf(cfg, b) /\ e.txCount = Len(c.txs)
          /\ e.commitment = <<b, c.txs>>
          /\ e.finalized = TRUE /\ e.proofVerified = TRUE /\ e.duplicate = FALSE
      BY <1>4 DEF L1!LogEntry
    <2> HIDE DEF e
    <2>3. result(e, blocks')  BY <1>2, <1>9, <1>11, <2>1, <2>2
    <2>4. QED  BY <2>3 DEF b
  <1>12. QED  BY <1>8, <1>10, <1>11

\* The replayer takes a commit, submits it or leaves.
LEMMA ReplayerStep == ASSUME IInv, Replayer PROVE IInv'
  <1> DEFINE pcs == {"check", "dequeue", "loadDone", "exited"}
  <1>1. ReplayerFrame /\ replayer.pc # "exited"
    BY DEF Replayer, ReplayerCheck, ReplayerDequeue, ReplayerLoadDone, ReplayerSubmit
  <1>2. UNCHANGED <<runner, ctxDone, ingressQ, laneQ, ingress, sequencer, aggregator, states, report>>
    BY <1>1 DEF ReplayerFrame
  <1>3. Sequenced' = Sequenced  BY <1>2 DEF Sequenced
  <1>4. (Alive(sequencer)' <=> Alive(sequencer)) /\ Produced' = Produced  BY <1>2, <1>3, SameProduced
  <1>5. RunnerInv' /\ IngressInv' /\ SequencerInv' /\ ReportInv'
    <2>1. RunnerInv'  BY <1>2, SameRun DEF IInv
    <2>2. IngressInv'  BY <1>2, IngressKeeps DEF IInv
    <2>3. SequencerInv'  BY <1>2, <1>3, SequencerKeeps DEF IInv
    <2>4. ReportInv'  BY <1>1, <1>2, NotBuilt, ReportKeeps DEF IInv
    <2>5. QED  BY <2>1, <2>2, <2>3, <2>4
  <1>6. RunnerInv /\ AggregatorInv /\ ReplayerInv  BY DEF IInv
  <1>7. SUFFICES ReplayerInv' /\ Committed' = Committed
    <2>1. Committed' = Committed => AggregatorInv'  BY <1>2, <1>4, <1>6, AggregatorKeeps
    <2>2. QED  BY <1>5, <2>1 DEF IInv
  <1>8. cfg' = cfg /\ \A c, b : CommitOK(c, b)' <=> CommitOK(c, b)  BY <1>2, SameRun
  <1>9. /\ IsSeq(commitQ) /\ IsSeq(blockLog) /\ Len(commitQ) \in Nat /\ Len(blockLog) \in Nat
        /\ DOMAIN commitQ = 1..Len(commitQ) /\ DOMAIN blockLog = 1..Len(blockLog)
        /\ replayer = [pc |-> replayer.pc, commit |-> replayer.commit]
    BY <1>6, SeqFacts DEF ReplayerInv
  <1>10. ASSUME NEW pc \in pcs, replayer' = [replayer EXCEPT !.pc = pc], replayer.pc # "submit",
                UNCHANGED <<commitQ, blockLog, blocks>>
         PROVE  ReplayerInv' /\ Committed' = Committed
    <2>1. replayer'.pc = pc /\ replayer' = [pc |-> replayer'.pc, commit |-> replayer'.commit]
      BY <1>9, <1>10
    <2>2. Held' = Held  BY <1>10, <2>1 DEF Held
    <2>3. Committed' = Committed  BY <1>10, <2>2 DEF Committed
    <2>4. ASSUME NEW i PROVE LogOK(i)' <=> LogOK(i)  BY <1>2, <1>8, <1>10 DEF LogOK
    <2>5. QED  BY <1>2, <1>6, <1>8, <1>10, <2>1, <2>2, <2>3, <2>4 DEF ReplayerInv
  <1>11. CASE ReplayerCheck
    <2>1. PICK pc \in {"exited", "dequeue"} : replayer' = [replayer EXCEPT !.pc = pc]
      BY <1>11 DEF ReplayerCheck
    <2>2. replayer.pc = "check" /\ UNCHANGED <<commitQ, blockLog, blocks>>
      BY <1>11 DEF ReplayerCheck, l1vars
    <2>3. QED  BY <1>10, <2>1, <2>2
  <1>12. CASE ReplayerLoadDone
    <2>1. PICK pc \in {"exited", "check"} : replayer' = [replayer EXCEPT !.pc = pc]
      BY <1>12 DEF ReplayerLoadDone
    <2>2. replayer.pc = "loadDone" /\ UNCHANGED <<commitQ, blockLog, blocks>>
      BY <1>12 DEF ReplayerLoadDone, l1vars
    <2>3. QED  BY <1>10, <2>1, <2>2
  <1>13. CASE ReplayerDequeue
    <2>1. replayer.pc = "dequeue" /\ UNCHANGED <<blockLog, blocks>>
      BY <1>13 DEF ReplayerDequeue, l1vars
    <2>2. CASE commitQ' = commitQ /\ replayer' = [replayer EXCEPT !.pc = "loadDone"]
      BY <1>10, <2>1, <2>2
    <2>3. ASSUME commitQ # <<>>, commitQ' = Tail(commitQ),
                 replayer' = [pc |-> "submit", commit |-> Head(commitQ)]
          PROVE  ReplayerInv' /\ Committed' = Committed
      <3>1. /\ IsSeq(commitQ') /\ Len(commitQ) \in Nat \ {0} /\ Len(commitQ') = Len(commitQ) - 1
            /\ DOMAIN commitQ' = 1..(Len(commitQ) - 1)
            /\ \A i \in 1..(Len(commitQ) - 1) : commitQ'[i] = commitQ[i + 1]
            /\ Head(commitQ) = commitQ[1]
        BY <1>9, <2>3, TailFacts
      <3>2. Held = 0 /\ Held' = 1  BY <2>1, <2>3 DEF Held
      <3>3. Committed' = Committed  BY <1>9, <2>1, <3>1, <3>2 DEF Committed
      <3>4. CommitOK(Head(commitQ), Len(blockLog))
        <4>1. CommitOK(commitQ[1], Len(blockLog) + Held + 1 - 1)  BY <1>6, <1>9, <3>1 DEF ReplayerInv
        <4>2. Len(blockLog) + Held + 1 - 1 = Len(blockLog)  BY <1>9, <3>2
        <4>3. QED  BY <3>1, <4>1, <4>2
      <3>5. ASSUME NEW i \in DOMAIN commitQ' PROVE CommitOK(commitQ'[i], Len(blockLog) + Held' + i - 1)
        <4>1. i \in Nat /\ i + 1 \in DOMAIN commitQ /\ commitQ'[i] = commitQ[i + 1]  BY <1>9, <3>1
        <4>2. CommitOK(commitQ[i + 1], Len(blockLog) + Held + (i + 1) - 1)
          BY <1>6, <4>1 DEF ReplayerInv
        <4>3. Len(blockLog) + Held + (i + 1) - 1 = Len(blockLog) + Held' + i - 1
          BY <1>9, <3>2, <4>1
        <4>4. QED  BY <4>1, <4>2, <4>3
      <3>6. ASSUME NEW i PROVE LogOK(i)' <=> LogOK(i)  BY <1>2, <1>8, <2>1 DEF LogOK
      <3>7. replayer'.pc = "submit" /\ replayer'.commit = Head(commitQ)
            /\ replayer' = [pc |-> replayer'.pc, commit |-> replayer'.commit]
        BY <2>3
      <3>8. ReplayerInv'
        BY <1>2, <1>6, <1>8, <2>1, <3>1, <3>3, <3>4, <3>5, <3>6, <3>7 DEF ReplayerInv
      <3>9. QED  BY <3>3, <3>8
    <2>4. QED  BY <1>13, <2>2, <2>3 DEF ReplayerDequeue
  <1>14. CASE ReplayerSubmit
    <2> DEFINE b == Len(blockLog)
    <2>1. /\ replayer.pc = "submit" /\ commitQ' = commitQ
          /\ replayer' = [pc |-> "check", commit |-> <<>>]
      BY <1>14 DEF ReplayerSubmit
    <2>2. PICK e : /\ blockLog' = Append(blockLog, e)
                   /\ e.block = b /\ e.phase = PhaseOf(cfg, b)
                   /\ e.txCount = Len(TxsOf(cfg, b))
                   /\ Range(e.commitment[2]) = Range(TxsOf(cfg, b))
                   /\ e.finalized = ~Spoilt(runner, b) /\ e.proofVerified = ~Spoilt(runner, b)
                   /\ e.duplicate = FALSE
                   /\ DOMAIN blocks' = IF Spoilt(runner, b) THEN DOMAIN blocks ELSE DOMAIN blocks \cup {b}
      BY <1>6, <1>14, Submitted
    <2>3. /\ IsSeq(blockLog') /\ Len(blockLog') = b + 1
          /\ DOMAIN blockLog' = 1..(b + 1)
          /\ \A i \in 1..b : blockLog'[i] = blockLog[i]
          /\ blockLog'[b + 1] = e
      BY <1>9, <2>2, AppendFacts
    <2>4. Held = 1 /\ Held' = 0  BY <2>1 DEF Held
    <2>5. Committed' = Committed  BY <1>9, <2>1, <2>3, <2>4 DEF Committed
    <2>6. ASSUME NEW i \in DOMAIN blockLog' PROVE LogOK(i)'
      <3>1. CASE i \in 1..b
        <4>1. LogOK(i)  BY <1>6, <1>9, <3>1 DEF ReplayerInv
        <4>2. QED  BY <1>2, <1>8, <2>3, <3>1, <4>1 DEF LogOK
      <3>2. CASE i = b + 1
        <4>1. i - 1 = b  BY <1>9, <3>2
        <4>2. QED  BY <1>2, <1>8, <2>2, <2>3, <3>2, <4>1 DEF LogOK
      <3>3. QED  BY <1>9, <2>3, <3>1, <3>2
    <2>7. DOMAIN blocks' = {x \in 0..((b + 1) - 1) : ~Spoilt(runner, x)}
      <3>1. DOMAIN blocks = {x \in 0..(b - 1) : ~Spoilt(runner, x)} /\ b \in Nat  BY <1>6, <1>9 DEF ReplayerInv
      <3> HIDE DEF b
      <3>2. 0..((b + 1) - 1) = 0..(b - 1) \cup {b}  BY <3>1
      <3>3. QED  BY <2>2, <3>1, <3>2
    <2>8. ASSUME NEW i \in DOMAIN commitQ' PROVE CommitOK(commitQ'[i], Len(blockLog') + Held' + i - 1)
      <3>1. CommitOK(commitQ[i], b + Held + i - 1)  BY <1>6, <2>1 DEF ReplayerInv
      <3>2. b + Held + i - 1 = Len(blockLog') + Held' + i - 1  BY <1>9, <2>1, <2>3, <2>4
      <3>3. QED  BY <2>1, <3>1, <3>2
    <2>9. ReplayerInv'
      BY <1>2, <1>6, <1>8, <2>1, <2>3, <2>5, <2>6, <2>7, <2>8 DEF ReplayerInv
    <2>10. QED  BY <2>5, <2>9
  <1>15. QED  BY <1>11, <1>12, <1>13, <1>14 DEF Replayer

-----------------------------------------------------------------------------
(* The invariant holds *)

\* No goroutine has been started, and nothing is queued.
LEMMA InvariantStarts == Init => IInv
  <1> SUFFICES ASSUME Init PROVE IInv  OBVIOUS
  <1>1. RunnerInv
    <2>1. PICK s \in Setups : Validate(s.cfg) /\ runner = NewRunner(s.cfg, s.dataset)  BY DEF Init
    <2>2. cfg = s.cfg  BY <2>1 DEF cfg, NewRunner
    <2>3. QED  BY <2>1, <2>2, SetupAssumption DEF RunnerInv
  <1>2. /\ cfg.lanes \in Nat \ {0} /\ TotalBlocks(cfg) \in Nat
        /\ PhaseBlocks(cfg, cfg.warmup) \in Nat /\ PhaseBlocks(cfg, cfg.certification) \in Nat
    BY <1>1, Numbers DEF RunnerInv
  <1>3. IsSeq(<<>>) /\ Len(<<>>) = 0 /\ DOMAIN <<>> = {}  BY DEF IsSeq
  <1>4. /\ ingress.pc = "check" /\ ingress.phase = "warmup" /\ ingress.next = 0
        /\ ingress.left = PhaseBlocks(cfg, cfg.warmup)
        /\ ingress = [pc |-> "check", phase |-> "warmup",
                      left |-> PhaseBlocks(cfg, cfg.warmup), next |-> 0]
        /\ ingressQ = <<>> /\ laneQ = <<>> /\ commitQ = <<>> /\ blockLog = <<>> /\ blocks = <<>>
        /\ states = <<>> /\ report = NoReport
        /\ sequencer = [pc |-> "check", job |-> <<>>, lane |-> 0]
        /\ aggregator = [pc |-> "check", commit |-> <<>>]
        /\ replayer = [pc |-> "check", commit |-> <<>>]
    BY DEF Init, L1!Init
  <1>5. IngressInv
    <2>1. OnSchedule  BY <1>2, <1>4 DEF OnSchedule
    <2>2. QED  BY <1>2, <1>4, <2>1 DEF IngressInv
  <1>6. Sequenced = 0
    <2>1. ingress.next = 0 /\ Len(ingressQ) = 0  BY <1>3, <1>4
    <2>2. QED  BY <2>1 DEF Sequenced
  <1>7. SequencerInv  BY <1>3, <1>4, <1>6 DEF SequencerInv
  <1>8. Committed = 0 /\ Held = 0  BY <1>3, <1>4 DEF Committed, Held
  <1>9. ReplayerInv
    <2>1. 0..(0 - 1) = {}  OBVIOUS
    <2>2. QED  BY <1>2, <1>3, <1>4, <1>8, <2>1 DEF ReplayerInv
  <1>10. AggregatorInv
    <2>1. 0 \div cfg.lanes = 0 /\ 0 % cfg.lanes = 0
      <3>1. PlaceIs(0, cfg.lanes, 0, 0)  BY <1>2 DEF PlaceIs
      <3>2. QED  BY <1>2, <3>1, Divided
    <2>2. Produced = 0  BY <1>2, <1>4, <1>6 DEF Produced
    <2>3. LanesAt(0)
      <3>1. TotalBlocks(cfg) * cfg.lanes \in Nat  BY <1>2
      <3>2. QED  BY <1>3, <1>4, <2>2, <3>1 DEF LanesAt
    <2>4. 0..(0 - 1) = {}  OBVIOUS
    <2>5. AggregatorAt(0)
      <3>1. CASE LanesFit  BY <1>3, <1>4, <1>8, <2>1, <3>1 DEF AggregatorAt
      <3>2. CASE ~LanesFit  BY <1>3, <1>4, <2>4, <3>2 DEF AggregatorAt
      <3>3. QED  BY <3>1, <3>2
    <2>6. QED  BY <1>3, <1>4, <2>3, <2>5 DEF AggregatorInv
  <1>11. ReportInv  BY <1>4 DEF ReportInv, NoReport
  <1>12. QED  BY <1>1, <1>5, <1>7, <1>9, <1>10, <1>11 DEF IInv

\* A step that changes nothing.
LEMMA Stutter == ASSUME IInv, UNCHANGED vars PROVE IInv'
  <1>1. UNCHANGED <<runner, ctxDone, ingressQ, laneQ, commitQ, ingress, sequencer, aggregator, states,
                    replayer, report, blockLog, blocks>>
    BY DEF vars, queues, goroutines, l1vars
  <1>2. RunnerInv' /\ IngressInv'  BY <1>1, SameRun, IngressKeeps DEF IInv
  <1>3. Sequenced' = Sequenced  BY <1>1 DEF Sequenced
  <1>4. SequencerInv' /\ ReplayerInv'  BY <1>1, <1>3, SequencerKeeps, ReplayerKeeps DEF IInv
  <1>5. Committed' = Committed  BY <1>1, SameCommitted
  <1>6. (Alive(sequencer)' <=> Alive(sequencer)) /\ Produced' = Produced  BY <1>1, <1>3, SameProduced
  <1>7. AggregatorInv'  BY <1>1, <1>5, <1>6, AggregatorKeeps DEF IInv
  <1>8. ReportInv'  BY <1>1 DEF IInv, ReportInv
  <1>9. QED  BY <1>2, <1>4, <1>7, <1>8 DEF IInv

\* The invariant holds in every reachable state.
LEMMA InvariantHolds == Spec => []IInv
  <1>1. ASSUME IInv, [Next]_vars PROVE IInv'
    <2>1. CASE Next
      <3>1. CASE Cancel  BY <1>1, <3>1, CancelStep
      <3>2. CASE Main  BY <1>1, <3>2, MainStep
      <3>3. CASE Sequencer  BY <1>1, <3>3, SequencerStep
      <3>4. CASE Aggregator  BY <1>1, <3>4, AggregatorStep
      <3>5. CASE Replayer  BY <1>1, <3>5, ReplayerStep
      <3>6. CASE Returned  BY <1>1, <3>6, Stutter DEF Returned
      <3>7. QED  BY <2>1, <3>1, <3>2, <3>3, <3>4, <3>5, <3>6 DEF Next
    <2>2. CASE UNCHANGED vars  BY <1>1, <2>2, Stutter
    <2>3. QED  BY <1>1, <2>1, <2>2
  <1>2. QED  BY <1>1, InvariantStarts, PTL DEF Spec

-----------------------------------------------------------------------------
(* Every block on its way *)

(***************************************************************************)
(* Whatever the goroutines' interleaving, retries and cancellation: the L1 *)
(* log of runner.go's run is blocks 0, 1, 2, ..., each with the phase, the *)
(* number and the set of transactions that ingress cut for it, and each    *)
(* finalized exactly if its own proof is good.                             *)
(***************************************************************************)
THEOREM BlocksArriveWhole == Spec => []SubmittedWhole
  <1>1. ASSUME IInv PROVE SubmittedWhole
    <2>1. IsSeq(blockLog) /\ \A i \in DOMAIN blockLog : LogOK(i)  BY <1>1 DEF IInv, ReplayerInv
    <2>2. QED  BY <2>1 DEF SubmittedWhole, LogOK
  <1>2. QED  BY <1>1, InvariantHolds, PTL

\* A block whose first lane batch is still queued.
LEMMA StillQueued ==
    ASSUME RunnerInv, AggregatorInv, NEW n \in Nat, LanesAt(n), NEW b \in Nat,
           b * cfg.lanes >= n, b * cfg.lanes < n + Len(laneQ)
    PROVE  LanesSplit(b)
  <1> DEFINE d == cfg.lanes
             i == (b * d - n) + 1
  <1>1. d \in Nat \ {0} /\ Len(laneQ) \in Nat /\ DOMAIN laneQ = 1..Len(laneQ)
    BY Numbers, SeqFacts DEF RunnerInv, AggregatorInv
  <1>2. b * d \in Nat  BY <1>1
  <1>3. i \in DOMAIN laneQ /\ n + i - 1 = b * d
    <2>1. PICK p, m : p = b * d /\ m = Len(laneQ)  OBVIOUS
    <2>2. p \in Nat /\ m \in Nat /\ p >= n /\ p < n + m  BY <1>1, <1>2, <2>1
    <2>3. (p - n) + 1 \in 1..m /\ n + ((p - n) + 1) - 1 = p  BY <2>2
    <2>4. i = (p - n) + 1 /\ DOMAIN laneQ = 1..m  BY <1>1, <2>1
    <2> HIDE DEF i, d
    <2>5. QED  BY <2>1, <2>3, <2>4
  <1>4. laneQ[i] = Batch(b * d)
    <2> HIDE DEF i, d
    <2>1. laneQ[i] = Batch(n + i - 1)  BY <1>3 DEF LanesAt
    <2>2. QED  BY <1>3, <2>1
  <1>5. (b * d) \div d = b
    <2> DEFINE p == b * d
    <2>1. PlaceIs(p, d, b, 0)  BY <1>1, <1>2 DEF PlaceIs
    <2> HIDE DEF p, d
    <2>2. QED  BY <1>1, <2>1, Divided DEF p
  <1>6. Batch(b * d).block = b  BY <1>5 DEF Batch
  <1>7. QED  BY <1>3, <1>4, <1>6 DEF LanesSplit

\* While the three goroutines live, a block that was generated is in some queue, hand or log.
LEMMA OnItsWay ==
    ASSUME IInv, Alive(sequencer), Alive(aggregator), Alive(replayer), NEW b \in 0..(ingress.next - 1)
    PROVE  \/ LanesSplit(b)
           \/ \E i \in DOMAIN ingressQ : ingressQ[i].block = b
           \/ sequencer.job # <<>> /\ sequencer.job.block = b
           \/ aggregator.commit # <<>> /\ aggregator.commit.block = b
           \/ \E i \in DOMAIN commitQ : commitQ[i].block = b
           \/ replayer.pc = "submit" /\ replayer.commit # <<>> /\ replayer.commit.block = b
           \/ \E i \in DOMAIN blockLog : blockLog[i].block = b
  <1> DEFINE d == cfg.lanes
  <1>1. /\ RunnerInv /\ SequencerInv /\ AggregatorInv /\ ReplayerInv
        /\ d \in Nat \ {0} /\ ingress.next \in Nat /\ b \in Nat /\ b < ingress.next
    <2>1. RunnerInv /\ SequencerInv /\ AggregatorInv /\ ReplayerInv /\ IngressInv  BY DEF IInv
    <2>2. d \in Nat \ {0}  BY <2>1, Numbers DEF RunnerInv
    <2>3. ingress.next \in Nat  BY <2>1 DEF IngressInv
    <2>4. QED  BY <2>1, <2>2, <2>3
  <1>2. Sequenced \in Nat /\ Len(ingressQ) \in Nat /\ DOMAIN ingressQ = 1..Len(ingressQ)
    BY <1>1, SeqFacts DEF SequencerInv
  <1>3. CASE b >= Sequenced
    <2> DEFINE i == (b - Sequenced) + 1
    <2>1. i \in DOMAIN ingressQ /\ Sequenced + i - 1 = b
      <3>1. ingress.next = Sequenced + Len(ingressQ)  BY <1>1, <1>2 DEF Sequenced
      <3>2. QED  BY <1>1, <1>2, <1>3, <3>1
    <2> HIDE DEF i
    <2>2. ingressQ[i] = Job(b)
      <3>1. ingressQ[i] = Job(Sequenced + i - 1)  BY <1>1, <2>1 DEF SequencerInv
      <3>2. QED  BY <2>1, <3>1
    <2>3. QED  BY <2>1, <2>2 DEF Job
  <1>4. CASE b < Sequenced /\ sequencer.pc \in {"enqueue", "retry"} /\ b = Sequenced - 1
    <2>1. sequencer.job = Job(b)  BY <1>1, <1>4 DEF SequencerInv
    <2>2. QED  BY <2>1 DEF Job
  <1>5. CASE b < Sequenced /\ ~(sequencer.pc \in {"enqueue", "retry"} /\ b = Sequenced - 1)
    <2>1. PICK n \in Nat : LanesAt(n) /\ AggregatorAt(n)  BY <1>1 DEF AggregatorInv
    <2>2. n + Len(laneQ) = Produced  BY <2>1 DEF LanesAt
    <2>3. b * d < n + Len(laneQ)
      <3>1. CASE sequencer.pc \in {"enqueue", "retry"}
        <4>1. Produced = (Sequenced - 1) * d + sequencer.lane /\ sequencer.lane \in 0..(d - 1)
          BY <1>1, <3>1 DEF Produced, SequencerInv
        <4>2. Sequenced - 1 \in Nat /\ Sequenced - 1 > b  BY <1>1, <1>2, <1>5, <3>1
        <4>3. (Sequenced - 1) * d >= b * d + d  BY <1>1, <4>2, MoreRows
        <4>4. (Sequenced - 1) * d \in Nat /\ b * d \in Nat  BY <1>1, <4>2
        <4>5. QED  BY <1>1, <2>2, <4>1, <4>3, <4>4
      <3>2. CASE sequencer.pc \notin {"enqueue", "retry"}
        <4>1. Produced = Sequenced * d  BY <3>2 DEF Produced
        <4>2. Sequenced * d >= b * d + d  BY <1>1, <1>2, <1>5, MoreRows
        <4>3. Sequenced * d \in Nat /\ b * d \in Nat  BY <1>1, <1>2
        <4>4. QED  BY <1>1, <2>2, <4>1, <4>2, <4>3
      <3>3. QED  BY <3>1, <3>2
    <2>4. b * d >= n => LanesSplit(b)  BY <1>1, <2>1, <2>3, StillQueued
    <2>5. /\ Len(commitQ) \in Nat /\ DOMAIN commitQ = 1..Len(commitQ)
          /\ Len(blockLog) \in Nat /\ DOMAIN blockLog = 1..Len(blockLog)
          /\ Held \in {0, 1} /\ Committed \in Nat
      BY <1>1, SeqFacts DEF ReplayerInv, Held, Committed
    <2>6. CASE b < Committed
      <3>1. CASE b < Len(blockLog)
        <4>1. b + 1 \in DOMAIN blockLog /\ (b + 1) - 1 = b  BY <1>1, <2>5, <3>1
        <4>2. LogOK(b + 1)  BY <1>1, <4>1 DEF ReplayerInv
        <4>3. blockLog[b + 1].block = b  BY <4>1, <4>2 DEF LogOK
        <4>4. QED  BY <4>1, <4>3
      <3>2. CASE b = Len(blockLog) /\ Held = 1
        <4>1. replayer.pc = "submit"  BY <3>2 DEF Held
        <4>2. CommitOK(replayer.commit, b)  BY <1>1, <3>2, <4>1 DEF ReplayerInv
        <4>3. QED  BY <4>1, <4>2 DEF CommitOK
      <3>3. CASE b >= Len(blockLog) + Held
        <4> DEFINE i == (b - (Len(blockLog) + Held)) + 1
        <4>1. i \in DOMAIN commitQ /\ Len(blockLog) + Held + i - 1 = b
          BY <1>1, <2>5, <2>6, <3>3 DEF Committed
        <4> HIDE DEF i
        <4>2. CommitOK(commitQ[i], b)
          <5>1. CommitOK(commitQ[i], Len(blockLog) + Held + i - 1)  BY <1>1, <4>1 DEF ReplayerInv
          <5>2. QED  BY <4>1, <5>1
        <4>3. QED  BY <4>1, <4>2 DEF CommitOK
      <3>4. b < Len(blockLog) \/ (b = Len(blockLog) /\ Held = 1) \/ b >= Len(blockLog) + Held
        <4>1. b \in Nat /\ Len(blockLog) \in Nat /\ (Held = 0 \/ Held = 1)  BY <1>1, <2>5
        <4>2. QED  BY <4>1
      <3>5. QED  BY <3>1, <3>2, <3>3, <3>4
    <2>7. CASE b >= Committed /\ ~LanesFit
      <3>1. CASE b * d < n
        <4> DEFINE p == b * d
        <4>1. p \in 0..(n - 1)  BY <1>1, <3>1
        <4>2. PlaceIs(p, d, b, 0)  BY <1>1 DEF PlaceIs
        <4>3. p \div d = b
          <5> HIDE DEF p, d
          <5>1. QED  BY <1>1, <4>2, Divided
        <4>4. DOMAIN states = {k \div d : k \in 0..(n - 1)}  BY <2>1, <2>7 DEF AggregatorAt
        <4> HIDE DEF p
        <4>5. b \in DOMAIN states  BY <4>1, <4>3, <4>4
        <4>6. QED  BY <4>5 DEF LanesSplit
      <3>2. CASE b * d >= n  BY <2>4, <3>2
      <3>3. b * d \in Nat  BY <1>1
      <3>4. QED  BY <3>1, <3>2, <3>3
    <2>8. ASSUME b > Committed, NEW m \in Nat, m <= Committed * d + d, n = m PROVE LanesSplit(b)
      <3>1. b * d >= Committed * d + d  BY <1>1, <2>5, <2>8, MoreRows
      <3>2. b * d \in Nat /\ Committed * d \in Nat  BY <1>1, <2>5
      <3>3. QED  BY <1>1, <2>4, <2>8, <3>1, <3>2
    <2>9. CASE b >= Committed /\ LanesFit /\ aggregator.pc \in {"enqueue", "retry"}
      <3>1. CommitOK(aggregator.commit, Committed) /\ n = (Committed + 1) * d
        BY <2>1, <2>9 DEF AggregatorAt
      <3>2. CASE b = Committed  BY <3>1, <3>2 DEF CommitOK
      <3>3. CASE b > Committed
        <4>1. (Committed + 1) * d = Committed * d + d /\ Committed * d \in Nat  BY <1>1, <2>5
        <4>2. n <= Committed * d + d  BY <1>1, <3>1, <4>1
        <4>3. QED  BY <2>8, <3>3, <4>2
      <3>4. QED  BY <1>1, <2>5, <2>9, <3>2, <3>3
    <2>10. CASE b >= Committed /\ LanesFit /\ aggregator.pc \notin {"enqueue", "retry"}
      <3>1. /\ n \div d = Committed
            /\ DOMAIN states = IF n % d = 0 THEN {} ELSE {Committed}
        BY <2>1, <2>10 DEF AggregatorAt
      <3>2. n % d \in 0..(d - 1) /\ n = Committed * d + (n % d)  BY <1>1, <3>1, Division
      <3> DEFINE r == n % d
      <3>3. r \in 0..(d - 1) /\ n = Committed * d + r /\ DOMAIN states = IF r = 0 THEN {} ELSE {Committed}
        BY <3>1, <3>2
      <3> HIDE DEF r
      <3>4. CASE b = Committed /\ r # 0
        <4>1. b \in DOMAIN states  BY <3>3, <3>4
        <4>2. QED  BY <4>1 DEF LanesSplit
      <3>5. CASE b = Committed /\ r = 0
        <4>1. b * d \in Nat /\ n = b * d  BY <1>1, <3>3, <3>5
        <4>2. QED  BY <2>4, <4>1
      <3>6. CASE b > Committed
        <4>1. Committed * d \in Nat  BY <1>1, <2>5
        <4>2. n <= Committed * d + d  BY <1>1, <3>3, <4>1
        <4>3. QED  BY <2>8, <3>6, <4>2
      <3>7. QED  BY <1>1, <2>5, <2>10, <3>4, <3>5, <3>6
    <2>11. QED  BY <1>1, <2>5, <2>6, <2>7, <2>9, <2>10
  <1>6. QED  BY <1>1, <1>2, <1>3, <1>4, <1>5

(***************************************************************************)
(* While the sequencer, the aggregator and the replayer of runner.go are   *)
(* all in their loops, every block that ingress has enqueued is in a ring, *)
(* in a goroutine's hands, in the aggregator's map or in the L1 log: no    *)
(* interleaving of full rings and retries loses one.                       *)
(***************************************************************************)
THEOREM NoBlockIsLost == Spec => []NothingLostWhileRunning
  <1>1. ASSUME IInv PROVE NothingLostWhileRunning
    <2>1. SUFFICES ASSUME \A pc \in {sequencer.pc, aggregator.pc, replayer.pc} : pc \notin {"exit", "exited"},
                          NEW b \in 0..(ingress.next - 1)
                   PROVE  LanesSplit(b) \/ \E s \in DOMAIN Stages(b) : Stages(b)[s]
      BY DEF NothingLostWhileRunning
    <2>2. Alive(sequencer) /\ Alive(aggregator) /\ Alive(replayer)  BY <2>1 DEF Alive
    <2>3. DOMAIN Stages(b) = 1..6  BY DEF Stages
    <2>4. \/ LanesSplit(b) \/ Stages(b)[1] \/ Stages(b)[2] \/ Stages(b)[3]
          \/ Stages(b)[4] \/ Stages(b)[5] \/ Stages(b)[6]
      BY <1>1, <2>1, <2>2, OnItsWay DEF Stages
    <2>5. QED  BY <2>3, <2>4
  <1>2. QED  BY <1>1, InvariantHolds, PTL

-----------------------------------------------------------------------------
(* The verdict *)

\* Products grow with their factors.
LEMMA Below ==
    ASSUME NEW x \in Nat, NEW X \in Nat, NEW y \in Nat, x <= X
    PROVE  x * y \in Nat /\ X * y \in Nat /\ x * y <= X * y /\ (x < X => x * y + y <= X * y)
  <1>1. PICK z \in Nat : X = x + z
    <2>1. X - x \in Nat /\ X = x + (X - x)  OBVIOUS
    <2>2. QED  BY <2>1
  <1>2. X * y = x * y + z * y /\ x * y \in Nat /\ z * y \in Nat  BY <1>1
  <1>3. ASSUME x < X PROVE x * y + y <= X * y
    <2>1. PICK v \in Nat : z = 1 + v
      <3>1. z - 1 \in Nat /\ z = 1 + (z - 1)  BY <1>1, <1>3
      <3>2. QED  BY <3>1
    <2>2. z * y = y + v * y /\ v * y \in Nat  BY <2>1
    <2>3. QED  BY <1>2, <2>2
  <1>4. QED  BY <1>2, <1>3

\* A product of two numbers within their limits only reaches that of the limits if
\* both do.
LEMMA TightProduct ==
    ASSUME NEW x \in Nat, NEW X \in Nat \ {0}, NEW y \in Nat, NEW Y \in Nat \ {0},
           x <= X, y <= Y, x * y >= X * Y
    PROVE  x = X /\ y = Y
  <1>1. x * y \in Nat /\ X * Y \in Nat /\ X * y \in Nat /\ x * y <= X * y
        /\ (x < X => x * y + y <= X * y)
    BY Below
  <1>2. y * X \in Nat /\ Y * X \in Nat /\ y * X <= Y * X /\ (y < Y => y * X + X <= Y * X)  BY Below
  <1>3. y * X = X * y /\ Y * X = X * Y  OBVIOUS
  <1>4. y = Y  BY <1>1, <1>2, <1>3
  <1>5. x = X  BY <1>1, <1>3, <1>4
  <1>6. QED  BY <1>4, <1>5

\* What rounding down leaves of the configured rate and duration.
LEMMA Rounded ==
    ASSUME NEW c, ConfigTyped(c), Validate(c)
    PROVE  LET T  == TxPerBlock(c, c.certification.tps)
               C  == BlocksForPhase(c, c.certification)
               X  == c.certification.tps * c.blockTimeMillis
               Y  == c.certification.seconds * 1000
           IN  /\ T \in Nat /\ C \in Nat /\ X \in Nat \ {0} /\ Y \in Nat \ {0}
               /\ T * 1000 <= X /\ C * c.blockTimeMillis <= Y
               /\ Exact(c) <=> T * 1000 = X /\ C * c.blockTimeMillis = Y
               /\ C = PhaseBlocks(c, c.certification)
  <1> DEFINE T  == TxPerBlock(c, c.certification.tps)
             C  == BlocksForPhase(c, c.certification)
             bt == c.blockTimeMillis
             X  == c.certification.tps * bt
             Y  == c.certification.seconds * 1000
             below == <<c.certification.tps, bt>> \in FloatBelow
  <1>1. /\ bt \in Nat \ {0} /\ c.certification.tps \in Nat \ {0} /\ c.certification.seconds \in Nat \ {0}
        /\ T \in Nat
    BY Numbers
  <1>2. C = PhaseBlocks(c, c.certification)  BY <1>1 DEF PhaseBlocks
  <1>3. X \in Nat \ {0} /\ Y \in Nat \ {0}
    <2> DEFINE u == c.certification.tps
               w == c.certification.seconds
    <2>1. u \in Nat \ {0} /\ w \in Nat \ {0}  BY <1>1
    <2> HIDE DEF u, w, bt
    <2>2. u * bt >= 1 * bt /\ u * bt \in Nat
      <3>1. 1 <= u /\ 1 \in Nat  BY <2>1
      <3>2. QED  BY <1>1, <2>1, <3>1, Below
    <2>3. u * bt \in Nat \ {0} /\ w * 1000 \in Nat \ {0}  BY <1>1, <2>1, <2>2
    <2>4. QED  BY <2>3 DEF u, w
  <1>4. T = IF below THEN (X \div 1000) - 1 ELSE X \div 1000  BY DEF TxPerBlock
  <1>5. C = Y \div bt  BY DEF BlocksForPhase
  <1>6. Exact(c) <=> Y % bt = 0 /\ X % 1000 = 0 /\ ~below  BY DEF Exact
  <1> HIDE DEF T, C, bt, X, Y, below
  <1>7. X \div 1000 \in Nat /\ X % 1000 \in 0..999 /\ X = (X \div 1000) * 1000 + (X % 1000)  BY <1>3
  <1>8. C \in Nat /\ Y % bt \in 0..(bt - 1) /\ Y = C * bt + (Y % bt)  BY <1>1, <1>3, <1>5, Division
  <1>9. C * bt <= Y /\ (C * bt = Y <=> Y % bt = 0)
    <2> DEFINE r == Y % bt
    <2>1. C * bt \in Nat /\ r \in 0..(bt - 1) /\ Y = C * bt + r  BY <1>1, <1>8
    <2> HIDE DEF r
    <2>2. C * bt <= Y /\ (C * bt = Y <=> r = 0)  BY <1>1, <2>1
    <2>3. QED  BY <2>2 DEF r
  <1>10. T * 1000 <= X /\ (T * 1000 = X <=> X % 1000 = 0 /\ ~below)
    <2>1. CASE below
      <3>1. T = (X \div 1000) - 1  BY <1>4, <2>1
      <3>2. QED  BY <1>1, <1>7, <2>1, <3>1
    <2>2. CASE ~below
      <3>1. T = X \div 1000  BY <1>4, <2>2
      <3>2. QED  BY <1>1, <1>7, <2>2, <3>1
    <2>3. QED  BY <2>1, <2>2
  <1>11. QED  BY <1>1, <1>2, <1>3, <1>6, <1>8, <1>9, <1>10 DEF T, C, bt, X, Y

\* m whole blocks are the configured volume only if they are all of them and nothing
\* was rounded.
LEMMA Volume ==
    ASSUME NEW c, ConfigTyped(c), Validate(c),
           NEW m \in Nat, m <= BlocksForPhase(c, c.certification)
    PROVE  TxPerBlock(c, c.certification.tps) * m >= c.certification.tps * c.certification.seconds
               <=> m = BlocksForPhase(c, c.certification) /\ Exact(c)
  <1> DEFINE T  == TxPerBlock(c, c.certification.tps)
             C  == BlocksForPhase(c, c.certification)
             bt == c.blockTimeMillis
             u  == c.certification.tps
             w  == c.certification.seconds
  <1>1. /\ T \in Nat /\ C \in Nat /\ u * bt \in Nat \ {0} /\ w * 1000 \in Nat \ {0}
        /\ T * 1000 <= u * bt /\ C * bt <= w * 1000
        /\ Exact(c) <=> T * 1000 = u * bt /\ C * bt = w * 1000
    BY Rounded
  <1>2. bt \in Nat \ {0} /\ u \in Nat \ {0} /\ w \in Nat \ {0}  BY Numbers
  <1>3. m <= C  OBVIOUS
  <1> HIDE DEF T, C, bt, u, w
  <1>4. ASSUME T * m >= u * w PROVE m = C /\ Exact(c)
    <2>1. m * bt \in Nat /\ C * bt \in Nat /\ m * bt <= C * bt /\ (m < C => m * bt + bt <= C * bt)
      BY <1>1, <1>2, <1>3, Below
    <2>2. (T * 1000) * (m * bt) >= (u * bt) * (w * 1000)
      <3>1. T * m \in Nat /\ u * w \in Nat /\ 1000 * bt \in Nat  BY <1>1, <1>2
      <3>2. (u * w) * (1000 * bt) <= (T * m) * (1000 * bt)  BY <1>4, <3>1, Below
      <3>3. (T * 1000) * (m * bt) = (T * m) * (1000 * bt)  BY <1>1, <1>2
      <3>4. (u * bt) * (w * 1000) = (u * w) * (1000 * bt)  BY <1>2
      <3>5. QED  BY <3>2, <3>3, <3>4
    <2>3. T * 1000 \in Nat /\ m * bt <= w * 1000
      <3>1. T * 1000 \in Nat  BY <1>1
      <3>2. w * 1000 \in Nat  BY <1>1
      <3>3. QED  BY <1>1, <2>1, <3>1, <3>2
    <2>4. T * 1000 = u * bt /\ m * bt = w * 1000
      <3> DEFINE x == T * 1000
                 y == m * bt
                 X == u * bt
                 Y == w * 1000
      <3>1. /\ x \in Nat /\ y \in Nat /\ X \in Nat \ {0} /\ Y \in Nat \ {0}
            /\ x <= X /\ y <= Y /\ x * y >= X * Y
        BY <1>1, <2>1, <2>2, <2>3
      <3> HIDE DEF x, y, X, Y
      <3>2. x = X /\ y = Y  BY <3>1, TightProduct
      <3>3. QED  BY <3>2 DEF x, y, X, Y
    <2>5. w * 1000 \in Nat  BY <1>1
    <2>6. C * bt = w * 1000  BY <1>1, <2>1, <2>4, <2>5
    <2>7. m = C  BY <1>1, <1>2, <1>3, <2>1, <2>4, <2>5, <2>6
    <2>8. QED  BY <1>1, <2>4, <2>6, <2>7
  <1>5. ASSUME m = C, Exact(c) PROVE T * m >= u * w
    <2>1. (T * 1000) * (m * bt) = (u * bt) * (w * 1000)  BY <1>1, <1>5
    <2>2. T * m \in Nat /\ u * w \in Nat /\ 1000 * bt \in Nat \ {0}  BY <1>1, <1>2
    <2>3. (T * m) * (1000 * bt) = (u * w) * (1000 * bt)
      <3>1. (T * 1000) * (m * bt) = (T * m) * (1000 * bt)  BY <1>1, <1>2
      <3>2. (u * bt) * (w * 1000) = (u * w) * (1000 * bt)  BY <1>2
      <3>3. QED  BY <2>1, <3>1, <3>2
    <2> DEFINE x == T * m
               X == u * w
               y == 1000 * bt
    <2>4. x \in Nat /\ X \in Nat /\ y \in Nat \ {0} /\ x * y = X * y  BY <2>2, <2>3
    <2> HIDE DEF x, X, y
    <2>5. ASSUME x < X PROVE FALSE
      <3>1. x * y \in Nat /\ X * y \in Nat /\ x * y + y <= X * y  BY <2>4, <2>5, Below
      <3>2. QED  BY <2>4, <3>1
    <2>6. x >= X  BY <2>4, <2>5
    <2>7. QED  BY <2>6 DEF x, X
  <1>6. QED  BY <1>4, <1>5 DEF T, C, u, w

\* The verdict, in terms of the blocks and of the exact totals.
LEMMA PassIs ==
    ASSUME RunnerInv, ReplayerInv
    PROVE  Pass <=> ~dropped /\ CertificationBlocks(cfg) \subseteq DOMAIN blocks /\ Exact(cfg)
  <1> DEFINE W == PhaseBlocks(cfg, cfg.warmup)
             C == BlocksForPhase(cfg, cfg.certification)
             T == TxPerBlock(cfg, cfg.certification.tps)
             V == VerifiedLog
             m == Cardinality(V)
             slots == (W + 1)..(W + C)
             f == [i \in DOMAIN blockLog |-> blockLog[i].txCount]
  <1>1. ConfigTyped(cfg) /\ Validate(cfg)  BY DEF RunnerInv
  <1>2. /\ W \in Nat /\ C \in Nat /\ T \in Nat /\ C = PhaseBlocks(cfg, cfg.certification)
        /\ TotalBlocks(cfg) = W + C
    <2>1. W \in Nat  BY <1>1, Numbers
    <2>2. C \in Nat /\ T \in Nat /\ C = PhaseBlocks(cfg, cfg.certification)  BY <1>1, Rounded
    <2>3. QED  BY <2>1, <2>2 DEF TotalBlocks
  <1>3. /\ Len(blockLog) \in Nat /\ DOMAIN blockLog = 1..Len(blockLog) /\ Len(blockLog) <= W + C
        /\ \A i \in DOMAIN blockLog : LogOK(i)
        /\ DOMAIN blocks = {b \in 0..(Len(blockLog) - 1) : ~Spoilt(runner, b)}
    <2>1. IsSeq(blockLog) /\ IsSeq(commitQ) /\ Committed <= TotalBlocks(cfg)  BY DEF ReplayerInv
    <2>2. Len(blockLog) \in Nat /\ Len(commitQ) \in Nat /\ DOMAIN blockLog = 1..Len(blockLog)
      BY <2>1, SeqFacts
    <2>3. Len(blockLog) <= W + C  BY <1>2, <2>1, <2>2 DEF Committed, Held
    <2>4. QED  BY <2>2, <2>3 DEF ReplayerInv
  <1>4. CertificationLog = {i \in DOMAIN blockLog : ~(i - 1 < W)}
    <2>1. ASSUME NEW i \in DOMAIN blockLog PROVE blockLog[i].phase = "certification" <=> ~(i - 1 < W)
      BY <1>3 DEF LogOK, PhaseOf
    <2>2. QED  BY <2>1 DEF CertificationLog
  <1>5. V = {i \in CertificationLog : ~Spoilt(runner, i - 1)}
    <2>1. ASSUME NEW i \in CertificationLog
          PROVE  blockLog[i].finalized /\ blockLog[i].proofVerified /\ ~blockLog[i].duplicate
                     <=> ~Spoilt(runner, i - 1)
      <3>1. LogOK(i)  BY <1>3, <1>4
      <3>2. QED  BY <3>1 DEF LogOK
    <2>2. QED  BY <2>1 DEF VerifiedLog
  <1>6. ProofFailures = {i \in CertificationLog : Spoilt(runner, i - 1)}
    <2>1. ASSUME NEW i \in CertificationLog PROVE ~blockLog[i].proofVerified <=> Spoilt(runner, i - 1)
      <3>1. LogOK(i)  BY <1>3, <1>4
      <3>2. QED  BY <3>1 DEF LogOK
    <2>2. QED  BY <2>1 DEF ProofFailures
  <1>7. CertificationLog \subseteq slots  BY <1>2, <1>3, <1>4
  <1>8. V \subseteq slots /\ V \subseteq DOMAIN blockLog  BY <1>4, <1>5, <1>7
  <1>9. IsFiniteSet(slots) /\ Cardinality(slots) = C
    <2> HIDE DEF W, C
    <2>1. W + 1 \in Int /\ W + C \in Int  BY <1>2
    <2>2. IsFiniteSet(slots) /\ Cardinality(slots) = IF W + 1 > W + C THEN 0 ELSE (W + C) - (W + 1) + 1
      BY <2>1, FS_Interval
    <2>3. QED  BY <1>2, <2>2
  <1>10. IsFiniteSet(V) /\ m \in Nat /\ m <= C /\ (m = C <=> V = slots)
    <2> HIDE DEF V, slots
    <2>1. IsFiniteSet(V) /\ m <= C /\ (m = C => V = slots)  BY <1>8, <1>9, FS_Subset
    <2>2. m \in Nat  BY <2>1, FS_CardinalityType
    <2>3. QED  BY <1>9, <2>1, <2>2
  <1>11. CertVerifiedTx = T * m
    <2>1. ASSUME NEW i \in V PROVE f[i] = T
      <3>1. i \in DOMAIN blockLog /\ LogOK(i) /\ ~(i - 1 < W)  BY <1>3, <1>4, <1>8, <1>5
      <3>2. PhaseOf(cfg, i - 1) = "certification"  BY <3>1 DEF PhaseOf
      <3>3. Len(TxsOf(cfg, i - 1)) = T  BY <1>1, <3>2, BlockTxs
      <3>4. QED  BY <3>1, <3>3 DEF LogOK
    <2>2. CertVerifiedTx = SumFunctionOnSet(f, V)  BY DEF CertVerifiedTx
    <2>3. T \in Int  BY <1>2
    <2> HIDE DEF f, V, T
    <2>4. QED  BY <1>10, <2>1, <2>2, <2>3, SumConstant
  <1>12. V = slots <=> CertificationBlocks(cfg) \subseteq DOMAIN blocks
    <2>1. CertificationBlocks(cfg) = {b \in 0..((W + C) - 1) : ~(b < W)}
      BY <1>2 DEF CertificationBlocks, PhaseOf
    <2> HIDE DEF W, C
    <2>2. ASSUME V = slots, NEW b \in CertificationBlocks(cfg) PROVE b \in DOMAIN blocks
      <3>1. b \in Nat /\ b + 1 \in slots /\ (b + 1) - 1 = b  BY <1>2, <2>1
      <3>2. b + 1 \in V /\ b + 1 \in DOMAIN blockLog  BY <1>8, <2>2, <3>1
      <3>3. ~Spoilt(runner, (b + 1) - 1)  BY <1>5, <3>2
      <3>4. b \in 0..(Len(blockLog) - 1)  BY <1>3, <3>1, <3>2
      <3>5. QED  BY <1>3, <3>1, <3>3, <3>4
    <2>3. ASSUME CertificationBlocks(cfg) \subseteq DOMAIN blocks, NEW i \in slots PROVE i \in V
      <3>1. i \in Nat /\ i - 1 \in CertificationBlocks(cfg) /\ ~(i - 1 < W)  BY <1>2, <2>1
      <3>2. i - 1 \in 0..(Len(blockLog) - 1) /\ ~Spoilt(runner, i - 1)  BY <1>3, <2>3, <3>1
      <3>3. i \in DOMAIN blockLog  BY <1>3, <3>1, <3>2
      <3>4. QED  BY <1>4, <1>5, <3>1, <3>2, <3>3
    <2>4. QED  BY <1>8, <2>2, <2>3
  <1>13. V = slots => ProofFailures = {}  BY <1>5, <1>6, <1>7
  <1>14. ExpectedCertTx = C * T  BY DEF ExpectedCertTx
  <1>15. T * m >= cfg.certification.tps * cfg.certification.seconds <=> m = C /\ Exact(cfg)
    <2>1. m \in Nat /\ m <= C  BY <1>10
    <2> HIDE DEF m
    <2>2. QED  BY <1>1, <2>1, Volume
  <1>16. m = C => T * m >= C * T
    <2>1. T * C = C * T /\ T * C \in Nat  BY <1>2
    <2>2. QED  BY <2>1
  <1> HIDE DEF m, C, T, V, slots
  <1>17. QED  BY <1>10, <1>11, <1>12, <1>13, <1>14, <1>15, <1>16 DEF Pass

\* Main builds the report last, and then nothing it speaks of changes.
LEMMA ReportStep ==
    ASSUME IInv, [Next]_vars
    PROVE  \/ report' = report /\ report = NoReport
           \/ UNCHANGED <<report, runner, dropped, blocks, blockLog>>
           \/ BuildReport
  <1>1. CASE Cancel  BY <1>1 DEF Cancel, l1vars
  <1>2. CASE Main
    <2>1. ingress.pc # "returned"
      BY <1>2 DEF Main, IngressCheck, IngressEnqueue, IngressRetry, IngressStore, BuildReport
    <2>2. report = NoReport  BY <2>1, NotBuilt DEF IInv
    <2>3. BuildReport \/ report' = report
      BY <1>2 DEF Main, IngressCheck, IngressEnqueue, IngressRetry, IngressStore
    <2>4. QED  BY <2>2, <2>3
  <1>3. CASE Sequencer
    <2>1. sequencer.pc # "exited" /\ report' = report
      BY <1>3 DEF Sequencer, SequencerCheck, SequencerDequeue, SequencerLoadDone, SequencerEnqueue,
                  SequencerRetry, SequencerExit, SequencerFrame
    <2>2. QED  BY <2>1, NotBuilt DEF IInv
  <1>4. CASE Aggregator
    <2>1. aggregator.pc # "exited" /\ report' = report
      BY <1>4 DEF Aggregator, AggregatorCheck, AggregatorDequeue, AggregatorEmpty, AggregatorLoadDone,
                  AggregatorEnqueue, AggregatorRetry, AggregatorExit, AggregatorFrame
    <2>2. QED  BY <2>1, NotBuilt DEF IInv
  <1>5. CASE Replayer
    <2>1. replayer.pc # "exited" /\ report' = report
      BY <1>5 DEF Replayer, ReplayerCheck, ReplayerDequeue, ReplayerLoadDone, ReplayerSubmit,
                  ReplayerFrame
    <2>2. QED  BY <2>1, NotBuilt DEF IInv
  <1>6. CASE UNCHANGED vars  BY <1>6 DEF vars, l1vars
  <1>7. CASE Returned  BY <1>7 DEF Returned, vars, l1vars
  <1>8. QED  BY <1>1, <1>2, <1>3, <1>4, <1>5, <1>6, <1>7 DEF Next

(***************************************************************************)
(* buildReport's verdict, for every configuration that Validate lets       *)
(* through: a run passes if and only if nothing was counted as dropped,    *)
(* every certification block was accepted by the L1 node, and rate and     *)
(* duration come out of whole blocks of whole transactions.                *)
(***************************************************************************)
THEOREM VerdictIsExact == Spec => []PassExactly
  <1>1. Init => PassExactly  BY DEF Init, PassExactly, NoReport
  <1>2. ASSUME IInv, PassExactly, [Next]_vars PROVE PassExactly'
    <2>1. CASE report' = report /\ report = NoReport  BY <2>1 DEF PassExactly, NoReport
    <2>2. CASE UNCHANGED <<report, runner, dropped, blocks, blockLog>>
      <3>1. cfg' = cfg  BY <2>2, SameRun
      <3>2. QED  BY <1>2, <2>2, <3>1 DEF PassExactly
    <2>3. CASE BuildReport
      <3>1. UNCHANGED <<runner, dropped, blocks>> /\ report' = [pass |-> Pass, built |-> TRUE]
        BY <2>3 DEF BuildReport, IngressFrame, l1vars
      <3>2. cfg' = cfg  BY <3>1, SameRun
      <3>3. report'.pass = Pass  BY <3>1
      <3>4. Pass <=> ~dropped /\ CertificationBlocks(cfg) \subseteq DOMAIN blocks /\ Exact(cfg)
        BY <1>2, PassIs DEF IInv
      <3>5. QED  BY <3>1, <3>2, <3>3, <3>4 DEF PassExactly
    <2>4. QED  BY <1>2, <2>1, <2>2, <2>3, ReportStep
  <1>3. QED  BY <1>1, <1>2, InvariantHolds, PTL DEF Spec

-----------------------------------------------------------------------------
(* The refinement *)

\* The abstract variables.
Outcomes == [i \in DOMAIN blockLog |->
                [block |-> blockLog[i].block, txs |-> Range(blockLog[i].commitment[2]),
                 finalized |-> blockLog[i].finalized]]

Verdict == IF ~report.built THEN "running" ELSE IF report.pass THEN "passed" ELSE "failed"

\* The two specifications mean the same workload.
LEMMA SameWorkload ==
    /\ \A c, b : Run!TxsOf(c, b) = TxsOf(c, b)
    /\ \A r, b : Run!Spoilt(r, b) <=> Spoilt(r, b)
    /\ \A c : Run!TotalBlocks(c) = TotalBlocks(c)
    /\ \A c : Run!CertificationBlocks(c) = CertificationBlocks(c)
    /\ \A c : Run!Exact(c) <=> Exact(c)
    /\ \A g : Run!Range(g) = Range(g)
  <1>1. \A c, p : Run!PhaseBlocks(c, p) = PhaseBlocks(c, p)
    BY DEF Run!PhaseBlocks, PhaseBlocks, Run!BlocksForPhase, BlocksForPhase
  <1>2. \A c, b : Run!PhaseOf(c, b) = PhaseOf(c, b)  BY <1>1 DEF Run!PhaseOf, PhaseOf
  <1>3. \A c : Run!TotalBlocks(c) = TotalBlocks(c)  BY <1>1 DEF Run!TotalBlocks, TotalBlocks
  <1>4. \A c : Run!CertificationBlocks(c) = CertificationBlocks(c)
    BY <1>2, <1>3 DEF Run!CertificationBlocks, CertificationBlocks
  <1>5. \A c, t : Run!TxPerBlock(c, t) = TxPerBlock(c, t)  BY DEF Run!TxPerBlock, TxPerBlock
  <1>6. \A b, n : Run!GenerateSyntheticTxs(b, n) = GenerateSyntheticTxs(b, n)
    BY DEF Run!GenerateSyntheticTxs, GenerateSyntheticTxs, Run!SyntheticTx, SyntheticTx
  <1>7. \A c, b : Run!TxsOf(c, b) = TxsOf(c, b)  BY <1>2, <1>5, <1>6 DEF Run!TxsOf, TxsOf
  <1>8. \A r, b : Run!Spoilt(r, b) <=> Spoilt(r, b)
    BY DEF Run!Spoilt, Spoilt, Run!ReplayedProof, ReplayedProof, Run!ProofForBlock, ProofForBlock,
           Run!GenerateProofBytes, GenerateProofBytes
  <1>9. \A c : Run!Exact(c) <=> Exact(c)  BY DEF Run!Exact, Exact
  <1>10. \A g : Run!Range(g) = Range(g)  BY DEF Run!Range, Range
  <1>11. QED  BY <1>3, <1>4, <1>7, <1>8, <1>9, <1>10

\* The replayer's submission is the next block of the workload.
LEMMA SubmissionIsNext ==
    ASSUME IInv, ReplayerSubmit PROVE Run!SubmitNext
  <1> DEFINE b == Len(blockLog)
             outcome == [block |-> b, txs |-> Range(TxsOf(runner.cfg, b)),
                         finalized |-> ~Spoilt(runner, b)]
  <1>1. RunnerInv /\ ReplayerInv  BY DEF IInv
  <1>2. replayer.pc = "submit" /\ UNCHANGED <<runner, report>>  BY DEF ReplayerSubmit, ReplayerFrame
  <1>3. report = NoReport /\ Verdict = "running"
    <2>1. report.built = FALSE /\ report = NoReport  BY <1>2, NotBuilt DEF IInv
    <2>2. QED  BY <2>1 DEF Verdict
  <1>4. /\ IsSeq(blockLog) /\ IsSeq(commitQ) /\ b \in Nat /\ DOMAIN blockLog = 1..b /\ Len(commitQ) \in Nat
        /\ Committed <= TotalBlocks(cfg)
    BY <1>1, SeqFacts DEF ReplayerInv
  <1>5. b < TotalBlocks(runner.cfg)
    <2>1. Committed = b + 1 + Len(commitQ)  BY <1>2 DEF Committed, Held
    <2>2. TotalBlocks(cfg) \in Nat  BY <1>1, Numbers DEF RunnerInv
    <2>3. QED  BY <1>4, <2>1, <2>2 DEF cfg
  <1>6. PICK e : /\ blockLog' = Append(blockLog, e)
                 /\ e.block = b /\ Range(e.commitment[2]) = Range(TxsOf(cfg, b))
                 /\ e.finalized = ~Spoilt(runner, b)
    BY <1>1, Submitted
  <1>7. /\ DOMAIN blockLog' = 1..(b + 1) /\ \A i \in 1..b : blockLog'[i] = blockLog[i]
        /\ blockLog'[b + 1] = e
    BY <1>4, <1>6, AppendFacts
  <1>8. Len(Outcomes) = b /\ IsSeq(Outcomes)
    <2> DEFINE S == {Outcomes[i] : i \in 1..b}
    <2>1. Outcomes \in [1..b -> S]  BY <1>4 DEF Outcomes
    <2>2. DOMAIN Outcomes = 1..b  BY <1>4 DEF Outcomes
    <2> HIDE DEF S
    <2>3. Outcomes \in Seq(S)  BY <1>4, <2>1
    <2>4. QED  BY <1>4, <2>2, <2>3 DEF IsSeq
  <1>9. Outcomes' = Append(Outcomes, outcome)
    <2>1. DOMAIN Outcomes' = 1..(b + 1) /\ DOMAIN Outcomes = 1..b  BY <1>4, <1>7 DEF Outcomes
    <2>2. ASSUME NEW i \in 1..b PROVE Outcomes'[i] = Outcomes[i]
      <3>1. i \in 1..(b + 1)  BY <1>4
      <3>2. QED  BY <1>4, <1>7, <3>1 DEF Outcomes
    <2>3. Outcomes'[b + 1] = outcome
      <3>1. b + 1 \in 1..(b + 1)  BY <1>4
      <3>2. QED  BY <1>6, <1>7, <3>1 DEF Outcomes, cfg
    <2>4. /\ DOMAIN Append(Outcomes, outcome) = 1..(b + 1)
          /\ \A i \in 1..b : Append(Outcomes, outcome)[i] = Outcomes[i]
          /\ Append(Outcomes, outcome)[b + 1] = outcome
      <3> HIDE DEF outcome, b
      <3>1. QED  BY <1>8, AppendFacts
    <2> DEFINE long == Append(Outcomes, outcome)
               last == b + 1
    <2>5. \A i \in 1..last : i \in 1..b \/ i = last  BY <1>4
    <2>6. Outcomes' = [i \in 1..last |-> Outcomes'[i]]  BY <2>1 DEF Outcomes
    <2>7. long = [i \in 1..last |-> long[i]]
      <3>1. PICK S : Outcomes \in Seq(S)  BY <1>8 DEF IsSeq
      <3>2. Outcomes \in Seq(S \cup {outcome})  BY <3>1
      <3>3. long \in Seq(S \cup {outcome})  BY <3>2
      <3> HIDE DEF long
      <3>4. QED  BY <2>4, <3>3 DEF long
    <2>8. \A i \in 1..last : Outcomes'[i] = long[i]
      <3> HIDE DEF outcome
      <3>1. QED  BY <2>2, <2>3, <2>4, <2>5
    <2> HIDE DEF long, last
    <2>9. QED  BY <2>6, <2>7, <2>8 DEF long
  <1>10. Verdict' = Verdict  BY <1>2 DEF Verdict
  <1>11. Run!Outcome(b) = outcome  BY SameWorkload DEF Run!Outcome
  <1>12. QED
    <2>1. Run!SubmitNext <=> /\ Verdict = "running"
                             /\ Len(Outcomes) < Run!TotalBlocks(runner.cfg)
                             /\ Outcomes' = Append(Outcomes, Run!Outcome(Len(Outcomes)))
                             /\ UNCHANGED <<runner, Verdict>>
      BY DEF Run!SubmitNext, Verdict, Outcomes
    <2>2. Run!TotalBlocks(runner.cfg) = TotalBlocks(runner.cfg)  BY SameWorkload
    <2>3. QED  BY <1>2, <1>3, <1>5, <1>8, <1>9, <1>10, <1>11, <2>1, <2>2

\* The report is a verdict the run may give.
LEMMA ReportIsVerdict ==
    ASSUME IInv, BuildReport PROVE Run!Conclude
  <1>1. RunnerInv /\ ReplayerInv  BY DEF IInv
  <1>2. /\ UNCHANGED <<runner, blockLog>> /\ ingress.pc = "wait"
        /\ report' = [pass |-> Pass, built |-> TRUE]
    BY DEF BuildReport, IngressFrame, l1vars
  <1>3. Verdict = "running"
    <2>1. report.built = FALSE  BY <1>2, NotBuilt DEF IInv
    <2>2. QED  BY <2>1 DEF Verdict
  <1>4. Outcomes' = Outcomes  BY <1>2 DEF Outcomes
  <1>5. Verdict' = IF Pass THEN "passed" ELSE "failed"
    <2>1. report'.built = TRUE /\ report'.pass = Pass  BY <1>2
    <2>2. QED  BY <2>1 DEF Verdict
  <1>6. ASSUME Pass PROVE Run!MayPass
    <2>1. CertificationBlocks(cfg) \subseteq DOMAIN blocks /\ Exact(cfg)  BY <1>1, <1>6, PassIs
    <2>2. ASSUME NEW b \in DOMAIN blocks PROVE b \in Run!Certified
      <3>1. /\ IsSeq(blockLog) /\ b \in 0..(Len(blockLog) - 1) /\ ~Spoilt(runner, b)
            /\ \A i \in DOMAIN blockLog : LogOK(i)
        BY <1>1 DEF ReplayerInv
      <3>2. Len(blockLog) \in Nat /\ DOMAIN blockLog = 1..Len(blockLog)  BY <3>1, SeqFacts
      <3>3. b + 1 \in DOMAIN blockLog /\ (b + 1) - 1 = b  BY <3>1, <3>2
      <3>4. blockLog[b + 1].block = b /\ blockLog[b + 1].finalized = TRUE
        BY <3>1, <3>3 DEF LogOK
      <3>5. b + 1 \in DOMAIN Outcomes /\ Outcomes[b + 1].block = b /\ Outcomes[b + 1].finalized
        BY <3>3, <3>4 DEF Outcomes
      <3>6. Run!Certified = {Outcomes[i].block : i \in {j \in DOMAIN Outcomes : Outcomes[j].finalized}}
        BY DEF Run!Certified, Outcomes
      <3>7. QED  BY <3>5, <3>6
    <2>3. QED  BY <2>1, <2>2, SameWorkload DEF Run!MayPass, cfg
  <1>7. Run!Conclude <=> /\ Verdict = "running"
                         /\ Verdict' \in IF Run!MayPass THEN {"passed", "failed"} ELSE {"failed"}
                         /\ UNCHANGED <<runner, Outcomes>>
    BY DEF Run!Conclude, Verdict, Outcomes
  <1>8. QED  BY <1>2, <1>3, <1>4, <1>5, <1>6, <1>7

(***************************************************************************)
(* The four goroutines of runner.go implement CertificationRun: a step of  *)
(* the replayer that submits is the next submission of the workload, the   *)
(* step of main that builds the report is the verdict, and every other     *)
(* step changes nothing that the promise speaks of.                        *)
(***************************************************************************)
THEOREM RunnerImplementsRun == Spec => ImplementsRun
  <1>1. Init => Run!Begin
    <2>1. SUFFICES ASSUME Init PROVE Run!Begin  OBVIOUS
    <2>2. blockLog = <<>> /\ report = NoReport  BY <2>1 DEF Init, L1!Init
    <2>3. Outcomes = <<>>  BY <2>2 DEF Outcomes
    <2>4. Verdict = "running"  BY <2>2 DEF Verdict, NoReport
    <2>5. QED  BY <2>3, <2>4 DEF Run!Begin, Outcomes, Verdict
  <1>2. ASSUME IInv, [Next]_vars PROVE [Run!SubmitNext \/ Run!Conclude]_(Run!runVars)
    <2>1. CASE BuildReport  BY <1>2, <2>1, ReportIsVerdict
    <2>2. CASE ReplayerSubmit  BY <1>2, <2>2, SubmissionIsNext
    <2>3. CASE ~BuildReport /\ ~ReplayerSubmit
      <3>1. UNCHANGED <<runner, report, blockLog>>
        <4>1. CASE Cancel  BY <4>1 DEF Cancel, l1vars
        <4>2. CASE Main
          <5>1. IngressFrame /\ report' = report
            BY <2>3, <4>2 DEF Main, IngressCheck, IngressEnqueue, IngressRetry, IngressStore
          <5>2. QED  BY <5>1 DEF IngressFrame, l1vars
        <4>3. CASE Sequencer
          <5>1. SequencerFrame
            BY <4>3 DEF Sequencer, SequencerCheck, SequencerDequeue, SequencerLoadDone,
                        SequencerEnqueue, SequencerRetry, SequencerExit
          <5>2. QED  BY <5>1 DEF SequencerFrame, l1vars
        <4>4. CASE Aggregator
          <5>1. AggregatorFrame
            BY <4>4 DEF Aggregator, AggregatorCheck, AggregatorDequeue, AggregatorEmpty,
                        AggregatorLoadDone, AggregatorEnqueue, AggregatorRetry, AggregatorExit
          <5>2. QED  BY <5>1 DEF AggregatorFrame, l1vars
        <4>5. CASE Replayer
          <5>1. ReplayerFrame /\ UNCHANGED l1vars
            BY <2>3, <4>5 DEF Replayer, ReplayerCheck, ReplayerDequeue, ReplayerLoadDone
          <5>2. QED  BY <5>1 DEF ReplayerFrame, l1vars
        <4>6. CASE UNCHANGED vars  BY <4>6 DEF vars, l1vars
        <4>7. CASE Returned  BY <4>7 DEF Returned, vars, l1vars
        <4>8. QED  BY <1>2, <4>1, <4>2, <4>3, <4>4, <4>5, <4>6, <4>7 DEF Next
      <3>2. Outcomes' = Outcomes /\ Verdict' = Verdict  BY <3>1 DEF Outcomes, Verdict
      <3>3. UNCHANGED Run!runVars  BY <3>1, <3>2 DEF Run!runVars, Outcomes, Verdict
      <3>4. QED  BY <3>3
    <2>4. QED  BY <2>1, <2>2, <2>3
  <1>3. QED  BY <1>1, <1>2, InvariantHolds, PTL DEF Spec, ImplementsRun, Run!RunSpec
=============================================================================
