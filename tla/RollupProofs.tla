---------------------------- MODULE RollupProofs ----------------------------
(***************************************************************************)
(* Proofs about the contracts and the prover: a lane is one chain, what is *)
(* certified is proved, and the total of a lane is preserved.              *)
(*                                                                         *)
(* The argument: the heads are at any time what one loop over all the      *)
(* events, initializations and batches alike, would have made of none.     *)
(*                                                                         *)
(* And about the operators of kaia-proofctl at these contracts: every      *)
(* transaction was sent once, by one job of one command of one run, so     *)
(* what a certifier has certified is told from the receipts of commands.   *)
(***************************************************************************)
EXTENDS Rollup, ProofCtl, SumTheorems

-----------------------------------------------------------------------------
(* The largest and the least element of a set of naturals *)

\* A set of naturals has a least element.
LEMMA LeastExists ==
    ASSUME NEW S, S \subseteq Nat, S # {} PROVE \E m \in S : \A y \in S : m <= y
  <1> DEFINE N == {n \in Nat : \A y \in S : n <= y}
  <1>1. SUFFICES ASSUME \A m \in S : \E y \in S : ~(m <= y) PROVE FALSE  OBVIOUS
  <1>2. 0 \in N  OBVIOUS
  <1>3. \A n \in Nat : n \in N => n + 1 \in N  BY <1>1
  <1>4. \A n \in Nat : n \in N
    <2> HIDE DEF N
    <2>1. QED  BY <1>2, <1>3, NatSetInduction
  <1>5. PICK y \in S : TRUE  OBVIOUS
  <1>6. y + 1 \in N  BY <1>4
  <1>7. QED  BY <1>6

\* An upper bound in a set is its maximum.
LEMMA MaxIs ==
    ASSUME NEW S, S \subseteq Nat, NEW m \in S, \A y \in S : y <= m PROVE Max(S) = m
  <1> DEFINE P(x) == \A y \in S : x >= y
  <1>1. m \in S /\ P(m)  OBVIOUS
  <1>2. Max(S) = CHOOSE x \in S : P(x)  BY DEF Max
  <1>3. Max(S) \in S /\ P(Max(S))
    <2> HIDE DEF P
    <2>1. QED  BY <1>1, <1>2, Zenon
  <1>4. Max(S) \in Nat /\ m \in Nat /\ Max(S) >= m /\ Max(S) <= m  BY <1>1, <1>3
  <1>5. QED  BY <1>4

\* A bounded set of naturals has a maximum.
LEMMA MaxExists ==
    ASSUME NEW n \in Nat, NEW S, S \subseteq 1..n, S # {}
    PROVE  Max(S) \in S /\ \A y \in S : y <= Max(S)
  <1> DEFINE T == {k \in Nat : \A y \in S : y <= k}
  <1>1. n \in T /\ T \subseteq Nat  OBVIOUS
  <1>2. PICK k \in T : \A j \in T : k <= j
    <2> HIDE DEF T
    <2>1. QED  BY <1>1, LeastExists
  <1>3. k \in S
    <2>1. SUFFICES ASSUME k \notin S PROVE FALSE  OBVIOUS
    <2>2. k # 0
      <3>1. PICK y \in S : TRUE  OBVIOUS
      <3>2. QED  BY <1>2, <3>1
    <2>3. k - 1 \in T  BY <1>2, <2>1, <2>2
    <2>4. QED  BY <1>2, <2>3
  <1>4. \A y \in S : y <= k  BY <1>2
  <1>5. Max(S) = k
    <2>1. S \subseteq Nat  OBVIOUS
    <2>2. QED  BY <1>3, <1>4, <2>1, MaxIs
  <1>6. QED  BY <1>3, <1>4, <1>5

-----------------------------------------------------------------------------
(* The loops of the contracts *)

\* What a loop has written to lane l before iteration i.
Written(lanes, i, l) == {j \in 1..(i - 1) : lanes[j] = l}

\* There is a last write of a lane before place i, if there is one at all.
LEMMA WrittenMax ==
    ASSUME NEW lanes, NEW i \in Nat \ {0}, NEW l, Written(lanes, i, l) # {}
    PROVE  /\ Max(Written(lanes, i, l)) \in Written(lanes, i, l)
           /\ \A j \in Written(lanes, i, l) : j <= Max(Written(lanes, i, l))
  <1>1. i - 1 \in Nat /\ Written(lanes, i, l) \subseteq 1..(i - 1)  BY DEF Written
  <1>2. QED  BY <1>1, MaxExists

\* Iteration i of the loop, with the writes of all the ones before it.
LEMMA HeadAtFirst ==
    ASSUME NEW heads, NEW lanes, NEW points, NEW l
    PROVE  HeadAt(heads, lanes, points, 1, l) = heads[l]
  BY DEF HeadAt

\* A batch of another lane leaves the head alone.
LEMMA HeadAtSame ==
    ASSUME NEW heads, NEW lanes, NEW points, NEW l, NEW i \in Nat \ {0}, lanes[i] # l
    PROVE  HeadAt(heads, lanes, points, i + 1, l) = HeadAt(heads, lanes, points, i, l)
  <1>1. {j \in 1..((i + 1) - 1) : lanes[j] = l} = {j \in 1..(i - 1) : lanes[j] = l}  OBVIOUS
  <1>2. QED  BY <1>1 DEF HeadAt

\* Iteration i, the one before n, writes lane l.
JustWritten(lanes, n, i, l) == i \in Nat \ {0} /\ n = i + 1 /\ lanes[i] = l

\* The head is what the last batch of the lane has made of it.
LEMMA HeadAtWrite ==
    ASSUME NEW heads, NEW lanes, NEW points, NEW l, NEW n, NEW i, JustWritten(lanes, n, i, l)
    PROVE  HeadAt(heads, lanes, points, n, l) = points[i]
  <1> DEFINE W == {j \in 1..(n - 1) : lanes[j] = l}
  <1>1. i \in W /\ W \subseteq Nat /\ \A y \in W : y <= i  BY DEF JustWritten
  <1>2. Max(W) = i
    <2> HIDE DEF W
    <2>1. QED  BY <1>1, MaxIs
  <1>3. QED  BY <1>1, <1>2 DEF HeadAt

\* When a loop finds every lane it writes unset, it writes no lane that was set.
LEMMA InitializesUnset ==
    ASSUME NEW heads, NEW lanes \in Seq(LaneIds), NEW points, InitializeOK(heads, lanes, points),
           NEW l \in LaneIds, isSet(heads[l])
    PROVE  \A j \in 1..Len(lanes) : lanes[j] # l
  <1> DEFINE S == {j \in 1..Len(lanes) : lanes[j] = l}
  <1>1. SUFFICES ASSUME S # {} PROVE FALSE  OBVIOUS
  <1>2. S \subseteq Nat  OBVIOUS
  <1>3. PICK m \in S : \A y \in S : m <= y
    <2> HIDE DEF S
    <2>1. QED  BY <1>1, <1>2, LeastExists
  <1>4. m \in DOMAIN lanes /\ lanes[m] = l  BY <1>3
  <1>5. {j \in 1..(m - 1) : lanes[j] = l} = {}  BY <1>3
  <1>6. HeadAt(heads, lanes, points, m, l) = heads[l]  BY <1>5 DEF HeadAt
  <1>7. ~isSet(HeadAt(heads, lanes, points, m, lanes[m]))  BY <1>4 DEF InitializeOK
  <1>8. QED  BY <1>4, <1>6, <1>7

\* Two loops that write the same points to the same lanes up to iteration i.
LEMMA HeadAtAgree ==
    ASSUME NEW heads, NEW lanes, NEW points, NEW lanes2, NEW points2, NEW l, NEW i \in Nat \ {0},
           \A j \in 1..(i - 1) : lanes[j] = lanes2[j] /\ points[j] = points2[j]
    PROVE  HeadAt(heads, lanes, points, i, l) = HeadAt(heads, lanes2, points2, i, l)
  <1> DEFINE W == Written(lanes, i, l)
  <1>1. W = Written(lanes2, i, l)  BY DEF Written
  <1>2. ASSUME W # {} PROVE points[Max(W)] = points2[Max(W)]
    <2>1. Max(W) \in W  BY <1>2, WrittenMax
    <2>2. QED  BY <2>1 DEF Written
  <1>3. QED  BY <1>1, <1>2 DEF HeadAt, Written

\* The loop over c and then one over a, on what the first has made of the heads,
\* are one loop over both.
LEMMA HeadAtConcat ==
    ASSUME NEW S, NEW c \in Seq(S), NEW a \in Seq(S), NEW heads, NEW l, NEW mid,
           mid[l] = HeadAt(heads, LanesOf(c), NextsOf(c), Len(c) + 1, l)
    PROVE  \A k \in 1..(Len(a) + 1) :
              HeadAt(mid, LanesOf(a), NextsOf(a), k, l)
                  = HeadAt(heads, LanesOf(c \o a), NextsOf(c \o a), Len(c) + k, l)
  <1> DEFINE ca == c \o a
             left(k)  == HeadAt(mid, LanesOf(a), NextsOf(a), k, l)
             right(k) == HeadAt(heads, LanesOf(ca), NextsOf(ca), k, l)
             N == {k \in Nat : k \in 1..(Len(a) + 1) => left(k) = right(Len(c) + k)}
  <1>1. /\ \A j \in 1..Len(c) : LanesOf(ca)[j] = LanesOf(c)[j] /\ NextsOf(ca)[j] = NextsOf(c)[j]
        /\ \A j \in 1..Len(a) : /\ LanesOf(ca)[Len(c) + j] = LanesOf(a)[j]
                               /\ NextsOf(ca)[Len(c) + j] = NextsOf(a)[j]
    <2>1. /\ DOMAIN ca = 1..(Len(c) + Len(a)) /\ DOMAIN c = 1..Len(c) /\ DOMAIN a = 1..Len(a)
          /\ \A j \in 1..Len(c) : j \in 1..(Len(c) + Len(a)) /\ ca[j] = c[j]
          /\ \A j \in 1..Len(a) : Len(c) + j \in 1..(Len(c) + Len(a)) /\ ca[Len(c) + j] = a[j]
      OBVIOUS
    <2> HIDE DEF ca
    <2>2. QED  BY <2>1 DEF LanesOf, NextsOf
  <1>2. Len(c) \in Nat /\ Len(a) \in Nat  OBVIOUS
  <1>3. left(1) = right(Len(c) + 1)
    <2>1. left(1) = mid[l]  BY HeadAtFirst
    <2>2. HeadAt(heads, LanesOf(c), NextsOf(c), Len(c) + 1, l) = right(Len(c) + 1)
      <3>1. \A j \in 1..((Len(c) + 1) - 1) :
                LanesOf(c)[j] = LanesOf(ca)[j] /\ NextsOf(c)[j] = NextsOf(ca)[j]  BY <1>1, <1>2
      <3>2. Len(c) + 1 \in Nat \ {0}  BY <1>2
      <3> HIDE DEF ca
      <3>3. QED  BY <3>1, <3>2, HeadAtAgree
    <2>3. QED  BY <2>1, <2>2
  <1>4. 0 \in N  BY <1>2
  <1>5. ASSUME NEW k \in Nat, k \in N PROVE k + 1 \in N
    <2>1. SUFFICES ASSUME k \in 1..Len(a) PROVE left(k + 1) = right(Len(c) + (k + 1))
      BY <1>2, <1>3
    <2>2. left(k) = right(Len(c) + k)  BY <1>2, <1>5, <2>1
    <2>3. k \in Nat \ {0} /\ Len(c) + k \in Nat \ {0} /\ Len(c) + (k + 1) = (Len(c) + k) + 1
      BY <1>2, <2>1
    <2>4. LanesOf(ca)[Len(c) + k] = LanesOf(a)[k] /\ NextsOf(ca)[Len(c) + k] = NextsOf(a)[k]
      BY <1>1, <2>1
    <2> HIDE DEF ca
    <2>5. CASE LanesOf(a)[k] = l
      <3>1. JustWritten(LanesOf(a), k + 1, k, l)  BY <2>3, <2>5 DEF JustWritten
      <3>2. JustWritten(LanesOf(ca), (Len(c) + k) + 1, Len(c) + k, l)
        BY <2>3, <2>4, <2>5 DEF JustWritten
      <3>4. left(k + 1) = NextsOf(a)[k]  BY <3>1, HeadAtWrite
      <3>5. right((Len(c) + k) + 1) = NextsOf(ca)[Len(c) + k]  BY <3>2, HeadAtWrite
      <3>3. QED  BY <2>3, <2>4, <3>4, <3>5
    <2>6. CASE LanesOf(a)[k] # l
      <3>1. left(k + 1) = left(k)  BY <2>3, <2>6, HeadAtSame
      <3>2. right((Len(c) + k) + 1) = right(Len(c) + k)  BY <2>3, <2>4, <2>6, HeadAtSame
      <3>3. QED  BY <2>2, <2>3, <3>1, <3>2
    <2>7. QED  BY <2>5, <2>6
  <1>6. \A k \in Nat : k \in N
    <2> HIDE DEF N
    <2>1. QED  BY <1>4, <1>5, NatSetInduction
  <1>7. QED  BY <1>2, <1>6

-----------------------------------------------------------------------------
(* What a proof that the contract accepts has proved *)

\* A proof that verifies is of states of equal sums, however it was made; the state
\* behind the point at infinity is not known.
LEMMA GoodProof ==
    ASSUME NEW a \in Artifacts, NEW key \in Keys, verifyBatchTransition(key, a),
           isSet(a.prev), isSet(a.next)
    PROVE  SumOfFirst(a.prev, key.batchSize) = SumOfFirst(a.next, key.batchSize)
  <1>1. PICK input \in Transitions : a = prove(key, input)
    BY ProofsAreMade DEF verifyBatchTransition
  <1> DEFINE pre      == Append(input.pre, input.preBlind)
             post     == Append(input.post, input.postBlind)
             artifact == Prove(key, input.laneId, input.batchId, input.txCount, Commit(pre), Commit(post))
             good     == Satisfied(key.batchSize, pre, post)
  <1>2. a = IF good THEN artifact ELSE [artifact EXCEPT !.proof.proves = <<>>]
    BY <1>1 DEF prove
  <1>3. Statement(a) # <<>>  BY DEF Statement
  <1>4. good
    <2>1. SUFFICES ASSUME ~good PROVE FALSE  OBVIOUS
    <2>2. a = [artifact EXCEPT !.proof.proves = <<>>]  BY <1>2, <2>1
    <2>3. a.proof.proves = <<>>  BY <2>2 DEF Prove
    <2>4. a.proof.proves = Statement(a)  BY DEF verifyBatchTransition
    <2>5. QED  BY <1>3, <2>3, <2>4
  <1>5. a.prev = Commit(pre) /\ a.next = Commit(post)  BY <1>2, <1>4 DEF Prove
  <1>6. Commit(pre) = pre /\ Commit(post) = post  BY <1>5 DEF isSet, Commit
  <1>7. SumOfFirst(pre, key.batchSize) = SumOfFirst(post, key.batchSize)
    <2>1. 0 \in Field  BY PrimeAssumption DEF Field
    <2>2. QED  BY <1>4, <2>1 DEF Satisfied, Circuit
  <1>8. QED  BY <1>5, <1>6, <1>7

-----------------------------------------------------------------------------
(* The inductive invariant *)

Entries == {LaneHeadInitialized(l, point) : l \in LaneIds, point \in Points \cup {Infinity}}
           \cup {BatchVerified(a) : a \in {x \in Artifacts : x.laneId \in LaneIds}}

CallInv == /\ verifyingKey \in Keys \cup {NoKey}
           /\ events \in Seq(Entries)
           /\ Certified # {} => verifyingKey # NoKey

\* The head of lane l that the first i - 1 of the events have made.
Hd(history, i, l) == HeadAt(Unset, LanesOf(history), NextsOf(history), i, l)

\* An entry starts at the head h; only a batch starts at one that is set.
StartsAt(entry, h) == /\ entry.prev = h
                      /\ entry.event = "BatchVerified" <=> isSet(h)

\* Each event started at the head that those before it had made.
PastInv == \A i \in DOMAIN events : StartsAt(events[i], Hd(events, i, events[i].laneId))

\* The heads are those that all of them have made.
HeadInv == \A l \in LaneIds : laneHead[l] = Hd(events, Len(events) + 1, l)

IInv == CallInv /\ CertifiedIsProved /\ PastInv /\ HeadInv

\* What an event says of a lane and, if it is one, of a batch.
LEMMA EntryFacts ==
    ASSUME NEW entry \in Entries
    PROVE  /\ entry.laneId \in LaneIds
           /\ entry.event = "BatchVerified" =>
                 /\ entry.artifact \in Artifacts
                 /\ entry.prev = entry.artifact.prev /\ entry.next = entry.artifact.next
  BY DEF Entries, LaneHeadInitialized, BatchVerified

\* Nothing has happened, and no head is set.
LEMMA InitIInv == Init => IInv
  <1> SUFFICES ASSUME Init PROVE IInv  OBVIOUS
  <1>1. Certified = {} /\ Len(events) + 1 = 1  BY DEF Init, Certified
  <1>2. CallInv  BY <1>1 DEF Init, CallInv
  <1>3. CertifiedIsProved
    <2>1. Cardinality({}) = 0  BY FS_EmptySet
    <2>2. QED  BY <1>1, <2>1, BatchAssumption DEF Init, CertifiedIsProved
  <1>4. PastInv  BY DEF Init, PastInv
  <1>5. HeadInv
    <2>1. ASSUME NEW l \in LaneIds PROVE laneHead[l] = Hd(events, 1, l)
      BY HeadAtFirst DEF Init, Hd
    <2>2. QED  BY <1>1, <2>1 DEF HeadInv
  <1>6. QED  BY <1>2, <1>3, <1>4, <1>5 DEF IInv

\* The admin sets the verifying key.
LEMMA KeyStep ==
    ASSUME IInv, NEW caller \in Callers, NEW key \in Keys, initializeVerifyingKey(caller, key)
    PROVE  IInv'
  <1>1. Certified = {}  BY DEF IInv, CallInv, initializeVerifyingKey
  <1>2. /\ events' = events /\ totalVerifiedTx' = totalVerifiedTx /\ laneHead' = laneHead
        /\ Certified' = Certified
    BY DEF initializeVerifyingKey, Certified
  <1>3. CallInv'  BY <1>2, KeysAreSet DEF IInv, CallInv, initializeVerifyingKey
  <1>4. CertifiedIsProved'  BY <1>1, <1>2 DEF IInv, CertifiedIsProved
  <1>5. PastInv' /\ HeadInv'  BY <1>2 DEF IInv, PastInv, HeadInv
  <1>6. QED  BY <1>3, <1>4, <1>5 DEF IInv

\* The events of a call start at the heads that its loop has found.
Follows(e) ==
    /\ e \in Seq(Entries)
    /\ \A k \in 1..Len(e) :
          StartsAt(e[k], HeadAt(laneHead, LanesOf(e), NextsOf(e), k, e[k].laneId))

\* A call that writes the lanes and points of its events to the heads.
LEMMA CallStep ==
    ASSUME CallInv, PastInv, HeadInv, NEW e, Follows(e), events' = events \o e,
           laneHead' = HeadsAfter(laneHead, LanesOf(e), NextsOf(e))
    PROVE  PastInv' /\ HeadInv'
  <1> DEFINE c == events
             ce == c \o e
             In(k, l) == HeadAt(laneHead, LanesOf(e), NextsOf(e), k, l)
  <1>1. c \in Seq(Entries) /\ e \in Seq(Entries)  BY DEF CallInv, Follows
  <1>2. /\ Len(c) \in Nat /\ Len(e) \in Nat /\ Len(ce) = Len(c) + Len(e)
        /\ DOMAIN c = 1..Len(c) /\ DOMAIN e = 1..Len(e) /\ DOMAIN ce = 1..(Len(c) + Len(e))
        /\ \A j \in 1..Len(c) : ce[j] = c[j]
        /\ \A j \in 1..Len(e) : ce[Len(c) + j] = e[j]
    BY <1>1
  <1>3. ASSUME NEW l \in LaneIds, NEW k \in 1..(Len(e) + 1) PROVE In(k, l) = Hd(ce, Len(c) + k, l)
    <2>1. laneHead[l] = HeadAt(Unset, LanesOf(c), NextsOf(c), Len(c) + 1, l)  BY DEF HeadInv, Hd
    <2> HIDE DEF c
    <2>2. QED  BY <1>1, <2>1, HeadAtConcat DEF Hd
  <1>4. PastInv'
    <2>1. SUFFICES ASSUME NEW i \in DOMAIN ce PROVE StartsAt(ce[i], Hd(ce, i, ce[i].laneId))
      BY DEF PastInv
    <2>2. CASE i \in 1..Len(c)
      <3>1. ce[i] = c[i] /\ i \in DOMAIN c  BY <1>2, <2>2
      <3>2. StartsAt(c[i], Hd(c, i, c[i].laneId))  BY <3>1 DEF PastInv
      <3>3. \A j \in 1..(i - 1) : LanesOf(c)[j] = LanesOf(ce)[j] /\ NextsOf(c)[j] = NextsOf(ce)[j]
        <4>1. ASSUME NEW j \in 1..(i - 1) PROVE j \in DOMAIN c /\ j \in DOMAIN ce /\ ce[j] = c[j]
          BY <1>2, <2>2
        <4> HIDE DEF c, ce
        <4>2. QED  BY <4>1 DEF LanesOf, NextsOf
      <3>4. i \in Nat \ {0}  BY <2>2
      <3>5. Hd(c, i, c[i].laneId) = Hd(ce, i, c[i].laneId)
        <4> HIDE DEF c, ce
        <4>1. QED  BY <3>3, <3>4, HeadAtAgree DEF Hd
      <3>6. QED  BY <3>1, <3>2, <3>5
    <2>3. ASSUME NEW k \in 1..Len(e), i = Len(c) + k
          PROVE  StartsAt(ce[i], Hd(ce, i, ce[i].laneId))
      <3>1. ce[i] = e[k] /\ e[k] \in Entries  BY <1>1, <1>2, <2>3
      <3>2. e[k].laneId \in LaneIds  BY <3>1, EntryFacts
      <3>3. k \in 1..(Len(e) + 1)  BY <1>2
      <3>4. In(k, e[k].laneId) = Hd(ce, Len(c) + k, e[k].laneId)  BY <1>3, <3>2, <3>3
      <3>5. StartsAt(e[k], In(k, e[k].laneId))  BY DEF Follows
      <3>6. QED  BY <2>3, <3>1, <3>4, <3>5
    <2>4. CASE i > Len(c)
      <3>1. i - Len(c) \in 1..Len(e) /\ i = Len(c) + (i - Len(c))  BY <1>2, <2>4
      <3>2. QED  BY <2>3, <3>1
    <2>5. QED  BY <1>2, <2>2, <2>4
  <1>5. HeadInv'
    <2>1. SUFFICES ASSUME NEW l \in LaneIds PROVE laneHead'[l] = Hd(ce, Len(ce) + 1, l)
      BY DEF HeadInv
    <2>2. Len(LanesOf(e)) = Len(e)  BY <1>1, <1>2 DEF LanesOf
    <2>3. laneHead'[l] = In(Len(e) + 1, l)  BY <2>2 DEF HeadsAfter
    <2>4. Len(e) + 1 \in 1..(Len(e) + 1) /\ Len(c) + (Len(e) + 1) = Len(ce) + 1  BY <1>2
    <2>5. In(Len(e) + 1, l) = Hd(ce, Len(c) + (Len(e) + 1), l)  BY <1>3, <2>4
    <2>6. QED  BY <2>3, <2>4, <2>5
  <1>6. QED  BY <1>4, <1>5

\* Heads that nobody had set are initialized.
LEMMA InitializeStep ==
    ASSUME IInv, NEW in \in Inits, initializeLaneHeads(in[1], in[2]) PROVE IInv'
  <1> DEFINE lanes  == in[1]
             points == in[2]
             e == [i \in DOMAIN lanes |-> LaneHeadInitialized(lanes[i], points[i])]
  <1>1. /\ lanes \in Seq(LaneIds) /\ points \in Seq(Points \cup {Infinity})
        /\ InitializeOK(laneHead, lanes, points) /\ Len(lanes) = Len(points)
    BY CallsTyped DEF initializeLaneHeads, InitializeOK
  <1>2. CallInv /\ PastInv /\ HeadInv /\ CertifiedIsProved  BY DEF IInv
  <1>3. /\ Len(lanes) \in Nat /\ DOMAIN lanes = 1..Len(lanes) /\ DOMAIN points = 1..Len(lanes)
        /\ \A i \in 1..Len(lanes) : lanes[i] \in LaneIds /\ points[i] \in Points \cup {Infinity}
    BY <1>1
  <1>4. UNCHANGED <<verifyingKey, totalVerifiedTx>> /\ events' = events \o e
        /\ laneHead' = HeadsAfter(laneHead, lanes, points)
    BY DEF initializeLaneHeads
  <1> HIDE DEF lanes, points
  <1>5. \A i \in 1..Len(lanes) : e[i] \in Entries  BY <1>3 DEF Entries
  <1>6. e \in Seq(Entries) /\ Len(e) = Len(lanes)  BY <1>3, <1>5
  <1>7. /\ LanesOf(e) = lanes /\ NextsOf(e) = points
        /\ \A i \in 1..Len(lanes) : /\ e[i].laneId = lanes[i] /\ e[i].prev = Infinity
                                    /\ e[i].event = "LaneHeadInitialized"
    <2>1. DOMAIN e = DOMAIN lanes /\ DOMAIN e = DOMAIN points  BY <1>3
    <2>2. \A i \in 1..Len(lanes) :
              e[i].laneId = lanes[i] /\ e[i].next = points[i] /\ e[i].prev = Infinity
              /\ e[i].event = "LaneHeadInitialized"
      BY <1>3 DEF LaneHeadInitialized
    <2>3. lanes = [i \in DOMAIN lanes |-> lanes[i]] /\ points = [i \in DOMAIN points |-> points[i]]
      BY <1>1
    <2> HIDE DEF e
    <2>4. QED  BY <1>3, <2>1, <2>2, <2>3 DEF LanesOf, NextsOf
  <1>8. Follows(e)
    <2>1. ASSUME NEW k \in 1..Len(lanes)
          PROVE  StartsAt(e[k], HeadAt(laneHead, lanes, points, k, lanes[k]))
      <3>1. ~isSet(HeadAt(laneHead, lanes, points, k, lanes[k]))  BY <1>1, <1>3 DEF InitializeOK
      <3> HIDE DEF e
      <3>2. QED  BY <1>7, <3>1 DEF StartsAt, isSet
    <2> HIDE DEF e
    <2>2. QED  BY <1>6, <1>7, <2>1 DEF Follows
  <1>9. Certified' = Certified
    <2>1. /\ events \in Seq(Entries) /\ DOMAIN events = 1..Len(events) /\ Len(events) \in Nat
          /\ DOMAIN (events \o e) = 1..(Len(events) + Len(lanes))
          /\ \A j \in 1..Len(events) : (events \o e)[j] = events[j]
          /\ \A j \in 1..Len(lanes) : (events \o e)[Len(events) + j] = e[j]
      <3> HIDE DEF e
      <3>1. QED  BY <1>2, <1>6 DEF CallInv
    <2> HIDE DEF e
    <2>2. ASSUME NEW i \in 1..(Len(events) + Len(lanes)), i > Len(events)
          PROVE  (events \o e)[i].event = "LaneHeadInitialized"
      <3>1. i - Len(events) \in 1..Len(lanes) /\ i = Len(events) + (i - Len(events))
        BY <1>3, <2>1, <2>2
      <3>2. QED  BY <1>7, <2>1, <3>1
    <2>3. QED  BY <1>3, <1>4, <2>1, <2>2 DEF Certified
  <1> HIDE DEF e
  <1>10. PastInv' /\ HeadInv'  BY <1>2, <1>4, <1>7, <1>8, CallStep
  <1>11. CallInv'
    <2>1. events' \in Seq(Entries)  BY <1>2, <1>4, <1>6 DEF CallInv
    <2>2. QED  BY <1>2, <1>4, <1>9, <2>1 DEF CallInv
  <1>12. CertifiedIsProved'
    <2>1. \A i \in Certified : events'[i] = events[i]
      BY <1>2, <1>4, <1>6 DEF CallInv, Certified
    <2>2. QED  BY <1>2, <1>4, <1>9, <2>1 DEF CertifiedIsProved
  <1>13. QED  BY <1>2, <1>10, <1>11, <1>12 DEF IInv

\* What is appended comes after what was there.
LEMMA Appended ==
    ASSUME CallInv, NEW e \in Seq(Entries), events' = events \o e
    PROVE  /\ Len(events) \in Nat /\ DOMAIN events = 1..Len(events)
           /\ events' \in Seq(Entries) /\ DOMAIN events' = 1..(Len(events) + Len(e))
           /\ \A j \in 1..Len(events) : events'[j] = events[j]
           /\ \A j \in 1..Len(e) : events'[Len(events) + j] = e[j]
  <1>1. events \in Seq(Entries)  BY DEF CallInv
  <1>2. QED  BY <1>1

\* The numbers of m elements that follow on n count m more.
LEMMA CountMore ==
    ASSUME NEW n \in Nat, NEW m \in Nat, NEW C, C \subseteq 1..n
    PROVE  /\ Cardinality(C) \in Nat
           /\ Cardinality(C \cup (n + 1)..(n + m)) = Cardinality(C) + m
  <1> DEFINE More == (n + 1)..(n + m)
  <1>1. IsFiniteSet(1..n)  BY FS_Interval
  <1>2. IsFiniteSet(C)  BY <1>1, FS_Subset
  <1>3. Cardinality(C) \in Nat  BY <1>2, FS_CardinalityType
  <1>4. IsFiniteSet(More) /\ Cardinality(More) = m
    <2>1. n + 1 \in Int /\ n + m \in Int  OBVIOUS
    <2>2. /\ IsFiniteSet((n + 1)..(n + m))
          /\ Cardinality((n + 1)..(n + m)) = IF n + 1 > n + m THEN 0 ELSE (n + m) - (n + 1) + 1
      BY <2>1, FS_Interval
    <2>3. QED  BY <2>2
  <1>5. Cardinality(C \cap More) = 0
    <2>1. C \cap More = {}  OBVIOUS
    <2> HIDE DEF More
    <2>2. QED  BY <2>1, FS_EmptySet, Zenon
  <1>6. Cardinality(C \cup More) = Cardinality(C) + Cardinality(More) - Cardinality(C \cap More)
    <2> HIDE DEF More
    <2>1. QED  BY <1>2, <1>4, FS_Union
  <1> HIDE DEF More
  <1>7. Cardinality(C \cup More) = Cardinality(C) + m  BY <1>3, <1>4, <1>5, <1>6
  <1>8. QED  BY <1>3, <1>7 DEF More

\* The batches of a call are certified.
LEMMA VerifyStep ==
    ASSUME IInv, NEW artifacts \in Submissions, verifyBatches(artifacts) PROVE IInv'
  <1> DEFINE a == artifacts
             n == Len(events)
             e == [i \in DOMAIN a |-> BatchVerified(a[i])]
             More == (n + 1)..(n + Len(a))
  <1>1. a \in Seq(Artifacts) /\ LanesOf(a) \in Seq(LaneIds)  BY CallsTyped
  <1>2. CallInv /\ PastInv /\ HeadInv /\ CertifiedIsProved  BY DEF IInv
  <1>3. Len(a) \in Nat /\ DOMAIN a = 1..Len(a)  BY <1>1
  <1>4. /\ VerifyOK(verifyingKey, laneHead, a) /\ events' = events \o e
        /\ verifyingKey' = verifyingKey /\ laneHead' = HeadsAfter(laneHead, LanesOf(a), NextsOf(a))
        /\ totalVerifiedTx' = totalVerifiedTx + Len(a) * BATCH_TX_COUNT
    BY DEF verifyBatches, HeadsVerified, VerifiedTx
  <1> HIDE DEF a
  <1>5. ASSUME NEW k \in 1..Len(a)
        PROVE  /\ a[k] \in Artifacts /\ a[k].laneId \in LaneIds
               /\ isSet(a[k].prev)
               /\ a[k].prev = HeadAt(laneHead, LanesOf(a), NextsOf(a), k, a[k].laneId)
               /\ verifyBatchTransition(verifyingKey, a[k])
    <2>1. a[k] \in Artifacts  BY <1>1
    <2>2. a[k].laneId \in LaneIds
      <3>1. LanesOf(a)[k] = a[k].laneId  BY <1>3 DEF LanesOf
      <3>2. DOMAIN LanesOf(a) = DOMAIN a  BY DEF LanesOf
      <3>3. LanesOf(a)[k] \in LaneIds  BY <1>1, <1>3, <3>1, <3>2
      <3>4. QED  BY <3>1, <3>3
    <2>3. QED  BY <1>3, <1>4, <2>1, <2>2 DEF VerifyOK
  <1>6. \A k \in 1..Len(a) : /\ e[k] \in Entries /\ e[k].event = "BatchVerified" /\ e[k].artifact = a[k]
                             /\ e[k].laneId = a[k].laneId /\ e[k].prev = a[k].prev /\ e[k].next = a[k].next
    BY <1>3, <1>5 DEF Entries, BatchVerified
  <1>7. e \in Seq(Entries) /\ Len(e) = Len(a) /\ DOMAIN e = DOMAIN a  BY <1>3, <1>6
  <1> HIDE DEF e
  <1>8. LanesOf(e) = LanesOf(a) /\ NextsOf(e) = NextsOf(a)  BY <1>3, <1>6, <1>7 DEF LanesOf, NextsOf
  <1>9. Follows(e)  BY <1>5, <1>6, <1>7, <1>8 DEF Follows, StartsAt
  <1>10. PastInv' /\ HeadInv'  BY <1>2, <1>4, <1>8, <1>9, CallStep
  <1>11. /\ events \in Seq(Entries) /\ n \in Nat /\ DOMAIN events = 1..n
         /\ events' \in Seq(Entries) /\ DOMAIN events' = 1..(n + Len(a))
         /\ \A j \in 1..n : events'[j] = events[j]
         /\ \A j \in 1..Len(a) : events'[n + j] = e[j]
    <2>1. events \in Seq(Entries)  BY <1>2 DEF CallInv
    <2> HIDE DEF n
    <2>2. QED  BY <1>2, <1>4, <1>7, <2>1, Appended DEF n
  <1>12. \A i \in More : i - n \in 1..Len(a) /\ events'[i] = e[i - n]
    <2>1. TAKE i \in More
    <2>2. i - n \in 1..Len(a) /\ n + (i - n) = i  BY <1>3, <1>11
    <2>3. QED  BY <1>11, <2>2
  <1>13. Certified \subseteq 1..n /\ Certified' = Certified \cup More
    <2>1. Certified \subseteq 1..n  BY <1>11 DEF Certified
    <2>2. ASSUME NEW i \in 1..n PROVE i \in Certified' <=> i \in Certified
      <3>1. i \in DOMAIN events /\ i \in DOMAIN events' /\ events'[i] = events[i]  BY <1>3, <1>11
      <3>2. QED  BY <3>1 DEF Certified
    <2>3. ASSUME NEW i \in More PROVE i \in Certified'
      <3>1. events'[i] = e[i - n] /\ i - n \in 1..Len(a) /\ i \in 1..(n + Len(a))
        BY <1>3, <1>11, <1>12
      <3>2. QED  BY <1>6, <1>11, <3>1 DEF Certified
    <2>4. Certified' \subseteq 1..(n + Len(a))  BY <1>11 DEF Certified
    <2>5. 1..(n + Len(a)) = 1..n \cup More  BY <1>3, <1>11
    <2> HIDE DEF n, More
    <2>6. QED  BY <2>1, <2>2, <2>3, <2>4, <2>5, Zenon
  <1>14. verifyingKey \in Keys /\ verifyingKey # NoKey
    <2>1. 1 \in 1..Len(a)  BY <1>1, <1>3, <1>4 DEF VerifyOK
    <2>2. verifyBatchTransition(verifyingKey, a[1])  BY <1>5, <2>1
    <2>3. verifyingKey # NoKey  BY <2>2 DEF verifyBatchTransition
    <2>4. QED  BY <1>2, <2>3 DEF CallInv
  <1>15. CallInv'  BY <1>4, <1>11, <1>14 DEF CallInv
  <1>16. CertifiedIsProved'
    <2>1. Cardinality(Certified') = Cardinality(Certified) + Len(a) /\ Cardinality(Certified) \in Nat
      BY <1>3, <1>11, <1>13, CountMore
    <2>2. totalVerifiedTx' = BATCH_TX_COUNT * Cardinality(Certified')
      <3>1. totalVerifiedTx = BATCH_TX_COUNT * Cardinality(Certified)  BY <1>2 DEF CertifiedIsProved
      <3>2. BATCH_TX_COUNT \in Nat  BY BatchAssumption
      <3>3. QED  BY <1>3, <1>4, <2>1, <3>1, <3>2
    <2>3. ASSUME NEW i \in Certified'
          PROVE  events'[i].artifact.proof
                     = [key |-> verifyingKey, proves |-> Statement(events'[i].artifact)]
      <3>1. CASE i \in Certified  BY <1>2, <1>11, <1>13, <3>1 DEF CertifiedIsProved
      <3>2. CASE i \in More
        <4>1. events'[i].artifact = a[i - n] /\ i - n \in 1..Len(a)  BY <1>6, <1>12, <3>2
        <4>2. QED  BY <1>5, <4>1 DEF verifyBatchTransition
      <3>3. QED  BY <1>13, <3>1, <3>2
    <2>4. QED  BY <1>4, <2>2, <2>3 DEF CertifiedIsProved
  <1>17. QED  BY <1>10, <1>15, <1>16 DEF IInv

\* The invariant holds whatever calls are made, in whatever order.
LEMMA InvariantHolds == Spec => []IInv
  <1>1. Init => IInv  BY InitIInv
  <1>2. IInv /\ [Next]_vars => IInv'
    <2>1. SUFFICES ASSUME IInv, [Next]_vars PROVE IInv'  OBVIOUS
    <2>2. ASSUME NEW caller \in Callers, NEW key \in Keys, initializeVerifyingKey(caller, key)
          PROVE  IInv'
      BY <2>1, <2>2, KeyStep
    <2>3. ASSUME NEW in \in Inits, initializeLaneHeads(in[1], in[2]) PROVE IInv'
      BY <2>1, <2>3, InitializeStep
    <2>4. ASSUME NEW artifacts \in Submissions, verifyBatches(artifacts) PROVE IInv'
      BY <2>1, <2>4, VerifyStep
    <2>5. CASE UNCHANGED vars
      <3>1. Certified' = Certified  BY <2>5 DEF Certified, vars
      <3>2. CallInv'  BY <2>1, <2>5, <3>1 DEF IInv, CallInv, vars
      <3>3. CertifiedIsProved'  BY <2>1, <2>5, <3>1 DEF IInv, CertifiedIsProved, vars
      <3>4. PastInv' /\ HeadInv'  BY <2>1, <2>5 DEF IInv, PastInv, HeadInv, vars
      <3>5. QED  BY <3>2, <3>3, <3>4 DEF IInv
    <2>6. QED  BY <2>1, <2>2, <2>3, <2>4, <2>5 DEF Next
  <1>3. QED  BY <1>1, <1>2, PTL DEF Spec

-----------------------------------------------------------------------------
(* The theorems *)

\* What the loop over the events has written to lane l before i.
LEMMA PastHead ==
    ASSUME CallInv, NEW l \in LaneIds, NEW i \in 1..(Len(events) + 1)
    PROVE  Hd(events, i, l) = Left(l, i)
  <1> DEFINE earlier == {j \in Of(l) : j < i}
             W == Written(LanesOf(events), i, l)
  <1>1. DOMAIN events = 1..Len(events) /\ Len(events) \in Nat /\ i \in Nat \ {0}
    BY DEF CallInv
  <1>2. \A j \in DOMAIN events : /\ LanesOf(events)[j] = events[j].laneId
                                /\ NextsOf(events)[j] = events[j].next
    BY DEF LanesOf, NextsOf
  <1>3. earlier = W  BY <1>1, <1>2 DEF Of, Written
  <1>4. ASSUME W # {} PROVE NextsOf(events)[Max(W)] = events[Max(W)].next
    <2>1. Max(W) \in W  BY <1>1, <1>4, WrittenMax
    <2>2. Max(W) \in DOMAIN events  BY <1>1, <2>1 DEF Written
    <2>3. QED  BY <1>2, <2>2
  <1>5. Hd(events, i, l) = IF W = {} THEN Infinity ELSE NextsOf(events)[Max(W)]
    BY DEF Hd, HeadAt, Written, Unset
  <1>6. QED  BY <1>3, <1>4, <1>5 DEF Left

\* LaneIsChain: the calls of initializeLaneHeads and verifyBatches make every lane one
\* chain of commitments, with a new initial head only where a proved batch has ended
\* at infinity, for any number of lanes, callers and batches in a call.
THEOREM LanesAreChains == Spec => []LaneIsChain
  <1>1. IInv => LaneIsChain
    <2>1. SUFFICES ASSUME IInv, NEW l \in LaneIds
                   PROVE  /\ laneHead[l] = Left(l, Len(events) + 1)
                          /\ \A i \in Of(l) : /\ events[i].prev = Left(l, i)
                                              /\ i \in Certified <=> isSet(Left(l, i))
      BY DEF LaneIsChain
    <2>2. CallInv /\ PastInv /\ HeadInv  BY <2>1 DEF IInv
    <2>3. DOMAIN events = 1..Len(events) /\ Len(events) \in Nat  BY <2>2 DEF CallInv
    <2>4. laneHead[l] = Left(l, Len(events) + 1)
      <3>1. Len(events) + 1 \in 1..(Len(events) + 1)  BY <2>3
      <3>2. QED  BY <2>2, <3>1, PastHead DEF HeadInv
    <2>5. ASSUME NEW i \in Of(l)
          PROVE  events[i].prev = Left(l, i) /\ (i \in Certified <=> isSet(Left(l, i)))
      <3>1. i \in DOMAIN events /\ events[i].laneId = l /\ i \in 1..(Len(events) + 1)
        BY <2>3 DEF Of
      <3>2. StartsAt(events[i], Hd(events, i, l))  BY <2>2, <3>1 DEF PastInv
      <3>3. StartsAt(events[i], Left(l, i))  BY <2>2, <3>1, <3>2, PastHead
      <3>4. QED  BY <3>1, <3>3 DEF StartsAt, Certified
    <2>6. QED  BY <2>4, <2>5
  <1>2. QED  BY <1>1, InvariantHolds, PTL

\* CertifiedIsProved: a batch is certified only by a proof for its own statement
\* under the contract's key, and totalVerifiedTx counts each batch once.
THEOREM CertifiedBatchesAreProved == Spec => []CertifiedIsProved
  <1>1. IInv => CertifiedIsProved  BY DEF IInv
  <1>2. QED  BY <1>1, InvariantHolds, PTL

\* TotalPreserved: along a lane's chain no batch changes the total, so the state
\* behind its head has the total of the state it was last initialized with.
THEOREM TotalsArePreserved == Spec => []TotalPreserved
  <1>1. IInv => TotalPreserved
    <2>1. SUFFICES ASSUME IInv, NEW l \in LaneIds, verifyingKey # NoKey, isSet(laneHead[l])
                   PROVE  Total(laneHead[l]) = Total(Initialization(l).next)
      BY DEF TotalPreserved
    <2> DEFINE last == Len(events)
               H(i) == Hd(events, i, l)
               Begun(i) == {j \in Of(l) \ Certified : j < i}
               Kept(i) == isSet(H(i)) => Total(H(i)) = Total(events[Max(Begun(i))].next)
               N == {i \in Nat : i + 1 \in 1..(last + 1) => Kept(i + 1)}
    <2>2. CallInv /\ PastInv /\ HeadInv /\ CertifiedIsProved  BY <2>1 DEF IInv
    <2>3. DOMAIN events = 1..last /\ last \in Nat /\ \A i \in 1..last : events[i] \in Entries
      BY <2>2 DEF CallInv
    <2>4. ASSUME NEW i \in Certified, isSet(events[i].prev), isSet(events[i].next)
          PROVE  Total(events[i].prev) = Total(events[i].next)
      <3> DEFINE a == events[i].artifact
      <3>1. verifyingKey \in Keys  BY <2>1, <2>2 DEF CallInv
      <3>2. a \in Artifacts /\ events[i].prev = a.prev /\ events[i].next = a.next
        <4>1. events[i] \in Entries /\ events[i].event = "BatchVerified"  BY <2>3 DEF Certified
        <4>2. QED  BY <4>1, EntryFacts
      <3>3. verifyBatchTransition(verifyingKey, a)
        BY <2>1, <2>2, <2>4 DEF CertifiedIsProved, verifyBatchTransition
      <3> HIDE DEF a
      <3>4. QED  BY <2>4, <3>1, <3>2, <3>3, GoodProof DEF Total
    <2>5. 0 \in N
      <3>1. H(1) = Infinity  BY HeadAtFirst DEF Hd, Unset
      <3>2. QED  BY <3>1 DEF isSet
    <2>6. ASSUME NEW i \in Nat, i \in N PROVE i + 1 \in N
      <3> DEFINE k == i + 1
      <3>1. SUFFICES ASSUME k \in 1..last, isSet(H(k + 1))
                     PROVE  Total(H(k + 1)) = Total(events[Max(Begun(k + 1))].next)
        BY <2>3
      <3>2. k \in DOMAIN events /\ k \in Nat \ {0}  BY <2>3, <3>1
      <3>3. Kept(k)  BY <2>3, <2>6, <3>1
      <3>4. /\ LanesOf(events)[k] = events[k].laneId
            /\ NextsOf(events)[k] = events[k].next
        BY <3>2 DEF LanesOf, NextsOf
      <3>5. Of(l) \subseteq Nat  BY <2>3 DEF Of
      <3> HIDE DEF k
      <3>6. ASSUME k \notin Of(l) \ Certified PROVE Begun(k + 1) = Begun(k)
        <4>1. \A j \in Of(l) : j < k + 1 <=> (j < k \/ j = k)  BY <3>2, <3>5
        <4>2. QED  BY <3>6, <4>1
      <3>7. CASE events[k].laneId # l
        <4>1. H(k + 1) = H(k)  BY <3>2, <3>4, <3>7, HeadAtSame DEF Hd
        <4>2. k \notin Of(l)  BY <3>7 DEF Of
        <4>3. QED  BY <3>1, <3>3, <3>6, <4>1, <4>2
      <3>8. CASE events[k].laneId = l
        <4>1. H(k + 1) = events[k].next
          <5>1. JustWritten(LanesOf(events), k + 1, k, l)  BY <3>2, <3>4, <3>8 DEF JustWritten
          <5>2. QED  BY <3>4, <5>1, HeadAtWrite DEF Hd
        <4>2. StartsAt(events[k], H(k))  BY <2>2, <3>2, <3>8 DEF PastInv
        <4>3. CASE k \in Certified
          <5>1. events[k].prev = H(k) /\ isSet(H(k))  BY <3>2, <4>2, <4>3 DEF StartsAt, Certified
          <5>2. Total(events[k].next) = Total(H(k))  BY <2>4, <3>1, <4>1, <4>3, <5>1
          <5>3. Begun(k + 1) = Begun(k)  BY <3>6, <4>3
          <5> HIDE DEF Begun, H
          <5>4. QED  BY <3>3, <4>1, <5>1, <5>2, <5>3
        <4>4. CASE k \notin Certified
          <5>1. k \in Begun(k + 1) /\ Begun(k + 1) \subseteq Nat /\ \A j \in Begun(k + 1) : j <= k
            BY <3>2, <3>5, <3>8, <4>4 DEF Of
          <5> HIDE DEF Begun, H
          <5>2. Max(Begun(k + 1)) = k  BY <5>1, MaxIs
          <5>3. QED  BY <4>1, <5>2
        <4>5. QED  BY <4>3, <4>4
      <3>9. QED  BY <3>7, <3>8
    <2>7. \A i \in Nat : i \in N
      <3> HIDE DEF N
      <3>1. QED  BY <2>5, <2>6, NatSetInduction
    <2>8. Kept(last + 1)  BY <2>3, <2>7
    <2>9. H(last + 1) = laneHead[l]  BY <2>2 DEF HeadInv
    <2>10. Begun(last + 1) = Of(l) \ Certified
      <3>1. \A j \in Of(l) : j < last + 1  BY <2>3 DEF Of
      <3>2. QED  BY <3>1
    <2> HIDE DEF Begun, H
    <2>11. QED  BY <2>1, <2>8, <2>9, <2>10 DEF Initialization
  <1>2. QED  BY <1>1, InvariantHolds, PTL

-----------------------------------------------------------------------------
(* The operators of kaia-proofctl at the contracts *)

\* q is a sequence.
Row(q) == \E D : q \in Seq(D)

\* A row has a length.
LEMMA RowFacts == ASSUME NEW q, Row(q) PROVE Len(q) \in Nat /\ DOMAIN q = 1..Len(q)
  BY DEF Row

\* One more at the end.
LEMMA RowAppend ==
    ASSUME NEW q, Row(q), NEW v
    PROVE  /\ Row(Append(q, v)) /\ Len(Append(q, v)) = Len(q) + 1
           /\ Append(q, v)[Len(q) + 1] = v /\ \A k \in 1..Len(q) : Append(q, v)[k] = q[k]
  <1>1. PICK D : q \in Seq(D)  BY DEF Row
  <1>2. q \in Seq(D \cup {v}) /\ v \in D \cup {v}  BY <1>1
  <1>3. Append(q, v) \in Seq(D \cup {v})  BY <1>2
  <1>4. QED  BY <1>2, <1>3 DEF Row

\* What init-lane-heads sends.
LaneHeadSet == [laneId : LaneIds, initialHead : Points]

\* The command that a script is at, and how many transactions it sends.
Cmd(p, st) == Scripts[p][Len(st.reported) + 1]

NumJobs(c, lanes) ==
    IF c.kind = "init-lane-heads" THEN (IF c.bulk THEN 1 ELSE Len(lanes))
    ELSE IF c.kind \in Deploys \cup {"init-vk"} THEN 1 ELSE Len(c.to)

StFields == {"pc", "run", "i", "nonces", "lanes", "env", "reported"}
Working  == {"nonce", "build", "send", "wait"}

\* The locals of a command fit the command.
StOK(p, st) ==
    /\ DOMAIN st = StFields /\ st.pc \in {"read", "failed", "done"} \cup Working
    /\ st.run \in Nat /\ st.i \in Nat /\ Row(st.reported) /\ st.lanes \in Seq(LaneHeadSet)
    /\ Len(st.reported) <= Len(Scripts[p])
    /\ st.pc # "done" => Len(st.reported) + 1 \in DOMAIN Scripts[p]
    /\ st.pc = "read" => /\ Cmd(p, st).kind = "init-lane-heads"
                         /\ st.i \in DOMAIN Cmd(p, st).bundle.laneHeads
    /\ st.pc \in Working => /\ st.i \in 1..NumJobs(Cmd(p, st), st.lanes)
                            /\ Cmd(p, st).kind = "init-lane-heads" => st.lanes # <<>>
                            /\ Cmd(p, st).kind = "estimate-bundle" => st.pc = "build"

\* Has transaction i of the current command been sent?
SentNow(c, st, i) ==
    \/ st.pc \in {"nonce", "build"} /\ c.kind \notin Upfront /\ i < st.i
    \/ st.pc = "send" /\ i < st.i
    \/ st.pc = "wait" /\ (c.kind \in Burst \cup Upfront \/ i <= st.i)
    \/ st.pc = "failed"

\* Transaction i of command k of run r may have been sent.
Past(p, st, r, k, i) ==
    \/ r < st.run
    \/ r = st.run /\ k <= Len(st.reported)
    \/ r = st.run /\ k = Len(st.reported) + 1 /\ SentNow(Cmd(p, st), st, i)

\* Transaction j of command k has succeeded.
Good(p, st, k, j) == <<p, st.run, k, j>> \in DOMAIN receipt /\ receipt[<<p, st.run, k, j>>].ok

\* The names that are known are those of contracts.
EnvOK(p, st) == \A n : Known(Scenarios[scenario], Scripts[p], Len(st.reported), n)
                            => n \in DOMAIN st.env /\ st.env[n] \in DOMAIN contracts

\* Commands that look at the status have seen those before the current one succeed.
WaitOK(p, st) ==
    (/\ st.pc \in Working /\ ChecksStatus(Cmd(p, st).kind)
     /\ st.pc = "wait" \/ Cmd(p, st).kind \notin Burst \cup Upfront)
        => \A j \in 1..(st.i - 1) : Good(p, st, Len(st.reported) + 1, j)

ReportOK(p, st) == \A k \in DOMAIN st.reported :
    Scripts[p][k].kind \in Submit /\ ChecksStatus(Scripts[p][k].kind) =>
        /\ st.reported[k] = Scripts[p][k].bundle.verifiedTxTotal * Len(Scripts[p][k].to)
        /\ \A j \in DOMAIN Scripts[p][k].to : Good(p, st, k, j)

ProcInv == /\ scenario \in DOMAIN Scenarios /\ nonce \in [Senders -> Nat] /\ DOMAIN proc = Procs
           /\ \A p \in Procs : StOK(p, proc[p])

\* Every transaction was sent by a command, and by one only.
IsId(id, p, r, k, i) == id = <<p, r, k, i>> /\ r \in Nat /\ k \in DOMAIN Scripts[p] /\ i \in Nat

IdOK(id) == \E p \in Procs : \E r, k, i : IsId(id, p, r, k, i) /\ Past(p, proc[p], r, k, i)

IdInv == /\ \A tx \in pool : IdOK(tx.id) /\ tx.id \notin DOMAIN receipt
         /\ \A id \in DOMAIN receipt : IdOK(id)
         /\ \A t, u \in pool : t.id = u.id => t = u

CommandOf(id) == Scripts[id[1]][id[3]]

\* A transaction is the one of its command.
TxOK(tx) ==
    /\ tx.from \in Senders
    /\ CommandOf(tx.id).kind \in Deploys =>
          tx.call.op = "create" /\ \E x : tx.call.contract \in {Verifier(x), Certifier(x)}
    /\ CommandOf(tx.id).kind \in Submit =>
          /\ tx.call = [op |-> "verify", artifacts |-> CommandOf(tx.id).bundle.artifacts]
          /\ tx.to \in DOMAIN contracts
    /\ CommandOf(tx.id).kind = "init-lane-heads" => tx.call.op = "init" /\ tx.call.lanes \in Seq(LaneIds)
    /\ CommandOf(tx.id).kind = "init-vk" => tx.call.op = "vk"
    /\ CommandOf(tx.id).kind = "fund-accounts" => tx.call.op = "pay"
    /\ CommandOf(tx.id).kind # "estimate-bundle"

PoolInv == \A tx \in pool : TxOK(tx)

ReceiptOK(id) ==
    /\ receipt[id].certified \in Nat
    /\ receipt[id].certified > 0 => receipt[id].at \in DOMAIN contracts
    /\ CommandOf(id).kind \in Deploys => receipt[id].at \in DOMAIN contracts
    /\ CommandOf(id).kind \in Submit /\ receipt[id].ok =>
          receipt[id].certified = CommandOf(id).bundle.verifiedTxTotal

ReceiptInv == \A id \in DOMAIN receipt : ReceiptOK(id)

\* An account has used the nonces of the contracts it has created.
AddressInv ==
    /\ DOMAIN Scenarios[scenario].contracts \subseteq DOMAIN contracts
    /\ \A a \in DOMAIN contracts :
          \/ a \in DOMAIN Scenarios[scenario].contracts
          \/ \E s \in Senders, n \in Nat : a = <<s, n>> /\ n < nonce[s]

IsSubmission(c) == c.kind \in Submit
                   /\ \E p \in Procs : \E k \in DOMAIN Scripts[p] : c = Scripts[p][k]

\* The lanes of a bundle are where it ends.
Ends(heads, b) == \A i \in DOMAIN b.artifacts : heads[b.artifacts[i].laneId] = b.artifacts[i].next

CertifierShape(c) == DOMAIN c = {"verifier", "heads", "total"} /\ DOMAIN c.heads = LaneIds

\* A certifier has certified nothing, or one bundle with whose heads no other goes on.
CertOK(a) ==
    /\ CertifierShape(contracts[a])
    /\ \/ Certifications(a) = {} /\ contracts[a].total = 0
       \/ \E id \in DOMAIN receipt :
             /\ Certifications(a) = {id} /\ contracts[a].total = receipt[id].certified
             /\ \E c : IsSubmission(c) /\ Ends(contracts[a].heads, c.bundle)

CertInv == \A a \in DOMAIN contracts : "total" \in DOMAIN contracts[a] => CertOK(a)

ScriptInv == \A p \in Procs : EnvOK(p, proc[p]) /\ WaitOK(p, proc[p]) /\ ReportOK(p, proc[p])

CtlInv == ProcInv /\ IdInv /\ PoolInv /\ ReceiptInv /\ AddressInv /\ CertInv /\ ScriptInv

\* What a scenario says of the scripts.
LEMMA ScriptFacts ==
    ASSUME ScenariosOK, scenario \in DOMAIN Scenarios, NEW p \in Procs
    PROVE  /\ Row(Scripts[p]) /\ Len(Scripts[p]) > 0
           /\ \A k \in DOMAIN Scripts[p] :
                 /\ CommandOK(Scripts[p][k]) /\ Row(Scripts[p][k].keys) /\ Row(Scripts[p][k].to)
                 /\ Scripts[p][k].kind = "init-lane-heads" => Row(Scripts[p][k].bundle.laneHeads)
                 /\ Scripts[p][k].kind \in Submit => \A n \in DOMAIN Scripts[p][k].to :
                       Known(Scenarios[scenario], Scripts[p], k - 1, Scripts[p][k].to[n])
  <1> DEFINE s == Scripts[p]
  <1>1. ScenarioOK(Scenarios[scenario]) /\ p \in DOMAIN Scenarios[scenario].script
        /\ s = Scenarios[scenario].script[p]
    BY DEF ScenariosOK, Procs, Scripts
  <1>2. /\ s \in Seq(Range(s)) /\ s # <<>>
        /\ \A k \in DOMAIN s : /\ CommandOK(s[k])
                               /\ s[k].kind \in Submit => \A n \in DOMAIN s[k].to :
                                     Known(Scenarios[scenario], s, k - 1, s[k].to[n])
    BY <1>1 DEF ScenarioOK
  <1>3. Row(s) /\ Len(s) > 0  BY <1>2 DEF Row
  <1>4. ASSUME NEW c, CommandOK(c)
        PROVE  /\ Row(c.keys) /\ Row(c.to)
               /\ c.kind = "init-lane-heads" => Row(c.bundle.laneHeads)
    BY <1>4 DEF CommandOK, Row
  <1>5. QED  BY <1>2, <1>3, <1>4

\* The locals of a run before its first command.
NewScript(p, run) == [pc |-> "", run |-> run, i |-> 1, nonces |-> <<>>, lanes |-> <<>>,
                      env |-> Scenarios[scenario].env, reported |-> <<>>]

\* There is a command to start.
Opened(p, st) == /\ DOMAIN st = StFields /\ st.run \in Nat /\ Row(st.reported)
                 /\ Len(st.reported) + 1 \in DOMAIN Scripts[p]

\* A command starts with its locals in order, whatever the last one left.
LEMMA StartsOK ==
    ASSUME ScenariosOK, scenario \in DOMAIN Scenarios, NEW p \in Procs, NEW st, Opened(p, st)
    PROVE  LET new == Start(st, Cmd(p, st)) IN
           /\ new.run = st.run /\ new.reported = st.reported /\ new.env = st.env
           /\ StOK(p, new) /\ WaitOK(p, new)
  <1> DEFINE c == Cmd(p, st)
             new == Start(st, c)
             k == Len(st.reported) + 1
  <1>1. c = Scripts[p][k] /\ k \in DOMAIN Scripts[p]  BY DEF Cmd, Opened
  <1>2. /\ CommandOK(c) /\ (c.kind = "init-lane-heads" => Row(c.bundle.laneHeads))
        /\ Row(c.to) /\ Row(Scripts[p])
    BY <1>1, ScriptFacts
  <1>3. /\ Len(st.reported) \in Nat
        /\ DOMAIN Scripts[p] = 1..Len(Scripts[p]) /\ Len(Scripts[p]) \in Nat
    BY <1>2, RowFacts DEF Opened
  <1>4. /\ DOMAIN new = StFields /\ new.run = st.run /\ new.reported = st.reported /\ new.env = st.env
        /\ new.i = 1
        /\ new.pc = IF c.kind = "init-lane-heads" /\ c.skipExisting THEN "read"
                    ELSE IF c.kind = "estimate-bundle" THEN "build" ELSE "nonce"
        /\ new.lanes = IF c.kind = "init-lane-heads" /\ ~c.skipExisting THEN c.bundle.laneHeads
                       ELSE <<>>
    BY DEF Start, Opened, StFields
  <1> HIDE DEF new
  <1>5. Cmd(p, new) = c  BY <1>4 DEF Cmd
  <1>6. c.kind = "init-lane-heads" =>
            /\ c.bundle.laneHeads \in Seq(LaneHeadSet)
            /\ Len(c.bundle.laneHeads) \in Nat /\ Len(c.bundle.laneHeads) > 0
            /\ DOMAIN c.bundle.laneHeads = 1..Len(c.bundle.laneHeads) /\ c.bundle.laneHeads # <<>>
    <2>1. SUFFICES ASSUME c.kind = "init-lane-heads"
                   PROVE  c.bundle.laneHeads \in Seq(LaneHeadSet) /\ c.bundle.laneHeads # <<>>
      OBVIOUS
    <2>2. QED  BY <1>2, <2>1 DEF CommandOK, LaneHeadSet
  <1>7. new.lanes \in Seq(LaneHeadSet)  BY <1>4, <1>6
  <1>8. new.pc \in {"read", "build", "nonce"}  BY <1>4
  <1>9. new.pc = "read" => c.kind = "init-lane-heads" /\ 1 \in DOMAIN c.bundle.laneHeads  BY <1>4, <1>6
  <1>10. new.pc \in Working => /\ 1 \in 1..NumJobs(c, new.lanes)
                               /\ c.kind = "init-lane-heads" => new.lanes # <<>>
    <2>1. SUFFICES ASSUME new.pc \in Working
                   PROVE  /\ 1 \in 1..NumJobs(c, new.lanes)
                          /\ c.kind = "init-lane-heads" => new.lanes # <<>>  OBVIOUS
    <2>2. new.pc # "read"  BY <2>1 DEF Working
    <2>3. CASE c.kind = "init-lane-heads"
      <3>1. new.lanes = c.bundle.laneHeads  BY <1>4, <2>2, <2>3
      <3>2. QED  BY <1>6, <2>3, <3>1 DEF NumJobs
    <2>4. CASE c.kind \in Deploys \cup {"init-vk"}  
      <3>1. c.kind # "init-lane-heads" /\ NumJobs(c, new.lanes) = 1  BY <2>4 DEF NumJobs, Deploys
      <3>2. QED  BY <3>1
    <2>5. CASE c.kind # "init-lane-heads" /\ c.kind \notin Deploys \cup {"init-vk"}
      <3>1. c.to # <<>>  BY <1>2, <2>5 DEF CommandOK, Deploys, Submit
      <3>2. Len(c.to) \in Nat /\ Len(c.to) > 0  BY <1>2, <3>1 DEF Row
      <3>3. QED  BY <2>5, <3>2 DEF NumJobs
    <2>6. QED  BY <2>3, <2>4, <2>5
  <1>11. StOK(p, new)
    <2>1. new.pc \in Working /\ c.kind = "estimate-bundle" => new.pc = "build"  BY <1>4
    <2>2. QED
      BY <2>1, <1>1, <1>3, <1>4, <1>5, <1>7, <1>8, <1>9, <1>10 DEF StOK, Opened, Working
  <1>12. WaitOK(p, new)
    <2>1. 1..(new.i - 1) = {}  BY <1>4
    <2>2. QED  BY <2>1, Zenon DEF WaitOK
  <1>13. QED  BY <1>4, <1>11, <1>12, Zenon DEF new

\* A function on 1..n is a row of n places.
LEMMA RowIs == ASSUME NEW n \in Nat, NEW f, f = [k \in 1..n |-> f[k]]
               PROVE  Row(f) /\ Len(f) = n /\ DOMAIN f = 1..n
  <1> DEFINE D == {f[k] : k \in 1..n}
  <1>1. f \in [1..n -> D]
    <2>1. \A k \in 1..n : f[k] \in D  OBVIOUS
    <2> HIDE DEF D
    <2>2. QED  BY <2>1
  <1> HIDE DEF D
  <1>2. f \in Seq(D) /\ Len(f) = n  BY <1>1
  <1>3. QED  BY <1>1, <1>2 DEF Row

\* The transaction is one of those of the command.
JobOK(p, j) ==
    LET c == Command(p) IN
    /\ j.from \in Senders
    /\ c.kind \in Deploys =>
          j.call.op = "create" /\ \E x : j.call.contract \in {Verifier(x), Certifier(x)}
    /\ c.kind \in Submit \cup {"estimate-bundle"} =>
          /\ j.call = [op |-> "verify", artifacts |-> c.bundle.artifacts]
          /\ j.to = proc[p].env[c.to[proc[p].i]] /\ proc[p].i \in DOMAIN c.to
    /\ c.kind = "init-lane-heads" => j.call.op = "init" /\ j.call.lanes \in Seq(LaneIds)
    /\ c.kind = "init-vk" => j.call.op = "vk"
    /\ c.kind = "fund-accounts" => j.call.op = "pay"

\* Jobs are as many as the command sends, and the one it is at is of its kind.
LEMMA JobsOK ==
    ASSUME ScenariosOK, scenario \in DOMAIN Scenarios, NEW p \in Procs, StOK(p, proc[p]),
           proc[p].pc \in Working
    PROVE  Len(Jobs(p)) = NumJobs(Command(p), proc[p].lanes) /\ JobOK(p, Job(p))
  <1> DEFINE st == proc[p]
             c  == Command(p)
             to == [k \in DOMAIN c.to |-> st.env[c.to[k]]]
             k0 == Len(st.reported) + 1
             n  == NumJobs(c, st.lanes)
             js == Jobs(p)
  <1>1. c = Scripts[p][k0] /\ c = Cmd(p, st)  BY DEF Command, CommandNo, Cmd
  <1>2. k0 \in DOMAIN Scripts[p]  BY DEF StOK, Working
  <1>3. CommandOK(c) /\ Row(c.keys) /\ Row(c.to)
    <2> HIDE DEF c, k0
    <2>1. QED  BY <1>1, <1>2, ScriptFacts
  <1>4. /\ Len(c.to) \in Nat /\ DOMAIN c.to = 1..Len(c.to)
        /\ Len(c.keys) \in Nat /\ DOMAIN c.keys = 1..Len(c.keys)
    <2> HIDE DEF c
    <2>1. QED  BY <1>3, RowFacts
  <1>5. c.keys[1] \in Senders /\ \A k \in DOMAIN c.keys : c.keys[k] \in Senders
    BY <1>3, <1>4 DEF CommandOK
  <1>6. /\ st.i \in 1..n /\ st.lanes \in Seq(LaneHeadSet)
        /\ c.kind = "init-lane-heads" => st.lanes # <<>>
    BY <1>1 DEF StOK
  <1>7. Row(to) /\ Len(to) = Len(c.to) /\ DOMAIN to = 1..Len(c.to)
    <2> HIDE DEF c, st
    <2>1. to = [k \in 1..Len(c.to) |-> to[k]]  BY <1>4
    <2> HIDE DEF to
    <2>2. QED  BY <1>4, <2>1, RowIs
  <1>8. js = CASE c.kind = "deploy-verifier"  -> DeployVerifierJobs(c)
               [] c.kind = "deploy-certifier" -> DeployCertifierJobs(c, to)
               [] c.kind = "init-lane-heads"  -> InitLaneHeadsJobs(c, to, st.lanes)
               [] c.kind = "init-vk"          -> InitVerifyingKeyJobs(c, to)
               [] c.kind = "fund-accounts"    -> FundJobs(c, to)
               [] OTHER                       -> SubmitJobs(c, to)
    BY Zenon DEF Jobs
  <1>9. Job(p) = js[st.i]  BY Zenon DEF Job
  <1> SUFFICES Len(js) = n /\ JobOK(p, js[st.i])  BY <1>9
  <1> HIDE DEF c, st, to, js
  <1>10. CASE c.kind = "deploy-verifier"
    <2>1. js = DeployVerifierJobs(c)  BY <1>8, <1>10
    <2>2. n = 1  BY <1>10, Zenon DEF NumJobs, Deploys
    <2>3. QED  BY <1>5, <1>6, <1>10, <2>1, <2>2 DEF DeployVerifierJobs, JobOK, Deploys, Submit, c
  <1>11. CASE c.kind = "deploy-certifier"
    <2>1. js = DeployCertifierJobs(c, to)  BY <1>8, <1>11
    <2>2. n = 1  BY <1>11, Zenon DEF NumJobs, Deploys
    <2>3. QED  BY <1>5, <1>6, <1>11, <2>1, <2>2 DEF DeployCertifierJobs, JobOK, Deploys, Submit, c
  <1>12. CASE c.kind = "init-lane-heads"
    <2> DEFINE InitJob(ls) == [from |-> c.keys[1], to |-> to[1],
                               call |-> [op |-> "init", lanes |-> [k \in DOMAIN ls |-> ls[k].laneId],
                                         points |-> [k \in DOMAIN ls |-> ls[k].initialHead]]]
    <2>1. js = InitLaneHeadsJobs(c, to, st.lanes)  BY <1>8, <1>12
    <2>2. js = IF ~c.bulk THEN [k \in DOMAIN st.lanes |-> InitJob(<<st.lanes[k]>>)]
               ELSE <<InitJob(st.lanes)>>
      BY <1>6, <1>12, <2>1, Zenon DEF InitLaneHeadsJobs
    <2>3. n = IF c.bulk THEN 1 ELSE Len(st.lanes)  BY <1>12, Zenon DEF NumJobs
    <2>4. ASSUME NEW ls \in Seq(LaneHeadSet)
          PROVE  /\ InitJob(ls).from \in Senders /\ InitJob(ls).call.op = "init"
                 /\ InitJob(ls).call.lanes \in Seq(LaneIds)
      <3> DEFINE q == [k \in DOMAIN ls |-> ls[k].laneId]
      <3>1. q \in [1..Len(ls) -> LaneIds]
        <4>1. DOMAIN ls = 1..Len(ls) /\ \A k \in 1..Len(ls) : ls[k] \in LaneHeadSet  OBVIOUS
        <4>2. \A k \in 1..Len(ls) : ls[k].laneId \in LaneIds  BY <4>1 DEF LaneHeadSet
        <4>3. QED  BY <4>1, <4>2
      <3>2. q \in Seq(LaneIds)  BY <3>1
      <3>3. QED  BY <1>5, <3>2
    <2> HIDE DEF InitJob
    <2>5. Len(js) = n /\ \E ls \in Seq(LaneHeadSet) : js[st.i] = InitJob(ls)
      <3>1. CASE c.bulk  BY <1>6, <2>2, <2>3, <3>1
      <3>2. CASE ~c.bulk
        <4>1. js = [k \in 1..Len(st.lanes) |-> InitJob(<<st.lanes[k]>>)] /\ n = Len(st.lanes)
          BY <1>6, <2>2, <2>3, <3>2
        <4>2. js = [k \in 1..n |-> js[k]] /\ n \in Nat /\ js[st.i] = InitJob(<<st.lanes[st.i]>>)
          BY <1>6, <4>1
        <4>3. <<st.lanes[st.i]>> \in Seq(LaneHeadSet)  BY <1>6, <4>1
        <4>4. QED  BY <4>2, <4>3, RowIs
      <3>3. QED  BY <3>1, <3>2
    <2>6. QED  BY <1>12, <2>4, <2>5 DEF JobOK, Deploys, Submit, c
  <1>13. CASE c.kind = "init-vk"
    <2>1. js = InitVerifyingKeyJobs(c, to)  BY <1>8, <1>13
    <2>2. n = 1  BY <1>13, Zenon DEF NumJobs
    <2>3. QED  BY <1>5, <1>6, <1>13, <2>1, <2>2 DEF InitVerifyingKeyJobs, JobOK, Deploys, Submit, c
  <1>14. CASE c.kind = "fund-accounts"
    <2>1. js = FundJobs(c, to)  BY <1>8, <1>14
    <2>2. n = Len(c.to)  BY <1>14 DEF NumJobs, Deploys
    <2>3. js = [k \in 1..n |-> js[k]] /\ n \in Nat  BY <1>4, <1>7, <2>1, <2>2 DEF FundJobs
    <2>4. Len(js) = n  BY <2>3, RowIs
    <2>5. js[st.i] = [from |-> c.keys[1], to |-> to[st.i], call |-> [op |-> "pay"]]
      BY <1>6, <1>7, <2>1, <2>2 DEF FundJobs
    <2>6. QED  BY <1>5, <1>14, <2>4, <2>5 DEF JobOK, Deploys, Submit, c
  <1>15. CASE c.kind \in Submit \cup {"estimate-bundle"}
    <2>1. js = SubmitJobs(c, to)
      <3>1. c.kind \notin {"deploy-verifier", "deploy-certifier", "init-lane-heads", "init-vk", "fund-accounts"}
        BY <1>15 DEF Submit
      <3>2. QED  BY <1>8, <3>1
    <2>2. n = Len(c.to)  BY <1>15 DEF NumJobs, Deploys, Submit
    <2>3. js = [k \in 1..n |-> js[k]] /\ n \in Nat  BY <1>4, <1>7, <2>1, <2>2 DEF SubmitJobs
    <2>4. Len(js) = n  BY <2>3, RowIs
    <2>5. js[st.i] = [from |-> IF c.kind \in Upfront THEN c.keys[st.i] ELSE c.keys[1], to |-> to[st.i],
                      call |-> [op |-> "verify", artifacts |-> c.bundle.artifacts]]
      BY <1>6, <1>7, <2>1, <2>2 DEF SubmitJobs
    <2>6. js[st.i].from \in Senders
      <3>1. c.kind \in Upfront => st.i \in DOMAIN c.keys  BY <1>3, <1>4, <1>6, <2>2 DEF CommandOK
      <3>2. QED  BY <1>5, <2>5, <3>1
    <2>7. js[st.i].to = st.env[c.to[st.i]] /\ st.i \in DOMAIN c.to  BY <1>4, <1>6, <2>2, <2>5 DEF to
    <2>8. js[st.i].call = [op |-> "verify", artifacts |-> c.bundle.artifacts]  BY <2>5
    <2>9. QED
      <3>1. c.kind \notin Deploys /\ c.kind \notin {"init-lane-heads", "init-vk", "fund-accounts"}
        BY <1>15 DEF Submit, Deploys
      <3>2. QED  BY <2>4, <2>6, <2>7, <2>8, <3>1, Zenon DEF JobOK, c, st
  <1>16. QED  BY <1>3, <1>10, <1>11, <1>12, <1>13, <1>14, <1>15 DEF CommandOK, Deploys, Submit

ScriptOK(p, st) == EnvOK(p, st) /\ WaitOK(p, st) /\ ReportOK(p, st)

Outlives(p, new) == \A r, i \in Nat, k \in DOMAIN Scripts[p] :
    Past(p, proc[p], r, k, i) => Past(p, new, r, k, i)

\* new is a state that script p may go to.
Fits(p, new) == StOK(p, new) /\ ScriptOK(p, new) /\ Outlives(p, new)

\* It is one of the same command.
Forward(p, new) ==
    /\ new.run = proc[p].run /\ new.reported = proc[p].reported /\ new.env = proc[p].env
    /\ StOK(p, new) /\ WaitOK(p, new)
    /\ \A i \in Nat : SentNow(Command(p), proc[p], i) => SentNow(Command(p), new, i)

\* A script that goes on in the same command fits.
LEMMA ForwardFits ==
    ASSUME NEW p, ScriptOK(p, proc[p]), NEW new, Forward(p, new) PROVE Fits(p, new)
  <1>1. Cmd(p, new) = Command(p) /\ Cmd(p, proc[p]) = Command(p)
    BY DEF Forward, Cmd, Command, CommandNo
  <1>2. EnvOK(p, new)  BY DEF ScriptOK, EnvOK, Forward
  <1>3. ReportOK(p, new)  BY DEF ScriptOK, ReportOK, Forward, Good
  <1>4. Outlives(p, new)  BY <1>1 DEF Outlives, Past, Forward
  <1>5. QED  BY <1>2, <1>3, <1>4 DEF Fits, ScriptOK, Forward

\* The script is at a command.
Underway(p) == /\ scenario \in DOMAIN Scenarios /\ p \in Procs
               /\ StOK(p, proc[p]) /\ ScriptOK(p, proc[p]) /\ proc[p].pc # "done"

\* A command may be finished when its contract is there, or its transactions have succeeded.
Complete(p) ==
    LET c == Command(p) IN
    /\ c.kind \in Deploys => receipt[TxId(p)].at \in DOMAIN contracts
    /\ c.kind \in Submit /\ ChecksStatus(c.kind) =>
          \A j \in DOMAIN c.to : Good(p, proc[p], CommandNo(p), j)

\* A script that goes to its next command fits.
LEMMA FinishedFits ==
    ASSUME ScenariosOK, NEW p, Underway(p), Complete(p) PROVE Fits(p, Finished(p))
  <1> DEFINE old == proc[p]
             c   == Command(p)
             k   == CommandNo(p)
             value == IF c.kind \in Submit THEN c.bundle.verifiedTxTotal * Len(c.to) ELSE 0
             st  == [old EXCEPT !.reported = Append(@, value),
                                !.env = IF c.kind \in Deploys
                                        THEN Put(@, c.as, receipt[TxId(p)].at) ELSE @]
             new == Finished(p)
             script == Scripts[p]
  <1>1. /\ scenario \in DOMAIN Scenarios /\ p \in Procs
        /\ DOMAIN old = StFields /\ old.run \in Nat /\ Row(old.reported) /\ old.lanes \in Seq(LaneHeadSet)
        /\ k = Len(old.reported) + 1 /\ k \in DOMAIN script /\ c = script[k]
    BY DEF Underway, StOK, Command, CommandNo
  <1>2. Row(script) /\ Len(script) \in Nat /\ DOMAIN script = 1..Len(script)
    BY <1>1, ScriptFacts, RowFacts
  <1>3. /\ Len(old.reported) \in Nat /\ DOMAIN old.reported = 1..(k - 1)
        /\ Row(st.reported) /\ Len(st.reported) = k /\ DOMAIN st.reported = 1..k
        /\ st.reported[k] = value /\ \A m \in 1..(k - 1) : st.reported[m] = old.reported[m]
    <2>1. st.reported = Append(old.reported, value)  BY <1>1 DEF StFields
    <2> HIDE DEF old, k, c, value, st
    <2>2. Len(old.reported) \in Nat /\ DOMAIN old.reported = 1..(k - 1)  BY <1>1, RowFacts
    <2>3. /\ Row(st.reported) /\ Len(st.reported) = Len(old.reported) + 1
          /\ st.reported[Len(old.reported) + 1] = value
          /\ \A m \in 1..Len(old.reported) : st.reported[m] = old.reported[m]
      BY <1>1, <2>1, RowAppend
    <2>4. DOMAIN st.reported = 1..Len(st.reported)  BY <2>3, RowFacts
    <2>5. QED  BY <1>1, <2>2, <2>3, <2>4
  <1>4. /\ DOMAIN st = StFields /\ st.run = old.run /\ st.lanes = old.lanes
        /\ st.env = IF c.kind \in Deploys THEN Put(old.env, c.as, receipt[TxId(p)].at) ELSE old.env
    BY <1>1 DEF StFields
  <1>5. new = IF k + 1 \in DOMAIN script THEN Start(st, script[k + 1])
              ELSE [st EXCEPT !.pc = "done", !.nonces = <<>>]
    BY Zenon DEF Finished
  <1> HIDE DEF old, c, k, value, st, new
  <1>6. /\ new.run = st.run /\ new.reported = st.reported /\ new.env = st.env
        /\ StOK(p, new) /\ WaitOK(p, new)
    <2>1. CASE k + 1 \in DOMAIN script
      <3>1. Opened(p, st)  BY <1>1, <1>3, <1>4, <2>1 DEF Opened
      <3>2. Cmd(p, st) = script[k + 1]  BY <1>3 DEF Cmd
      <3>3. new = Start(st, Cmd(p, st))  BY <1>5, <2>1, <3>2
      <3>4. QED  BY <1>1, <3>1, <3>3, StartsOK, Zenon
    <2>2. CASE k + 1 \notin DOMAIN script
      <3>1. new = [st EXCEPT !.pc = "done", !.nonces = <<>>]  BY <1>5, <2>2
      <3>2. /\ DOMAIN new = StFields /\ new.run = st.run /\ new.reported = st.reported /\ new.env = st.env
            /\ new.pc = "done" /\ new.i = st.i /\ new.lanes = st.lanes
        BY <1>4, <3>1 DEF StFields
      <3>3. st.i \in Nat  BY <1>1 DEF Underway, StOK, st, old, StFields
      <3>4. StOK(p, new)  BY <1>1, <1>2, <1>3, <1>4, <3>2, <3>3 DEF StOK, Working
      <3>5. WaitOK(p, new)  BY <3>2 DEF WaitOK, Working
      <3>6. QED  BY <3>2, <3>4, <3>5
    <2>3. QED  BY <2>1, <2>2
  <1>7. EnvOK(p, new)
    <2>1. SUFFICES ASSUME NEW n, Known(Scenarios[scenario], script, k, n)
                   PROVE  n \in DOMAIN st.env /\ st.env[n] \in DOMAIN contracts
      BY <1>3, <1>6 DEF EnvOK
    <2>2. Known(Scenarios[scenario], script, k - 1, n) \/ (c.kind \in Deploys /\ n = c.as)
      <3>1. \A j \in 1..k : j \in 1..(k - 1) \/ j = k  BY <1>1, <1>3
      <3>2. QED  BY <1>1, <2>1, <3>1 DEF Known
    <2>3. Known(Scenarios[scenario], script, k - 1, n)
              => n \in DOMAIN old.env /\ old.env[n] \in DOMAIN contracts
      <3>1. Len(old.reported) = k - 1  BY <1>1, <1>3
      <3>2. QED  BY <3>1 DEF Underway, ScriptOK, EnvOK, old
    <2>4. c.kind \in Deploys => receipt[TxId(p)].at \in DOMAIN contracts  BY DEF Complete, c
    <2>5. QED  BY <1>4, <2>2, <2>3, <2>4 DEF Put
  <1>8. ReportOK(p, new)
    <2>1. SUFFICES ASSUME NEW m \in 1..k, script[m].kind \in Submit, ChecksStatus(script[m].kind)
                   PROVE  /\ st.reported[m] = script[m].bundle.verifiedTxTotal * Len(script[m].to)
                          /\ \A j \in DOMAIN script[m].to : Good(p, old, m, j)
      BY <1>3, <1>4, <1>6 DEF ReportOK, Good
    <2>2. CASE m = k
      <3>1. \A j \in DOMAIN c.to : Good(p, old, k, j)  BY <1>1, <2>1, <2>2 DEF Complete, c, k, old
      <3>2. value = c.bundle.verifiedTxTotal * Len(c.to)  BY <1>1, <2>1, <2>2 DEF value
      <3>3. QED  BY <1>1, <1>3, <2>2, <3>1, <3>2
    <2>3. CASE m # k
      <3>1. m \in 1..(k - 1)  BY <1>1, <1>3, <2>3
      <3>2. QED  BY <1>3, <2>1, <3>1 DEF Underway, ScriptOK, ReportOK, old
    <2>4. QED  BY <2>2, <2>3
  <1>9. Outlives(p, new)
    <2>1. SUFFICES ASSUME NEW r \in Nat, NEW i \in Nat, NEW m \in DOMAIN script, Past(p, old, r, m, i)
                   PROVE  Past(p, new, r, m, i)
      BY DEF Outlives, old
    <2>2. r < old.run \/ (r = old.run /\ m <= k)  BY <1>1, <1>2, <1>3, <2>1 DEF Past
    <2>3. QED  BY <1>3, <1>4, <1>6, <2>2 DEF Past
  <1>10. QED  BY <1>6, <1>7, <1>8, <1>9 DEF Fits, ScriptOK, new

\* The fields of a state that a step does not name stay.
LEMMA OldFacts ==
    ASSUME ScenariosOK, NEW p, Underway(p)
    PROVE  LET st == proc[p] c == Command(p) IN
           /\ DOMAIN st = StFields /\ st.run \in Nat /\ st.i \in Nat /\ Row(st.reported)
           /\ st.lanes \in Seq(LaneHeadSet)
           /\ Len(st.reported) <= Len(Scripts[p]) /\ Len(st.reported) + 1 \in DOMAIN Scripts[p]
           /\ c = Scripts[p][Len(st.reported) + 1] /\ c = Cmd(p, st)
           /\ CommandOK(c) /\ Row(c.to)
           /\ c.kind = "init-lane-heads" =>
                 /\ c.bundle.laneHeads \in Seq(LaneHeadSet)
                 /\ Len(c.bundle.laneHeads) \in Nat
                 /\ DOMAIN c.bundle.laneHeads = 1..Len(c.bundle.laneHeads)
           /\ ScriptOK(p, st) /\ p \in Procs
  <1> DEFINE st == proc[p]
             c  == Command(p)
             k  == Len(st.reported) + 1
  <1>1. /\ DOMAIN st = StFields /\ st.run \in Nat /\ st.i \in Nat /\ Row(st.reported)
        /\ st.lanes \in Seq(LaneHeadSet) /\ Len(st.reported) <= Len(Scripts[p])
        /\ k \in DOMAIN Scripts[p] /\ scenario \in DOMAIN Scenarios /\ p \in Procs /\ ScriptOK(p, st)
    BY DEF Underway, StOK
  <1>2. c = Scripts[p][k] /\ c = Cmd(p, st)  BY DEF Command, CommandNo, Cmd
  <1> HIDE DEF c, k, st
  <1>3. CommandOK(c) /\ Row(c.to)  BY <1>1, <1>2, ScriptFacts
  <1>4. c.kind = "init-lane-heads" =>
            /\ c.bundle.laneHeads \in Seq(LaneHeadSet)
            /\ Len(c.bundle.laneHeads) \in Nat
            /\ DOMAIN c.bundle.laneHeads = 1..Len(c.bundle.laneHeads)
    <2>1. c.kind = "init-lane-heads" => c.bundle.laneHeads \in Seq(LaneHeadSet)
      BY <1>3 DEF CommandOK, LaneHeadSet
    <2>2. QED  BY <2>1
  <1>5. QED  BY <1>1, <1>2, <1>3, <1>4 DEF k, c, st

\* What makes a state of the same command fit: its place and what it lets be sent.
Moves(p, new) ==
    LET st == proc[p] c == Command(p) IN
    /\ DOMAIN new = StFields /\ new.pc \in {"read", "failed"} \cup Working
    /\ new.run = st.run /\ new.reported = st.reported /\ new.env = st.env
    /\ new.i \in Nat /\ new.lanes \in Seq(LaneHeadSet)
    /\ new.pc = "read" => c.kind = "init-lane-heads" /\ new.i \in DOMAIN c.bundle.laneHeads
    /\ new.pc \in Working => /\ new.i \in 1..NumJobs(c, new.lanes)
                             /\ c.kind = "init-lane-heads" => new.lanes # <<>>
                             /\ c.kind = "estimate-bundle" => new.pc = "build"
    /\ \A i \in Nat : SentNow(c, st, i) => SentNow(c, new, i)
    /\ (/\ new.pc \in Working /\ ChecksStatus(c.kind)
        /\ new.pc = "wait" \/ c.kind \notin Burst \cup Upfront)
           => \A j \in 1..(new.i - 1) : Good(p, st, CommandNo(p), j)

\* A step inside a command goes on in it.
LEMMA MovesFits == ASSUME ScenariosOK, NEW p, Underway(p), NEW new, Moves(p, new) PROVE Fits(p, new)
  <1>1. Cmd(p, new) = Command(p)  BY DEF Moves, Cmd, Command, CommandNo
  <1>2. /\ proc[p].run \in Nat /\ Row(proc[p].reported)
        /\ Len(proc[p].reported) <= Len(Scripts[p]) /\ Len(proc[p].reported) + 1 \in DOMAIN Scripts[p]
        /\ ScriptOK(p, proc[p])
    BY OldFacts
  <1>3. StOK(p, new)  BY <1>1, <1>2 DEF Moves, StOK
  <1>4. WaitOK(p, new)  BY <1>1 DEF Moves, WaitOK, Good, CommandNo
  <1>5. Forward(p, new)  BY <1>3, <1>4 DEF Moves, Forward
  <1>6. QED  BY <1>2, <1>5, ForwardFits

\* A failure.
LEMMA FailsFits == ASSUME ScenariosOK, NEW p, Underway(p) PROVE Fits(p, [proc[p] EXCEPT !.pc = "failed"])
  <1> DEFINE new == [proc[p] EXCEPT !.pc = "failed"]
  <1>1. /\ DOMAIN proc[p] = StFields /\ proc[p].i \in Nat /\ proc[p].lanes \in Seq(LaneHeadSet)
    BY OldFacts
  <1>2. /\ DOMAIN new = StFields /\ new.pc = "failed" /\ new.run = proc[p].run
        /\ new.reported = proc[p].reported /\ new.env = proc[p].env
        /\ new.i = proc[p].i /\ new.lanes = proc[p].lanes
    BY <1>1 DEF StFields
  <1> HIDE DEF new
  <1>3. Moves(p, new)  BY <1>1, <1>2 DEF Moves, SentNow, Working
  <1>4. QED  BY <1>3, MovesFits DEF new

\* A script goes on to a state that fits.
GoesOn(p) == \E new : Go(p, new) /\ Fits(p, new)

\* Reading lane heads.
LEMMA ReadLaneHeadFits ==
    ASSUME ScenariosOK, NEW p, Underway(p), ReadLaneHead(p) PROVE GoesOn(p)
  <1> DEFINE c     == Command(p)
             st    == proc[p]
             to    == st.env[c.to[1]]
             lane  == c.bundle.laneHeads[st.i]
             found == IF isSet(contracts[to].heads[lane.laneId]) THEN st.lanes
                                                                 ELSE Append(st.lanes, lane)
             more  == [st EXCEPT !.i = @ + 1, !.lanes = found]
             new   == [st EXCEPT !.pc = "nonce", !.i = 1, !.lanes = found]
  <1>1. st.pc = "read" /\ p \in Procs  BY DEF ReadLaneHead, At
  <1>2. \/ Fails(p)
        \/ st.i < Len(c.bundle.laneHeads) /\ Go(p, more)
        \/ found = <<>> /\ Go(p, Finished(p))
        \/ found # <<>> /\ Go(p, new)
    BY Zenon DEF ReadLaneHead
  <1>3. /\ DOMAIN st = StFields /\ st.i \in Nat /\ st.lanes \in Seq(LaneHeadSet)
        /\ c.kind = "init-lane-heads" => c.bundle.laneHeads \in Seq(LaneHeadSet)
    BY OldFacts
  <1>4. c.kind = "init-lane-heads" /\ st.i \in DOMAIN c.bundle.laneHeads
    BY <1>1 DEF Underway, StOK, Cmd, Command, CommandNo
  <1>5. lane \in LaneHeadSet  BY <1>3, <1>4
  <1>6. found \in Seq(LaneHeadSet)
    <2> HIDE DEF lane, st, to
    <2>1. Append(st.lanes, lane) \in Seq(LaneHeadSet)  BY <1>3, <1>5
    <2>2. QED  BY <1>3, <2>1
  <1> HIDE DEF c, st, found
  <1>7. /\ DOMAIN more = StFields /\ more.pc = "read" /\ more.run = st.run /\ more.reported = st.reported
        /\ more.env = st.env /\ more.i = st.i + 1 /\ more.lanes = found
    BY <1>1, <1>3 DEF StFields
  <1>8. /\ DOMAIN new = StFields /\ new.pc = "nonce" /\ new.run = st.run /\ new.reported = st.reported
        /\ new.env = st.env /\ new.i = 1 /\ new.lanes = found
    BY <1>3 DEF StFields
  <1> HIDE DEF more, new
  <1>9. \A i \in Nat : ~SentNow(c, st, i)  BY <1>1 DEF SentNow
  <1>10. ASSUME st.i < Len(c.bundle.laneHeads) PROVE Fits(p, more)
    <2>1. st.i + 1 \in DOMAIN c.bundle.laneHeads  BY <1>3, <1>4, <1>10
    <2>2. Moves(p, more)
      BY <1>3, <1>4, <1>6, <1>7, <1>9, <2>1 DEF Moves, Working, c, st
    <2>3. QED  BY <2>2, MovesFits
  <1>11. ASSUME found # <<>> PROVE Fits(p, new)
    <2>1. Len(found) \in Nat /\ Len(found) >= 1  BY <1>6, <1>11
    <2>2. 1 \in 1..NumJobs(c, found)  BY <1>4, <2>1 DEF NumJobs
    <2>3. 1..(new.i - 1) = {}  BY <1>8
    <2>4. Moves(p, new)
      BY <1>4, <1>6, <1>8, <1>9, <1>11, <2>2, <2>3 DEF Moves, Working, c, st
    <2>5. QED  BY <2>4, MovesFits
  <1>12. Fits(p, Finished(p))
    <2>1. Complete(p)  BY <1>4 DEF Complete, Deploys, Submit, c
    <2>2. QED  BY <2>1, FinishedFits
  <1>13. QED  BY <1>2, <1>10, <1>11, <1>12, FailsFits DEF GoesOn, Fails

\* A command that is sending.
LEMMA WorkingFacts ==
    ASSUME ScenariosOK, NEW p, Underway(p), proc[p].pc \in Working
    PROVE  LET st == proc[p] c == Command(p) n == NumJobs(c, st.lanes) IN
           /\ n \in Nat /\ Len(Jobs(p)) = n /\ st.i \in 1..n /\ JobOK(p, Job(p))
           /\ c.kind = "init-lane-heads" => st.lanes # <<>>
           /\ c.kind = "estimate-bundle" => st.pc = "build"
           /\ ChecksStatus(c.kind) /\ (st.pc = "wait" \/ c.kind \notin Burst \cup Upfront)
                 => \A j \in 1..(st.i - 1) : Good(p, st, CommandNo(p), j)
           /\ c.kind \notin Deploys \cup {"init-lane-heads", "init-vk"}
                 => n = Len(c.to) /\ DOMAIN c.to = 1..n
  <1> DEFINE st == proc[p]
             c  == Command(p)
             n  == NumJobs(c, st.lanes)
  <1>1. c = Cmd(p, st) /\ Row(c.to) /\ st.lanes \in Seq(LaneHeadSet) /\ p \in Procs
    BY OldFacts
  <1>2. Len(c.to) \in Nat /\ DOMAIN c.to = 1..Len(c.to)
    <2> HIDE DEF c
    <2>1. QED  BY <1>1, RowFacts
  <1>3. n \in Nat  BY <1>1, <1>2 DEF NumJobs
  <1>4. StOK(p, st) /\ WaitOK(p, st) /\ scenario \in DOMAIN Scenarios  BY DEF Underway, ScriptOK
  <1>5. Len(Jobs(p)) = n /\ JobOK(p, Job(p))  BY <1>1, <1>4, JobsOK
  <1>6. /\ st.i \in 1..n /\ (c.kind = "init-lane-heads" => st.lanes # <<>>)
        /\ c.kind = "estimate-bundle" => st.pc = "build"
    BY <1>1, <1>4 DEF StOK
  <1>7. ChecksStatus(c.kind) /\ (st.pc = "wait" \/ c.kind \notin Burst \cup Upfront)
            => \A j \in 1..(st.i - 1) : Good(p, st, CommandNo(p), j)
    BY <1>1, <1>4 DEF WaitOK, CommandNo
  <1>8. c.kind \notin Deploys \cup {"init-lane-heads", "init-vk"} => n = Len(c.to)
    BY DEF NumJobs
  <1>9. QED  BY <1>2, <1>3, <1>5, <1>6, <1>7, <1>8

\* Reading a nonce.
LEMMA ReadNonceFits ==
    ASSUME ScenariosOK, NEW p, Underway(p), ReadNonce(p) PROVE GoesOn(p)
  <1> DEFINE c  == Command(p)
             st == proc[p]
             N  == NumJobs(c, st.lanes)
  <1>1. st.pc = "nonce" /\ p \in Procs  BY DEF ReadNonce, At
  <1>2. PICK ns : Go(p, [st EXCEPT !.pc = "build", !.nonces = ns])  BY Zenon DEF ReadNonce
  <1> DEFINE new == [st EXCEPT !.pc = "build", !.nonces = ns]
  <1>3. /\ DOMAIN st = StFields /\ st.i \in Nat /\ st.lanes \in Seq(LaneHeadSet)
        /\ DOMAIN new = StFields /\ new.pc = "build" /\ new.run = st.run /\ new.reported = st.reported
        /\ new.env = st.env /\ new.i = st.i /\ new.lanes = st.lanes
    <2>1. DOMAIN st = StFields /\ st.i \in Nat /\ st.lanes \in Seq(LaneHeadSet)  BY OldFacts
    <2>2. QED  BY <2>1 DEF StFields
  <1>4. /\ st.i \in 1..N
        /\ c.kind = "init-lane-heads" => st.lanes # <<>>
        /\ ChecksStatus(c.kind) /\ c.kind \notin Burst \cup Upfront
              => \A j \in 1..(st.i - 1) : Good(p, st, CommandNo(p), j)
    BY <1>1, WorkingFacts DEF Working
  <1> HIDE DEF c, st, new, N
  <1>5. \A i \in Nat : SentNow(c, st, i) => SentNow(c, new, i)  BY <1>1, <1>3 DEF SentNow
  <1>6. Moves(p, new)  BY <1>3, <1>4, <1>5 DEF Moves, Working, c, st, N
  <1>7. QED  BY <1>2, <1>6, MovesFits DEF GoesOn, new

\* Building a transaction, or estimating it.
LEMMA BuildTransactionFits ==
    ASSUME ScenariosOK, NEW p, Underway(p), BuildTransaction(p) PROVE GoesOn(p)
  <1> DEFINE c    == Command(p)
             st   == proc[p]
             N    == NumJobs(c, st.lanes)
             send == [st EXCEPT !.pc = "send"]
             more == [st EXCEPT !.pc = "nonce", !.i = @ + 1]
             all  == [st EXCEPT !.pc = "send", !.i = 1]
  <1>1. st.pc = "build" /\ p \in Procs  BY DEF BuildTransaction, At
  <1>2. \/ Fails(p)
        \/ c.kind = "estimate-bundle" /\ Go(p, Finished(p))
        \/ c.kind # "estimate-bundle" /\ c.kind \notin Upfront /\ Go(p, send)
        \/ c.kind \in Upfront /\ st.i < Len(Jobs(p)) /\ Go(p, more)
        \/ c.kind \in Upfront /\ Go(p, all)
    BY Zenon DEF BuildTransaction
  <1>3. /\ DOMAIN st = StFields /\ st.i \in Nat /\ st.lanes \in Seq(LaneHeadSet)  BY OldFacts
  <1>4. /\ st.i \in 1..N /\ N \in Nat /\ Len(Jobs(p)) = N
        /\ c.kind = "init-lane-heads" => st.lanes # <<>>
        /\ ChecksStatus(c.kind) /\ c.kind \notin Burst \cup Upfront
              => \A j \in 1..(st.i - 1) : Good(p, st, CommandNo(p), j)
    BY <1>1, WorkingFacts DEF Working
  <1> HIDE DEF c, st, N
  <1>5. c.kind \in Upfront => c.kind \notin {"estimate-bundle", "init-lane-heads"}  BY DEF Upfront
  <1>6. ASSUME c.kind # "estimate-bundle", c.kind \notin Upfront PROVE Fits(p, send)
    <2>1. /\ DOMAIN send = StFields /\ send.pc = "send" /\ send.run = st.run /\ send.reported = st.reported
          /\ send.env = st.env /\ send.i = st.i /\ send.lanes = st.lanes
      BY <1>3 DEF StFields
    <2> HIDE DEF send
    <2>2. \A i \in Nat : SentNow(c, st, i) => SentNow(c, send, i)  BY <1>1, <2>1 DEF SentNow
    <2>3. Moves(p, send)  BY <1>3, <1>4, <1>6, <2>1, <2>2 DEF Moves, Working, c, st, N
    <2>4. QED  BY <2>3, MovesFits
  <1>7. ASSUME c.kind \in Upfront, NEW new, DOMAIN new = StFields, new.pc \in {"nonce", "send"},
               new.run = st.run, new.reported = st.reported, new.env = st.env, new.i \in 1..N,
               new.lanes = st.lanes
        PROVE  Fits(p, new)
    <2>1. \A i \in Nat : ~SentNow(c, st, i)  BY <1>1, <1>7 DEF SentNow
    <2>2. Moves(p, new)  BY <1>3, <1>4, <1>5, <1>7, <2>1 DEF Moves, Working, c, st, N
    <2>3. QED  BY <2>2, MovesFits
  <1>8. ASSUME c.kind \in Upfront, st.i < Len(Jobs(p)) PROVE Fits(p, more)
    <2>1. /\ DOMAIN more = StFields /\ more.pc = "nonce" /\ more.run = st.run /\ more.reported = st.reported
          /\ more.env = st.env /\ more.i = st.i + 1 /\ more.lanes = st.lanes
      BY <1>3 DEF StFields
    <2>2. st.i + 1 \in 1..N  BY <1>4, <1>8
    <2> HIDE DEF more
    <2>3. QED  BY <1>7, <1>8, <2>1, <2>2
  <1>9. ASSUME c.kind \in Upfront PROVE Fits(p, all)
    <2>1. /\ DOMAIN all = StFields /\ all.pc = "send" /\ all.run = st.run /\ all.reported = st.reported
          /\ all.env = st.env /\ all.i = 1 /\ all.lanes = st.lanes
      BY <1>3 DEF StFields
    <2>2. 1 \in 1..N  BY <1>4
    <2> HIDE DEF all
    <2>3. QED  BY <1>7, <1>9, <2>1, <2>2
  <1>10. ASSUME c.kind = "estimate-bundle" PROVE Fits(p, Finished(p))
    <2>1. Complete(p)  BY <1>10 DEF Complete, Deploys, Submit, c
    <2>2. QED  BY <2>1, FinishedFits
  <1>11. QED  BY <1>2, <1>6, <1>8, <1>9, <1>10, FailsFits DEF GoesOn, Fails, st

\* A script goes on and puts a transaction into the pool that it has not sent before.
Sends(p) == \E new :
    /\ Go(p, new) /\ Fits(p, new)
    /\ pool' = pool \cup {Signed(p)} /\ TxOK(Signed(p))
    /\ ~Past(p, proc[p], proc[p].run, CommandNo(p), proc[p].i)
    /\ Past(p, new, proc[p].run, CommandNo(p), proc[p].i)

\* The transaction that is sent is the one of the command, and goes to a contract.
LEMMA SignedOK ==
    ASSUME ScenariosOK, NEW p, Underway(p), proc[p].pc = "send" PROVE TxOK(Signed(p))
  <1> DEFINE c  == Command(p)
             st == proc[p]
             tx == Signed(p)
             k  == CommandNo(p)
  <1>1. JobOK(p, Job(p)) /\ c.kind # "estimate-bundle"  BY WorkingFacts DEF Working
  <1>2. /\ tx.id = <<p, st.run, k, st.i>> /\ tx.from = Job(p).from /\ tx.to = Job(p).to
        /\ tx.call = Job(p).call
    BY DEF Signed, TxId
  <1>3. CommandOf(tx.id) = c  BY <1>2 DEF CommandOf, Command
  <1>4. ASSUME c.kind \in Submit PROVE tx.to \in DOMAIN contracts
    <2>1. tx.to = st.env[c.to[st.i]] /\ st.i \in DOMAIN c.to  BY <1>1, <1>2, <1>4 DEF JobOK
    <2>2. /\ p \in Procs /\ k = Len(st.reported) + 1 /\ k \in DOMAIN Scripts[p]
          /\ c = Scripts[p][k] /\ EnvOK(p, st) /\ Row(st.reported)
      BY OldFacts DEF CommandNo, ScriptOK
    <2>3. scenario \in DOMAIN Scenarios  BY DEF Underway
    <2> HIDE DEF c, st, tx, k
    <2>4. Known(Scenarios[scenario], Scripts[p], k - 1, c.to[st.i])
      BY <1>4, <2>1, <2>2, <2>3, ScriptFacts
    <2>5. k - 1 = Len(st.reported)  BY <2>2, RowFacts
    <2>6. QED  BY <2>1, <2>2, <2>4, <2>5 DEF EnvOK
  <1> HIDE DEF c, st, tx, k
  <1>5. tx.from \in Senders  BY <1>1, <1>2 DEF JobOK
  <1>6. c.kind \in Deploys =>
            tx.call.op = "create" /\ \E x : tx.call.contract \in {Verifier(x), Certifier(x)}
    BY <1>1, <1>2 DEF JobOK, c
  <1>7. c.kind \in Submit =>
            /\ tx.call = [op |-> "verify", artifacts |-> c.bundle.artifacts]
            /\ tx.to \in DOMAIN contracts
    BY <1>1, <1>2, <1>4 DEF JobOK, c
  <1>8. /\ c.kind = "init-lane-heads" => tx.call.op = "init" /\ tx.call.lanes \in Seq(LaneIds)
        /\ c.kind = "init-vk" => tx.call.op = "vk"
        /\ c.kind = "fund-accounts" => tx.call.op = "pay"
    BY <1>1, <1>2 DEF JobOK, c
  <1>9. QED  BY <1>1, <1>3, <1>5, <1>6, <1>7, <1>8, Zenon DEF TxOK, tx

\* A transaction that is to be sent has not been sent, and is sent when the command fails.
LEMMA NotSentYet ==
    ASSUME ScenariosOK, NEW p, Underway(p), proc[p].pc = "send"
    PROVE  ~Past(p, proc[p], proc[p].run, CommandNo(p), proc[p].i)
  <1>1. proc[p].run \in Nat /\ proc[p].i \in Nat /\ Row(proc[p].reported)  BY OldFacts
  <1>2. Len(proc[p].reported) \in Nat  BY <1>1, RowFacts
  <1>3. ~SentNow(Cmd(p, proc[p]), proc[p], proc[p].i)  BY <1>1 DEF SentNow
  <1>4. QED  BY <1>1, <1>2, <1>3 DEF Past, CommandNo

\* A script that is past a transaction has it in its past.
LEMMA NowPast ==
    ASSUME ScenariosOK, NEW p, Underway(p), NEW new, new.run = proc[p].run, new.reported = proc[p].reported,
           SentNow(Command(p), new, proc[p].i)
    PROVE  Past(p, new, proc[p].run, CommandNo(p), proc[p].i)
  BY DEF Past, CommandNo, Command, Cmd

\* The state after a transaction is sent.
LEMMA AfterSendFits ==
    ASSUME ScenariosOK, NEW p, Underway(p), proc[p].pc = "send"
    PROVE  /\ Fits(p, AfterSend(p))
           /\ Past(p, AfterSend(p), proc[p].run, CommandNo(p), proc[p].i)
  <1> DEFINE c    == Command(p)
             st   == proc[p]
             N    == NumJobs(c, st.lanes)
             next == [st EXCEPT !.pc = "build", !.i = @ + 1]
             more == [st EXCEPT !.i = @ + 1]
             all  == [st EXCEPT !.pc = "wait", !.i = 1]
             wait == [st EXCEPT !.pc = "wait"]
             new  == AfterSend(p)
  <1>3. /\ DOMAIN st = StFields /\ st.i \in Nat /\ st.lanes \in Seq(LaneHeadSet)  BY OldFacts
  <1>4. /\ st.i \in 1..N /\ N \in Nat /\ Len(Jobs(p)) = N
        /\ c.kind = "init-lane-heads" => st.lanes # <<>>
        /\ c.kind # "estimate-bundle"
        /\ ChecksStatus(c.kind) /\ c.kind \notin Burst \cup Upfront
              => \A j \in 1..(st.i - 1) : Good(p, st, CommandNo(p), j)
    BY WorkingFacts DEF Working
  <1>5. c.kind \in Burst => c.kind \notin Upfront  BY DEF Burst, Upfront
  <1>6. \/ c.kind \in Burst /\ st.i # N /\ new = next
        \/ c.kind \in Upfront /\ st.i # N /\ new = more
        \/ c.kind \in Burst \cup Upfront /\ new = all
        \/ c.kind \notin Burst \cup Upfront /\ new = wait
    <2> HIDE DEF next, more, all, wait
    <2>1. new = CASE c.kind \in Burst /\ ~(st.i = Len(Jobs(p)))   -> next
                  [] c.kind \in Upfront /\ ~(st.i = Len(Jobs(p))) -> more
                  [] c.kind \in Burst \cup Upfront /\ st.i = Len(Jobs(p)) -> all
                  [] OTHER -> wait
      BY Zenon DEF AfterSend, next, more, all, wait
    <2> HIDE DEF c, st, new, N
    <2>2. QED  BY <1>4, <1>5, <2>1
  <1>7. st.pc = "send"  OBVIOUS
  <1>8. /\ DOMAIN new = StFields /\ new.run = st.run /\ new.reported = st.reported /\ new.env = st.env
        /\ new.lanes = st.lanes
        /\ \/ new.pc = "build" /\ new.i = st.i + 1 /\ st.i # N /\ c.kind \in Burst
           \/ new.pc = "send" /\ new.i = st.i + 1 /\ st.i # N /\ c.kind \in Upfront
           \/ new.pc = "wait" /\ new.i = 1 /\ c.kind \in Burst \cup Upfront
           \/ new.pc = "wait" /\ new.i = st.i /\ c.kind \notin Burst \cup Upfront
    <2> HIDE DEF c, new, N
    <2>1. QED  BY <1>3, <1>6, <1>7 DEF StFields
  <1> HIDE DEF c, st, new, N
  <1>9. new.i \in 1..N  BY <1>4, <1>8
  <1>10. \A i \in Nat : SentNow(c, st, i) => SentNow(c, new, i)
    BY <1>3, <1>5, <1>7, <1>8 DEF SentNow
  <1>11. SentNow(c, new, st.i)  BY <1>3, <1>5, <1>8 DEF SentNow
  <1>12. new.pc = "wait" /\ c.kind \in Burst \cup Upfront => 1..(new.i - 1) = {}  BY <1>8
  <1>13. ChecksStatus(c.kind) /\ (new.pc = "wait" \/ c.kind \notin Burst \cup Upfront)
             => \A j \in 1..(new.i - 1) : Good(p, st, CommandNo(p), j)
    BY <1>4, <1>8, <1>12
  <1>14. Moves(p, new)
    BY <1>3, <1>4, <1>8, <1>9, <1>10, <1>13 DEF Moves, Working, c, st, N
  <1>15. Past(p, new, st.run, CommandNo(p), st.i)  BY <1>8, <1>11, NowPast DEF c, st
  <1>16. QED  BY <1>14, <1>15, MovesFits DEF new, st

\* Sending a transaction, or failing to.
LEMMA SendTransactionFits ==
    ASSUME ScenariosOK, NEW p, Underway(p), SendTransaction(p)
    PROVE  (GoesOn(p) /\ UNCHANGED pool) \/ Sends(p)
  <1>1. proc[p].pc = "send"  BY DEF SendTransaction, At
  <1>2. \/ pool' = pool \cup {Signed(p)} /\ Go(p, AfterSend(p))
        \/ Fails(p) /\ UNCHANGED pool
    BY Zenon DEF SendTransaction
  <1>3. QED  BY <1>1, <1>2, AfterSendFits, NotSentYet, SignedOK, FailsFits, Zenon DEF Sends, GoesOn, Fails

\* A failing RPC.
LEMMA RpcFailsFits ==
    ASSUME ScenariosOK, NEW p, Underway(p), RpcFails(p)
    PROVE  (GoesOn(p) /\ UNCHANGED pool) \/ Sends(p)
  <1> DEFINE new == [proc[p] EXCEPT !.pc = "failed"]
  <1>1. Go(p, new) /\ Fits(p, new)  BY FailsFits DEF RpcFails, Fails
  <1>2. UNCHANGED pool \/ (proc[p].pc = "send" /\ pool' = pool \cup {Signed(p)})
    BY DEF RpcFails, At
  <1>3. Past(p, new, proc[p].run, CommandNo(p), proc[p].i)
    <2>1. DOMAIN proc[p] = StFields  BY OldFacts
    <2>2. new.pc = "failed" /\ new.run = proc[p].run /\ new.reported = proc[p].reported
      BY <2>1 DEF StFields
    <2> HIDE DEF new
    <2>3. QED  BY <2>2, NowPast DEF SentNow
  <1> HIDE DEF new
  <1>4. QED  BY <1>1, <1>2, <1>3, NotSentYet, SignedOK, Zenon DEF Sends, GoesOn

\* Going on to the next receipt, or to the next command.
LEMMA WaitForReceiptFits ==
    ASSUME ScenariosOK, NEW p, Underway(p), WaitForReceipt(p), ReceiptInv PROVE GoesOn(p)
  <1> DEFINE c    == Command(p)
             st   == proc[p]
             k    == CommandNo(p)
             N    == NumJobs(c, st.lanes)
             pc   == IF c.kind \in Burst \cup Upfront THEN "wait" ELSE "nonce"
             more == [st EXCEPT !.i = @ + 1, !.pc = pc]
  <1>1. st.pc = "wait" /\ TxId(p) \in DOMAIN receipt  BY DEF WaitForReceipt, At
  <1>2. \/ Fails(p)
        \/ /\ receipt[TxId(p)].ok \/ ~ChecksStatus(c.kind)
           /\ st.i = Len(Jobs(p)) /\ Go(p, Finished(p))
        \/ /\ receipt[TxId(p)].ok \/ ~ChecksStatus(c.kind)
           /\ st.i # Len(Jobs(p)) /\ Go(p, more)
    BY Zenon DEF WaitForReceipt
  <1>3. /\ DOMAIN st = StFields /\ st.i \in Nat /\ st.lanes \in Seq(LaneHeadSet)  BY OldFacts
  <1>4. /\ st.i \in 1..N /\ N \in Nat /\ Len(Jobs(p)) = N
        /\ c.kind = "init-lane-heads" => st.lanes # <<>>
        /\ c.kind # "estimate-bundle"
        /\ ChecksStatus(c.kind) => \A j \in 1..(st.i - 1) : Good(p, st, k, j)
        /\ c.kind \notin Deploys \cup {"init-lane-heads", "init-vk"} => DOMAIN c.to = 1..N
    BY <1>1, WorkingFacts DEF Working
  <1>5. ASSUME receipt[TxId(p)].ok \/ ~ChecksStatus(c.kind), ChecksStatus(c.kind)
        PROVE  \A j \in 1..st.i : Good(p, st, k, j)
    <2>1. Good(p, st, k, st.i)  BY <1>1, <1>5 DEF Good, TxId
    <2>2. \A j \in 1..st.i : j \in 1..(st.i - 1) \/ j = st.i  BY <1>3
    <2>3. QED  BY <1>4, <1>5, <2>1, <2>2
  <1>6. ASSUME receipt[TxId(p)].ok \/ ~ChecksStatus(c.kind), st.i = Len(Jobs(p))
        PROVE  Fits(p, Finished(p))
    <2>1. c.kind \in Deploys => receipt[TxId(p)].at \in DOMAIN contracts
      BY <1>1 DEF ReceiptInv, ReceiptOK, CommandOf, TxId, Command
    <2>2. ASSUME c.kind \in Submit, ChecksStatus(c.kind)
          PROVE  \A j \in DOMAIN c.to : Good(p, st, k, j)
      <3>1. DOMAIN c.to = 1..N  BY <1>4, <2>2 DEF Submit, Deploys
      <3>2. QED  BY <1>4, <1>5, <1>6, <2>2, <3>1
    <2>3. Complete(p)  BY <2>1, <2>2 DEF Complete
    <2>4. QED  BY <2>3, FinishedFits
  <1> HIDE DEF c, st, N, k
  <1>7. ASSUME receipt[TxId(p)].ok \/ ~ChecksStatus(c.kind), st.i # Len(Jobs(p))
        PROVE  Fits(p, more)
    <2>1. /\ DOMAIN more = StFields /\ more.pc = pc /\ more.run = st.run /\ more.reported = st.reported
          /\ more.env = st.env /\ more.i = st.i + 1 /\ more.lanes = st.lanes
      BY <1>3 DEF StFields
    <2>2. pc \in {"wait", "nonce"} /\ (pc = "wait" <=> c.kind \in Burst \cup Upfront)  OBVIOUS
    <2> HIDE DEF pc, more
    <2>3. more.i \in 1..N /\ more.i - 1 = st.i  BY <1>3, <1>4, <1>7, <2>1
    <2>4. \A i \in Nat : SentNow(c, st, i) => SentNow(c, more, i)
      BY <1>1, <1>3, <2>1, <2>2 DEF SentNow
    <2>5. ChecksStatus(c.kind) => \A j \in 1..(more.i - 1) : Good(p, st, k, j)
      BY <1>5, <1>7, <2>3
    <2>6. Moves(p, more)
      BY <1>3, <1>4, <2>1, <2>2, <2>3, <2>4, <2>5 DEF Moves, Working, c, st, N, k
    <2>7. QED  BY <2>6, MovesFits
  <1>8. QED  BY <1>2, <1>6, <1>7, FailsFits DEF GoesOn, Fails, st

\* A script that starts.
LEMMA StartScriptFits ==
    ASSUME ScenariosOK, scenario \in DOMAIN Scenarios, NEW p \in Procs, NEW run \in Nat,
           DOMAIN Scenarios[scenario].contracts \subseteq DOMAIN contracts
    PROVE  LET new == StartScript(p, run) IN
           StOK(p, new) /\ ScriptOK(p, new) /\ new.run = run /\ new.reported = <<>>
  <1> DEFINE st  == NewScript(p, run)
             new == StartScript(p, run)
  <1>1. st.run = run /\ st.reported = <<>> /\ st.env = Scenarios[scenario].env  BY DEF NewScript
  <1>2. Opened(p, st)
    <2>1. Row(Scripts[p]) /\ Len(Scripts[p]) > 0  BY ScriptFacts
    <2>2. 1 \in DOMAIN Scripts[p]  BY <2>1, RowFacts
    <2>3. DOMAIN st = StFields  BY DEF NewScript, StFields
    <2>4. Len(<<>>) = 0 /\ Row(<<>>)
      <3>1. <<>> \in Seq(Nat) /\ Len(<<>>) = 0  OBVIOUS
      <3>2. QED  BY <3>1 DEF Row
    <2> HIDE DEF st
    <2>5. QED  BY <1>1, <2>2, <2>3, <2>4 DEF Opened
  <1>3. Cmd(p, st) = Scripts[p][1]
    <2>1. Len(<<>>) + 1 = 1  OBVIOUS
    <2> HIDE DEF st
    <2>2. QED  BY <1>1, <2>1 DEF Cmd
  <1>4. new = Start(st, Cmd(p, st))  BY <1>3, Zenon DEF StartScript, NewScript
  <1> HIDE DEF st, new
  <1>5. /\ new.run = run /\ new.reported = <<>> /\ new.env = Scenarios[scenario].env
        /\ StOK(p, new) /\ WaitOK(p, new)
    BY <1>1, <1>2, <1>4, StartsOK, Zenon
  <1>6. EnvOK(p, new)
    <2>1. SUFFICES ASSUME NEW n, Known(Scenarios[scenario], Scripts[p], 0, n)
                   PROVE  n \in DOMAIN new.env /\ new.env[n] \in DOMAIN contracts
      <3>1. Len(new.reported) = 0  BY <1>5
      <3>2. QED  BY <3>1 DEF EnvOK
    <2>2. QED  BY <1>5, <2>1 DEF Known
  <1>7. ReportOK(p, new)
    <2>1. DOMAIN new.reported = {}  BY <1>5
    <2>2. QED  BY <2>1 DEF ReportOK
  <1>8. QED  BY <1>5, <1>6, <1>7 DEF ScriptOK, new

\* Another run of a script.
LEMMA RerunFits ==
    ASSUME ScenariosOK, NEW p, Underway(p), Rerun(p), AddressInv PROVE GoesOn(p)
  <1> DEFINE run == proc[p].run + 1
             new == StartScript(p, run)
  <1>1. Go(p, new)  BY Zenon DEF Rerun
  <1>2. proc[p].run \in Nat /\ p \in Procs /\ scenario \in DOMAIN Scenarios  BY OldFacts DEF Underway
  <1>3. StOK(p, new) /\ ScriptOK(p, new) /\ new.run = run
    BY <1>2, StartScriptFits DEF AddressInv
  <1> HIDE DEF new
  <1>4. Outlives(p, new)  BY <1>2, <1>3 DEF Outlives, Past
  <1>5. QED  BY <1>1, <1>3, <1>4 DEF GoesOn, Fits

\* Every step of a script.
LEMMA ProcFits ==
    ASSUME ScenariosOK, NEW p, Underway(p), ReceiptInv, AddressInv,
           Step(p) \/ RpcFails(p) \/ Rerun(p)
    PROVE  /\ UNCHANGED <<scenario, nonce, receipt, contracts>>
           /\ (GoesOn(p) /\ UNCHANGED pool) \/ Sends(p)
  <1>1. CASE ReadLaneHead(p)  BY <1>1, ReadLaneHeadFits DEF ReadLaneHead, chain
  <1>2. CASE ReadNonce(p)  BY <1>2, ReadNonceFits DEF ReadNonce, chain
  <1>3. CASE BuildTransaction(p)  BY <1>3, BuildTransactionFits DEF BuildTransaction, chain
  <1>4. CASE SendTransaction(p)  BY <1>4, SendTransactionFits DEF SendTransaction
  <1>5. CASE WaitForReceipt(p)  BY <1>5, WaitForReceiptFits DEF WaitForReceipt, chain
  <1>6. CASE RpcFails(p)  BY <1>6, RpcFailsFits DEF RpcFails
  <1>7. CASE Rerun(p)  BY <1>7, RerunFits DEF Rerun, chain
  <1>8. QED  BY <1>1, <1>2, <1>3, <1>4, <1>5, <1>6, <1>7 DEF Step

\* The other scripts stay where they are.
LEMMA OthersStay ==
    ASSUME ProcInv, ScriptInv, NEW p \in Procs, NEW new, Go(p, new), Fits(p, new),
           UNCHANGED <<scenario, nonce, receipt, contracts>>
    PROVE  /\ DOMAIN proc' = Procs /\ proc'[p] = new
           /\ \A q \in Procs : StOK(q, proc'[q]) /\ ScriptOK(q, proc'[q]) /\ Outlives(q, proc'[q])
  <1>1. DOMAIN proc = Procs  BY DEF ProcInv
  <1>2. DOMAIN proc' = Procs /\ proc'[p] = new /\ \A q \in Procs : q # p => proc'[q] = proc[q]
    BY <1>1 DEF Go
  <1>3. ASSUME NEW q \in Procs
        PROVE  StOK(q, proc'[q]) /\ ScriptOK(q, proc'[q]) /\ Outlives(q, proc'[q])
    <2>1. CASE q = p  BY <1>2, <2>1 DEF Fits
    <2>2. CASE q # p
      <3>1. proc'[q] = proc[q]  BY <1>2, <2>2
      <3>2. StOK(q, proc[q]) /\ ScriptOK(q, proc[q])  BY DEF ProcInv, ScriptInv, ScriptOK
      <3>3. Outlives(q, proc[q])  BY DEF Outlives
      <3>4. QED  BY <3>1, <3>2, <3>3
    <2>3. QED  BY <2>1, <2>2
  <1>4. QED  BY <1>2, <1>3

\* What has been sent stays sent.
LEMMA IdsStay ==
    ASSUME scenario' = scenario, \A q \in Procs : Outlives(q, proc'[q]), NEW id, IdOK(id) PROVE IdOK(id)'
  <1>1. PICK q \in Procs : \E r, k, i : IsId(id, q, r, k, i) /\ Past(q, proc[q], r, k, i)
    BY DEF IdOK
  <1>2. PICK r, k, i : IsId(id, q, r, k, i) /\ Past(q, proc[q], r, k, i)  BY <1>1
  <1>3. r \in Nat /\ i \in Nat /\ k \in DOMAIN Scripts[q]  BY <1>2 DEF IsId
  <1>4. Past(q, proc'[q], r, k, i)  BY <1>2, <1>3 DEF Outlives
  <1>5. Past(q, proc[q], r, k, i)'  BY <1>4 DEF Past, Cmd, Scripts
  <1>6. IsId(id, q, r, k, i)' /\ q \in Procs'  BY <1>2 DEF IsId, Scripts, Procs
  <1>7. QED  BY <1>5, <1>6 DEF IdOK

\* A transaction in the pool keeps being the one of its command.
LEMMA TxStays ==
    ASSUME scenario' = scenario, DOMAIN contracts \subseteq DOMAIN contracts', NEW tx, TxOK(tx)
    PROVE  TxOK(tx)'
  BY DEF TxOK, CommandOf, Scripts

\* Contracts and receipts are never taken back.
Grows == /\ scenario' = scenario
         /\ DOMAIN contracts \subseteq DOMAIN contracts' /\ DOMAIN receipt \subseteq DOMAIN receipt'
         /\ \A id \in DOMAIN receipt : receipt'[id] = receipt[id]

\* What holds of a script goes on to hold.
LEMMA ScriptStays ==
    ASSUME Grows, NEW p, StOK(p, proc'[p]), ScriptOK(p, proc'[p])
    PROVE  StOK(p, proc[p])' /\ ScriptOK(p, proc[p])'
  <1>1. Scripts' = Scripts /\ scenario' = scenario  BY DEF Scripts, Grows
  <1>2. Cmd(p, proc[p])' = Cmd(p, proc'[p])  BY <1>1 DEF Cmd
  <1>3. StOK(p, proc[p])'  BY <1>1, <1>2 DEF StOK
  <1>4. EnvOK(p, proc[p])'  BY <1>1 DEF ScriptOK, EnvOK, Grows
  <1>5. \A k, j : Good(p, proc'[p], k, j) => Good(p, proc[p], k, j)'  BY DEF Good, Grows
  <1>6. WaitOK(p, proc[p])'  BY <1>2, <1>5 DEF ScriptOK, WaitOK
  <1>7. ReportOK(p, proc[p])'  BY <1>1, <1>5 DEF ScriptOK, ReportOK
  <1>8. QED  BY <1>3, <1>4, <1>6, <1>7 DEF ScriptOK

\* The step of a script.
LEMMA ProcStep ==
    ASSUME ScenariosOK, CtlInv, NEW p \in Procs, Step(p) \/ RpcFails(p) \/ Rerun(p)
    PROVE  CtlInv'
  <1>1. ProcInv /\ IdInv /\ PoolInv /\ ReceiptInv /\ AddressInv /\ CertInv /\ ScriptInv  BY DEF CtlInv
  <1>2. Underway(p)
    <2>1. proc[p].pc # "done"
      BY DEF Step, ReadLaneHead, ReadNonce, BuildTransaction, SendTransaction,
             WaitForReceipt, RpcFails, Rerun, At
    <2>2. QED  BY <1>1, <2>1 DEF Underway, ProcInv, ScriptInv, ScriptOK
  <1>3. /\ UNCHANGED <<scenario, nonce, receipt, contracts>>
        /\ (GoesOn(p) /\ UNCHANGED pool) \/ Sends(p)
    BY <1>1, <1>2, ProcFits
  <1>4. PICK new : /\ Go(p, new) /\ Fits(p, new)
                   /\ \/ UNCHANGED pool
                      \/ /\ pool' = pool \cup {Signed(p)} /\ TxOK(Signed(p))
                         /\ ~Past(p, proc[p], proc[p].run, CommandNo(p), proc[p].i)
                         /\ Past(p, new, proc[p].run, CommandNo(p), proc[p].i)
    BY <1>3, Zenon DEF GoesOn, Sends
  <1>5. /\ DOMAIN proc' = Procs /\ proc'[p] = new
        /\ \A q \in Procs : StOK(q, proc'[q]) /\ ScriptOK(q, proc'[q]) /\ Outlives(q, proc'[q])
    BY <1>1, <1>3, <1>4, OthersStay
  <1>6. Grows  BY <1>3 DEF Grows
  <1>7. Procs' = Procs /\ Scripts' = Scripts  BY <1>3 DEF Procs, Scripts
  <1>8. \A q \in Procs : StOK(q, proc[q])' /\ ScriptOK(q, proc[q])'  BY <1>5, <1>6, ScriptStays
  <1>9. ProcInv'  BY <1>1, <1>3, <1>5, <1>7, <1>8 DEF ProcInv
  <1>10. ScriptInv'  BY <1>7, <1>8 DEF ScriptInv, ScriptOK
  <1>11. \A id : IdOK(id) => IdOK(id)'  BY <1>3, <1>5, IdsStay
  <1>12. IdInv' /\ PoolInv'
    <2>1. \A tx \in pool : TxOK(tx)'  BY <1>1, <1>6, TxStays DEF PoolInv, Grows
    <2>2. CASE UNCHANGED pool  BY <1>1, <1>3, <1>11, <2>1, <2>2 DEF IdInv, PoolInv
    <2>3. CASE /\ pool' = pool \cup {Signed(p)} /\ TxOK(Signed(p))
               /\ ~Past(p, proc[p], proc[p].run, CommandNo(p), proc[p].i)
               /\ Past(p, new, proc[p].run, CommandNo(p), proc[p].i)
      <3>a. PICK tx, r, k, i : /\ tx = Signed(p)
                               /\ r = proc[p].run /\ k = CommandNo(p) /\ i = proc[p].i
        OBVIOUS
      <3>1. tx.id = <<p, r, k, i>>  BY <3>a DEF Signed, TxId
      <3>2. r \in Nat /\ i \in Nat /\ k \in DOMAIN Scripts[p]  BY <1>2, <3>a, OldFacts DEF CommandNo
      <3>3. TxOK(tx)'  BY <1>6, <2>3, <3>a, TxStays DEF Grows
      <3>4. ~IdOK(tx.id)
        <4>1. ASSUME NEW q \in Procs, NEW s, NEW m, NEW j, IsId(tx.id, q, s, m, j)
              PROVE  q = p /\ s = r /\ m = k /\ j = i
          BY <3>1, <4>1 DEF IsId
        <4>2. QED  BY <2>3, <3>a, <4>1 DEF IdOK
      <3>5. IdOK(tx.id)'
        <4>1. Past(p, proc'[p], r, k, i)  BY <1>5, <2>3, <3>a
        <4>2. Past(p, proc[p], r, k, i)'  BY <1>7, <4>1 DEF Past, Cmd
        <4>3. IsId(tx.id, p, r, k, i)'  BY <1>7, <3>1, <3>2 DEF IsId
        <4>4. QED  BY <1>7, <4>2, <4>3 DEF IdOK
      <3>6. pool' = pool \cup {tx} /\ receipt' = receipt  BY <1>3, <2>3, <3>a
      <3>7. \A t \in pool : IdOK(t.id) /\ t.id # tx.id  BY <1>1, <3>4 DEF IdInv
      <3>8. tx.id \notin DOMAIN receipt  BY <1>1, <3>4 DEF IdInv
      <3>9. IdInv'  BY <1>1, <1>11, <3>5, <3>6, <3>7, <3>8 DEF IdInv
      <3>10. PoolInv'  BY <2>1, <3>3, <3>6 DEF PoolInv
      <3>11. QED  BY <3>9, <3>10
    <2>4. QED  BY <1>4, <2>2, <2>3
  <1>13. ReceiptInv'
    <2>1. \A id : CommandOf(id)' = CommandOf(id)  BY <1>7 DEF CommandOf
    <2>2. \A id : ReceiptOK(id) => ReceiptOK(id)'  BY <1>3, <2>1 DEF ReceiptOK
    <2>3. QED  BY <1>1, <1>3, <2>2 DEF ReceiptInv
  <1>14. AddressInv'  BY <1>1, <1>3 DEF AddressInv
  <1>15. CertInv'
    <2>1. \A a : Certifications(a)' = Certifications(a)  BY <1>3 DEF Certifications
    <2>2. \A c : IsSubmission(c)' <=> IsSubmission(c)  BY <1>7 DEF IsSubmission
    <2>3. \A a : CertOK(a) => CertOK(a)'  BY <1>3, <2>1, <2>2 DEF CertOK
    <2>4. QED  BY <1>1, <1>3, <2>3 DEF CertInv
  <1>16. QED  BY <1>9, <1>10, <1>12, <1>13, <1>14, <1>15 DEF CtlInv

\* The lanes and new heads of a bundle, as the certifier's loop sees them.
LEMMA BundleLanes ==
    ASSUME NEW b, BundleOK(b)
    PROVE  LET a == b.artifacts IN
           /\ Len(a) \in Nat /\ DOMAIN a = 1..Len(a) /\ Len(LanesOf(a)) = Len(a)
           /\ \A i \in DOMAIN a : /\ LanesOf(a)[i] = a[i].laneId /\ NextsOf(a)[i] = a[i].next
                                  /\ a[i].laneId \in LaneIds /\ a[i].next \in Points
           /\ \A i, j \in DOMAIN a : a[i].laneId = a[j].laneId => i = j
  <1> DEFINE a == b.artifacts
  <1>1. /\ Row(a)
        /\ \A i \in DOMAIN a : a[i].laneId \in LaneIds /\ a[i].next \in Points
        /\ \A i, j \in DOMAIN a : a[i].laneId = a[j].laneId => i = j
    BY DEF BundleOK, Row
  <1> HIDE DEF a
  <1>2. Len(a) \in Nat /\ DOMAIN a = 1..Len(a)  BY <1>1, RowFacts
  <1>3. /\ LanesOf(a) = [i \in 1..Len(a) |-> LanesOf(a)[i]]
        /\ \A i \in DOMAIN a : LanesOf(a)[i] = a[i].laneId /\ NextsOf(a)[i] = a[i].next
    BY <1>2 DEF LanesOf, NextsOf
  <1>4. Len(LanesOf(a)) = Len(a)  BY <1>2, <1>3, RowIs
  <1>5. QED  BY <1>1, <1>2, <1>3, <1>4 DEF a

\* A bundle is compared with the heads that storage holds.
LEMMA VerifySeesHeads ==
    ASSUME NEW b, BundleOK(b), NEW key, NEW heads, VerifyOK(key, heads, b.artifacts),
           NEW i \in DOMAIN b.artifacts
    PROVE  heads[b.artifacts[i].laneId] = b.artifacts[i].prev
  <1> DEFINE a == b.artifacts
             l == a[i].laneId
  <1>1. HeadAt(heads, LanesOf(a), NextsOf(a), i, l) = a[i].prev  BY DEF VerifyOK
  <1>2. {j \in 1..(i - 1) : LanesOf(a)[j] = l} = {}
    <2>1. i \in 1..Len(a) /\ Len(a) \in Nat /\ DOMAIN a = 1..Len(a)  BY BundleLanes
    <2>2. \A j \in DOMAIN a : LanesOf(a)[j] = l => i = j  BY BundleLanes
    <2>3. QED  BY <2>1, <2>2
  <1>3. QED  BY <1>1, <1>2 DEF HeadAt

\* Nothing is certified after a bundle that it does not follow.
LEMMA CertifiesNoMore ==
    ASSUME NEW a, NEW b, BundleOK(b), DoesNotFollow(b, a), NEW key, NEW heads, Ends(heads, a),
           VerifyOK(key, heads, b.artifacts)
    PROVE  FALSE
  <1>1. PICK i \in DOMAIN a.artifacts, j \in DOMAIN b.artifacts :
            a.artifacts[i].laneId = b.artifacts[j].laneId /\ a.artifacts[i].next # b.artifacts[j].prev
    BY DEF DoesNotFollow
  <1>2. heads[b.artifacts[j].laneId] = b.artifacts[j].prev  BY <1>1, VerifySeesHeads
  <1>3. QED  BY <1>1, <1>2 DEF Ends

\* A certified bundle leaves the heads where it ends.
LEMMA VerifyEnds ==
    ASSUME NEW b, BundleOK(b), NEW heads
    PROVE  /\ Ends(HeadsVerified(heads, b.artifacts), b)
           /\ DOMAIN HeadsVerified(heads, b.artifacts) = LaneIds
  <1> DEFINE a == b.artifacts
             n == Len(a) + 1
             EndHead(l) == HeadAt(heads, LanesOf(a), NextsOf(a), n, l)
  <1>0. /\ Len(a) \in Nat /\ DOMAIN a = 1..Len(a) /\ Len(LanesOf(a)) = Len(a)
        /\ \A i \in DOMAIN a : /\ LanesOf(a)[i] = a[i].laneId /\ NextsOf(a)[i] = a[i].next
                               /\ a[i].laneId \in LaneIds
        /\ \A i, j \in DOMAIN a : a[i].laneId = a[j].laneId => i = j
    BY BundleLanes
  <1>1. HeadsVerified(heads, a) = [l \in LaneIds |-> EndHead(l)]
    BY <1>0, Zenon DEF HeadsVerified, HeadsAfter
  <1> HIDE DEF a
  <1>2. ASSUME NEW i \in DOMAIN a PROVE EndHead(a[i].laneId) = a[i].next
    <2> DEFINE l == a[i].laneId
               W == {j \in 1..(n - 1) : LanesOf(a)[j] = l}
    <2>1. W = {i}  BY <1>0
    <2>2. i \in Nat  BY <1>0
    <2>3. Max(W) = i
      <3>1. {i} \subseteq Nat /\ i \in {i} /\ \A y \in {i} : y <= i  BY <2>2
      <3>2. Max({i}) = i  BY <3>1, MaxIs, Zenon
      <3>3. QED  BY <2>1, <3>2
    <2>4. W # {} /\ NextsOf(a)[i] = a[i].next  BY <1>0, <2>1
    <2>5. EndHead(l) = IF W = {} THEN heads[l] ELSE NextsOf(a)[Max(W)]
      BY Zenon DEF HeadAt
    <2> HIDE DEF W, EndHead
    <2>6. QED  BY <2>3, <2>4, <2>5
  <1>3. QED  BY <1>0, <1>1, <1>2 DEF Ends, a

\* Initializing lanes moves no head of a certified bundle.
LEMMA InitKeepsEnds ==
    ASSUME NEW b, BundleOK(b), NEW heads, Ends(heads, b),
           NEW lanes \in Seq(LaneIds), NEW points, InitializeOK(heads, lanes, points)
    PROVE  Ends(HeadsAfter(heads, lanes, points), b)
  <1> DEFINE a == b.artifacts
             n == Len(lanes) + 1
  <1>1. SUFFICES ASSUME NEW i \in DOMAIN a
                 PROVE  HeadsAfter(heads, lanes, points)[a[i].laneId] = a[i].next
    BY DEF Ends
  <1> DEFINE l == a[i].laneId
  <1>2. l \in LaneIds /\ a[i].next \in Points  BY BundleLanes
  <1>3. heads[l] = a[i].next /\ isSet(heads[l])
    BY <1>2, PointsAssumption DEF Ends, isSet
  <1> HIDE DEF l, a
  <1>4. \A j \in 1..Len(lanes) : lanes[j] # l  BY <1>2, <1>3, InitializesUnset
  <1>5. {j \in 1..(n - 1) : lanes[j] = l} = {}  BY <1>4
  <1>6. HeadAt(heads, lanes, points, n, l) = heads[l]  BY <1>5 DEF HeadAt
  <1>7. QED  BY <1>2, <1>3, <1>6 DEF HeadsAfter, l

\* What a certified bundle adds to the total.
LEMMA BundleTotal ==
    ASSUME NEW b, BundleOK(b) PROVE VerifiedTx(b.artifacts) \in Nat
  <1>1. Len(b.artifacts) \in Nat /\ BATCH_TX_COUNT \in Nat  BY BundleLanes, BatchAssumption
  <1>2. QED  BY <1>1 DEF VerifiedTx

\* A bundle that is certified adds the total that it claims.
LEMMA CertifiedTotal ==
    ASSUME NEW b, BundleOK(b), NEW key, NEW heads, VerifyOK(key, heads, b.artifacts)
    PROVE  VerifiedTx(b.artifacts) = b.verifiedTxTotal
  <1> DEFINE a == b.artifacts
             f == [k \in DOMAIN a |-> a[k].txCount]
  <1>1. Len(a) \in Nat /\ DOMAIN a = 1..Len(a)  BY BundleLanes
  <1>2. \A k \in DOMAIN a : f[k] = BATCH_TX_COUNT  BY DEF VerifyOK
  <1>3. IsFiniteSet(DOMAIN a) /\ Cardinality(DOMAIN a) = Len(a)
    <2>1. IsFiniteSet(1..Len(a)) /\ Cardinality(1..Len(a)) = Len(a)
      <3> HIDE DEF a
      <3>1. IsFiniteSet(1..Len(a)) /\ Cardinality(1..Len(a)) = IF 1 > Len(a) THEN 0 ELSE Len(a) - 1 + 1
        BY <1>1, FS_Interval
      <3>2. QED  BY <1>1, <3>1
    <2>2. QED  BY <1>1, <2>1
  <1>4. BATCH_TX_COUNT \in Int  BY BatchAssumption
  <1> HIDE DEF a, f
  <1>5. SumFunctionOnSet(f, DOMAIN a) = BATCH_TX_COUNT * Cardinality(DOMAIN a)
    BY <1>2, <1>3, <1>4, SumConstant
  <1>6. b.verifiedTxTotal = SumFunctionOnSet(f, DOMAIN a)  BY Zenon DEF BundleOK, SumTxCount, a, f
  <1>7. b.verifiedTxTotal = BATCH_TX_COUNT * Len(a)  BY <1>3, <1>5, <1>6
  <1>8. VerifiedTx(a) = Len(a) * BATCH_TX_COUNT  BY DEF VerifiedTx
  <1>9. QED  BY <1>1, <1>4, <1>7, <1>8 DEF a

\* A transaction of the pool belongs to a command.
LEMMA PoolFacts ==
    ASSUME ScenariosOK, CtlInv, NEW tx \in pool
    PROVE  /\ TxOK(tx) /\ tx.id \notin DOMAIN receipt /\ IdOK(tx.id)
           /\ CommandOK(CommandOf(tx.id))
           /\ CommandOf(tx.id).kind \in Submit => IsSubmission(CommandOf(tx.id))
  <1> DEFINE c == CommandOf(tx.id)
  <1>1. TxOK(tx) /\ tx.id \notin DOMAIN receipt /\ IdOK(tx.id) /\ scenario \in DOMAIN Scenarios
    BY DEF CtlInv, PoolInv, IdInv, ProcInv
  <1>2. PICK p \in Procs : \E r, k, i : IsId(tx.id, p, r, k, i)  BY <1>1 DEF IdOK
  <1>3. PICK r, k, i : IsId(tx.id, p, r, k, i)  BY <1>2
  <1>4. k \in DOMAIN Scripts[p] /\ c = Scripts[p][k]  BY <1>3 DEF IsId, CommandOf
  <1> HIDE DEF c
  <1>5. CommandOK(c)  BY <1>1, <1>4, ScriptFacts
  <1>6. c.kind \in Submit => IsSubmission(c)  BY <1>4 DEF IsSubmission
  <1>7. QED  BY <1>1, <1>5, <1>6 DEF c

\* The call of a transaction follows from the kind of its command.
LEMMA CallOf ==
    ASSUME ScenariosOK, CtlInv, NEW tx \in pool
    PROVE  LET c == CommandOf(tx.id) IN
           /\ tx.call.op \in {"create", "verify", "init", "vk", "pay"}
           /\ tx.call.op = "create" <=> c.kind \in Deploys
           /\ tx.call.op = "create" => \E x : tx.call.contract \in {Verifier(x), Certifier(x)}
           /\ tx.call.op = "verify" <=> c.kind \in Submit
           /\ tx.call.op = "verify" =>
                 tx.call.artifacts = c.bundle.artifacts /\ BundleOK(c.bundle) /\ tx.to \in DOMAIN contracts
           /\ tx.call.op = "init" => tx.call.lanes \in Seq(LaneIds)
  <1> DEFINE c == CommandOf(tx.id)
  <1>1. TxOK(tx) /\ CommandOK(c)  BY PoolFacts
  <1>2. c.kind \in Deploys \cup Submit \cup {"init-lane-heads", "init-vk", "fund-accounts"}
    BY <1>1 DEF TxOK, CommandOK
  <1>3. c.kind \in Submit => BundleOK(c.bundle)  BY <1>1 DEF CommandOK
  <1>4. CASE c.kind \in Deploys
    <2>1. tx.call.op = "create" /\ \E x : tx.call.contract \in {Verifier(x), Certifier(x)}
      BY <1>1, <1>4, Zenon DEF TxOK
    <2>2. c.kind \notin Submit  BY <1>4 DEF Deploys, Submit
    <2> HIDE DEF c
    <2>3. QED  BY <1>4, <2>1, <2>2 DEF c
  <1>5. CASE c.kind \in Submit
    <2>1. /\ tx.call = [op |-> "verify", artifacts |-> c.bundle.artifacts]
          /\ tx.to \in DOMAIN contracts
      BY <1>1, <1>5, Zenon DEF TxOK
    <2>2. c.kind \notin Deploys  BY <1>5 DEF Deploys, Submit
    <2> HIDE DEF c
    <2>3. QED  BY <1>3, <1>5, <2>1, <2>2 DEF c
  <1>6. CASE c.kind \in {"init-lane-heads", "init-vk", "fund-accounts"}
    <2>1. /\ tx.call.op \in {"init", "vk", "pay"}
          /\ tx.call.op = "init" => tx.call.lanes \in Seq(LaneIds)
      BY <1>1, <1>6 DEF TxOK
    <2>2. c.kind \notin Deploys \cup Submit  BY <1>6 DEF Deploys, Submit
    <2> HIDE DEF c
    <2>3. QED  BY <2>1, <2>2 DEF c
  <1>7. QED  BY <1>2, <1>4, <1>5, <1>6

\* A block takes the transaction.
Exists(tx) == tx.to \in DOMAIN contracts
Ok(tx)     == Succeeds(tx.from, tx.to, tx.call)
Where(tx)  == IF tx.call.op = "create" THEN CreateAddress(tx) ELSE tx.to
After(tx, a) == IF a = tx.to /\ Ok(tx) THEN Called(contracts[a], tx.call) ELSE contracts[a]
Amount(tx) == IF Ok(tx) /\ Exists(tx) /\ tx.call.op = "verify" THEN VerifiedTx(tx.call.artifacts) ELSE 0

\* What a block that takes a transaction does to the chain.
LEMMA Included ==
    ASSUME ScenariosOK, CtlInv, NEW tx \in pool, IncludeTransaction(tx)
    PROVE  /\ Grows /\ tx.nonce = nonce[tx.from] /\ tx.from \in Senders /\ proc' = proc
           /\ nonce' = [nonce EXCEPT ![tx.from] = @ + 1] /\ pool' = pool \ {tx}
           /\ DOMAIN receipt' = DOMAIN receipt \cup {tx.id}
           /\ receipt'[tx.id] = [ok |-> Ok(tx), at |-> Where(tx), certified |-> Amount(tx)]
           /\ tx.call.op = "create" =>
                 /\ DOMAIN contracts' = DOMAIN contracts \cup {Where(tx)}
                 /\ contracts'[Where(tx)] = tx.call.contract
                 /\ Where(tx) \notin DOMAIN contracts
                 /\ \A a \in DOMAIN contracts : contracts'[a] = contracts[a]
           /\ tx.call.op # "create" =>
                 /\ DOMAIN contracts' = DOMAIN contracts
                 /\ \A a \in DOMAIN contracts : contracts'[a] = After(tx, a)
           /\ Amount(tx) \in Nat
  <1>1. /\ tx.nonce = nonce[tx.from] /\ scenario' = scenario /\ proc' = proc
        /\ nonce' = [nonce EXCEPT ![tx.from] = @ + 1] /\ pool' = pool \ {tx}
        /\ receipt' = Put(receipt, tx.id, [ok |-> Ok(tx), at |-> Where(tx), certified |-> Amount(tx)])
        /\ contracts' = IF tx.call.op = "create" THEN Put(contracts, Where(tx), tx.call.contract)
                        ELSE IF Ok(tx) /\ Exists(tx)
                             THEN [contracts EXCEPT ![Where(tx)] = Called(@, tx.call)]
                        ELSE contracts
    BY Zenon DEF IncludeTransaction, Ok, Where, Amount, Exists
  <1>2. tx.id \notin DOMAIN receipt /\ tx.from \in Senders  BY PoolFacts DEF TxOK
  <1>3. /\ DOMAIN receipt' = DOMAIN receipt \cup {tx.id}
        /\ receipt'[tx.id] = [ok |-> Ok(tx), at |-> Where(tx), certified |-> Amount(tx)]
        /\ \A id \in DOMAIN receipt : receipt'[id] = receipt[id]
    BY <1>1, <1>2 DEF Put
  <1>4. ASSUME tx.call.op = "create"
        PROVE  /\ DOMAIN contracts' = DOMAIN contracts \cup {Where(tx)}
               /\ contracts'[Where(tx)] = tx.call.contract
               /\ Where(tx) \notin DOMAIN contracts
               /\ \A a \in DOMAIN contracts : contracts'[a] = contracts[a]
    <2>1. Where(tx) = <<tx.from, tx.nonce>>  BY <1>4 DEF Where, CreateAddress
    <2>2. nonce[tx.from] \in Nat  BY <1>2 DEF CtlInv, ProcInv
    <2>3. Where(tx) \notin DOMAIN Scenarios[scenario].contracts
      <3>1. ScenarioOK(Scenarios[scenario])  BY DEF ScenariosOK, CtlInv, ProcInv
      <3>2. Where(tx) \in Senders \X Nat  BY <1>1, <1>2, <2>1, <2>2
      <3>3. QED  BY <3>1, <3>2 DEF ScenarioOK
    <2>4. ASSUME NEW s \in Senders, NEW n \in Nat, Where(tx) = <<s, n>>, n < nonce[s] PROVE FALSE
      BY <1>1, <2>1, <2>2, <2>4
    <2>5. Where(tx) \notin DOMAIN contracts  BY <2>3, <2>4 DEF CtlInv, AddressInv
    <2>6. contracts' = Put(contracts, Where(tx), tx.call.contract)  BY <1>1, <1>4
    <2>7. QED  BY <2>5, <2>6 DEF Put
  <1>5. ASSUME tx.call.op # "create"
        PROVE  /\ DOMAIN contracts' = DOMAIN contracts
               /\ \A a \in DOMAIN contracts : contracts'[a] = After(tx, a)
    <2>1. contracts' = IF Ok(tx) /\ Exists(tx) THEN [contracts EXCEPT ![tx.to] = Called(@, tx.call)]
                       ELSE contracts
      BY <1>1, <1>5 DEF Where
    <2>2. QED  BY <2>1 DEF Exists, After
  <1>6. Amount(tx) \in Nat
    <2>1. tx.call.op = "verify" => VerifiedTx(tx.call.artifacts) \in Nat  BY CallOf, BundleTotal
    <2>2. QED  BY <2>1 DEF Amount
  <1>7. Grows  BY <1>1, <1>3, <1>4, <1>5 DEF Grows
  <1>8. QED  BY <1>1, <1>2, <1>3, <1>4, <1>5, <1>6, <1>7

\* The new receipt is one of its command.
LEMMA NewReceiptOK ==
    ASSUME ScenariosOK, CtlInv, NEW tx \in pool, IncludeTransaction(tx) PROVE ReceiptOK(tx.id)'
  <1> DEFINE c == CommandOf(tx.id)
  <1>1. /\ receipt'[tx.id] = [ok |-> Ok(tx), at |-> Where(tx), certified |-> Amount(tx)]
        /\ Amount(tx) \in Nat /\ Grows
        /\ tx.call.op = "create" => DOMAIN contracts' = DOMAIN contracts \cup {Where(tx)}
    BY Included
  <1>2. CommandOf(tx.id)' = c  BY <1>1 DEF CommandOf, Scripts, Grows
  <1>3. /\ tx.call.op = "create" <=> c.kind \in Deploys
        /\ tx.call.op = "verify" <=> c.kind \in Submit
        /\ tx.call.op = "verify" =>
              tx.call.artifacts = c.bundle.artifacts /\ BundleOK(c.bundle) /\ Exists(tx)
    BY CallOf DEF Exists
  <1> HIDE DEF c
  <1>4. Amount(tx) > 0 => Where(tx) \in DOMAIN contracts'
    BY <1>1 DEF Amount, Exists, Where, Grows
  <1>5. c.kind \in Deploys => Where(tx) \in DOMAIN contracts'  BY <1>1, <1>3
  <1>6. ASSUME c.kind \in Submit, Ok(tx) PROVE Amount(tx) = c.bundle.verifiedTxTotal
    <2>1. /\ tx.call.op = "verify" /\ Exists(tx)
          /\ BundleOK(c.bundle) /\ tx.call.artifacts = c.bundle.artifacts
      BY <1>3, <1>6
    <2>2. PICK key, heads : VerifyOK(key, heads, c.bundle.artifacts)
      BY <1>6, <2>1 DEF Ok, Succeeds, Exists
    <2>3. VerifiedTx(c.bundle.artifacts) = c.bundle.verifiedTxTotal  BY <2>1, <2>2, CertifiedTotal
    <2>4. QED  BY <1>6, <2>1, <2>3 DEF Amount
  <1>7. QED
    <2>1. /\ receipt'[tx.id].certified = Amount(tx) /\ receipt'[tx.id].at = Where(tx)
          /\ receipt'[tx.id].ok = Ok(tx)
      BY <1>1
    <2>2. QED  BY <1>1, <1>2, <1>4, <1>5, <1>6, <2>1 DEF ReceiptOK

\* The receipts that were there stay.
LEMMA OldReceiptsOK ==
    ASSUME ReceiptInv, Grows, NEW id \in DOMAIN receipt PROVE ReceiptOK(id)'
  <1>1. /\ CommandOf(id)' = CommandOf(id) /\ receipt'[id] = receipt[id]
        /\ DOMAIN contracts \subseteq DOMAIN contracts'
    BY DEF CommandOf, Scripts, Grows
  <1>2. QED  BY <1>1 DEF ReceiptInv, ReceiptOK

\* A certifier that a transaction does not certify anything with has the same receipts.
LEMMA SameCertifications ==
    ASSUME ScenariosOK, CtlInv, NEW tx \in pool, IncludeTransaction(tx),
           NEW a, a # Where(tx) \/ Amount(tx) = 0
    PROVE  Certifications(a)' = Certifications(a)
  <1>1. /\ DOMAIN receipt' = DOMAIN receipt \cup {tx.id}
        /\ receipt'[tx.id] = [ok |-> Ok(tx), at |-> Where(tx), certified |-> Amount(tx)]
        /\ \A id \in DOMAIN receipt : receipt'[id] = receipt[id]
        /\ tx.id \notin DOMAIN receipt
    BY Included, PoolFacts DEF Grows
  <1>2. ~(receipt'[tx.id].at = a /\ receipt'[tx.id].certified > 0)  BY <1>1
  <1>3. QED  BY <1>1, <1>2 DEF Certifications

\* The certifier that is called.
LEMMA CalledOK ==
    ASSUME ScenariosOK, CtlInv, NEW tx \in pool, IncludeTransaction(tx),
           tx.call.op # "create", Ok(tx), tx.to \in DOMAIN contracts, "total" \in DOMAIN contracts[tx.to]
    PROVE  CertOK(tx.to)'
  <1> DEFINE a   == tx.to
             c   == contracts[a]
             new == contracts'[a]
             com == CommandOf(tx.id)
  <1>0. CertOK(a) /\ DOMAIN c = {"verifier", "heads", "total"} /\ DOMAIN c.heads = LaneIds
    BY DEF CtlInv, CertInv, CertOK, CertifierShape
  <1>1. new = Called(c, tx.call) /\ Where(tx) = a /\ Grows
    BY Included DEF Where, After
  <1>2. \A x : IsSubmission(x)' <=> IsSubmission(x)
    BY <1>1 DEF IsSubmission, Procs, Scripts, Grows
  <1>3. tx.call.op \in {"verify", "init", "vk", "pay"}  BY CallOf
  <1>4. CASE tx.call.op # "verify"
    <2>1. Amount(tx) = 0  BY <1>4 DEF Amount
    <2>2. Certifications(a)' = Certifications(a)  BY <2>1, SameCertifications
    <2>3. \A id \in DOMAIN receipt : id \in DOMAIN receipt' /\ receipt'[id] = receipt[id]  BY <1>1 DEF Grows
    <2>4. /\ DOMAIN new = DOMAIN c /\ new.total = c.total
          /\ new.heads = IF tx.call.op = "init" THEN HeadsAfter(c.heads, tx.call.lanes, tx.call.points)
                         ELSE c.heads
      BY <1>0, <1>1, <1>3, <1>4 DEF Called
    <2>5. DOMAIN new.heads = LaneIds  BY <1>0, <2>4 DEF HeadsAfter
    <2>6. ASSUME NEW b, BundleOK(b), Ends(c.heads, b) PROVE Ends(new.heads, b)
      <3>1. CASE tx.call.op = "init"
        <4>1. InitializeOK(c.heads, tx.call.lanes, tx.call.points) /\ tx.call.lanes \in Seq(LaneIds)
          BY <3>1, CallOf DEF Ok, Succeeds
        <4>2. QED  BY <2>4, <2>6, <3>1, <4>1, InitKeepsEnds
      <3>2. CASE tx.call.op # "init"  BY <2>4, <2>6, <3>2
      <3>3. QED  BY <3>1, <3>2
    <2>7. \A x : IsSubmission(x) => BundleOK(x.bundle)
      BY ScriptFacts DEF IsSubmission, CommandOK, CtlInv, ProcInv
    <2> HIDE DEF c, new, a
    <2>8. CertifierShape(new)  BY <1>0, <2>4, <2>5 DEF CertifierShape
    <2>9. \/ Certifications(a) = {} /\ new.total = 0
          \/ \E id \in DOMAIN receipt' :
                /\ Certifications(a) = {id} /\ new.total = receipt'[id].certified
                /\ \E x : IsSubmission(x) /\ Ends(new.heads, x.bundle)
      BY <1>0, <2>3, <2>4, <2>6, <2>7 DEF CertOK, c
    <2>10. QED  BY <1>2, <2>2, <2>8, <2>9 DEF CertOK, new, a
  <1>5. CASE tx.call.op = "verify"
    <2> DEFINE b == com.bundle
    <2>1. BundleOK(b) /\ tx.call.artifacts = b.artifacts /\ IsSubmission(com)
      BY <1>5, CallOf, PoolFacts
    <2>2. PICK key : VerifyOK(key, c.heads, b.artifacts)
      BY <1>5, <2>1 DEF Ok, Succeeds
    <2>3. Certifications(a) = {} /\ c.total = 0
      <3>1. ASSUME NEW x, IsSubmission(x), Ends(c.heads, x.bundle) PROVE FALSE
        <4>1. DoesNotFollow(b, x.bundle)
          <5>1. ScenarioOK(Scenarios[scenario])  BY DEF ScenariosOK, CtlInv, ProcInv
          <5> HIDE DEF com
          <5>2. QED  BY <2>1, <3>1, <5>1 DEF ScenarioOK, IsSubmission, Procs, Scripts
        <4> HIDE DEF b, c
        <4>2. QED  BY <2>1, <2>2, <3>1, <4>1, CertifiesNoMore
      <3>2. QED  BY <1>0, <3>1 DEF CertOK
    <2>4. /\ DOMAIN new = DOMAIN c /\ new.total = VerifiedTx(b.artifacts)
          /\ new.heads = HeadsVerified(c.heads, b.artifacts)
      <3>1. VerifiedTx(b.artifacts) \in Nat  BY <2>1, BundleTotal
      <3>2. new = [c EXCEPT !.heads = HeadsVerified(@, b.artifacts),
                            !.total = @ + VerifiedTx(b.artifacts)]
        BY <1>1, <1>5, <2>1 DEF Called
      <3> HIDE DEF new, c, b
      <3>3. QED  BY <1>0, <2>3, <3>1, <3>2
    <2>5. Ends(new.heads, b) /\ DOMAIN new.heads = LaneIds  BY <2>1, <2>4, VerifyEnds
    <2>6. CertifierShape(new)  BY <1>0, <2>4, <2>5 DEF CertifierShape
    <2>7. Amount(tx) = VerifiedTx(b.artifacts)  BY <1>5, <2>1 DEF Amount, Exists
    <2>8. /\ DOMAIN receipt' = DOMAIN receipt \cup {tx.id}
          /\ receipt'[tx.id] = [ok |-> Ok(tx), at |-> a, certified |-> Amount(tx)]
          /\ \A id \in DOMAIN receipt : receipt'[id] = receipt[id]
          /\ tx.id \notin DOMAIN receipt /\ Amount(tx) \in Nat
      BY <1>1, Included, PoolFacts DEF Grows
    <2> HIDE DEF b, c, new, a, com
    <2>9. receipt'[tx.id].at = a /\ receipt'[tx.id].certified = Amount(tx)  BY <2>8
    <2>10. Certifications(a)' = IF Amount(tx) > 0 THEN {tx.id} ELSE {}
      <3>1. \A id \in DOMAIN receipt : ~(receipt[id].at = a /\ receipt[id].certified > 0)
        BY <2>3 DEF Certifications
      <3>2. Certifications(a)'
                = {id \in DOMAIN receipt' : receipt'[id].at = a /\ receipt'[id].certified > 0}
        BY DEF Certifications, a
      <3>3. QED  BY <2>8, <2>9, <3>1, <3>2
    <2>11. new.total = receipt'[tx.id].certified  BY <2>4, <2>7, <2>9
    <2>12. PICK x : IsSubmission(x)' /\ x.bundle = b  BY <1>2, <2>1, Zenon DEF b
    <2>13. CASE Amount(tx) > 0
      <3>1. Certifications(a)' = {tx.id} /\ tx.id \in DOMAIN receipt'  BY <2>8, <2>10, <2>13
      <3>2. QED  BY <2>5, <2>6, <2>11, <2>12, <3>1 DEF CertOK, new, a
    <2>14. CASE ~(Amount(tx) > 0)
      <3>1. Amount(tx) = 0  BY <2>8, <2>14
      <3>2. Certifications(a)' = {} /\ new.total = 0  BY <2>4, <2>7, <2>10, <3>1
      <3>3. QED  BY <2>6, <3>2 DEF CertOK, new, a
    <2>15. QED  BY <2>13, <2>14
  <1>6. QED  BY <1>4, <1>5

\* A block takes a transaction.
LEMMA IncludeStep ==
    ASSUME ScenariosOK, CtlInv, NEW tx \in pool, IncludeTransaction(tx) PROVE CtlInv'
  <1>1. ProcInv /\ IdInv /\ PoolInv /\ ReceiptInv /\ AddressInv /\ CertInv /\ ScriptInv  BY DEF CtlInv
  <1>2. /\ Grows /\ tx.nonce = nonce[tx.from] /\ tx.from \in Senders /\ proc' = proc
        /\ nonce' = [nonce EXCEPT ![tx.from] = @ + 1] /\ pool' = pool \ {tx}
        /\ DOMAIN receipt' = DOMAIN receipt \cup {tx.id}
        /\ tx.call.op = "create" =>
              DOMAIN contracts' = DOMAIN contracts \cup {Where(tx)} /\ contracts'[Where(tx)] = tx.call.contract
        /\ tx.call.op # "create" => DOMAIN contracts' = DOMAIN contracts
    BY Included
  <1>3. scenario' = scenario /\ Procs' = Procs /\ Scripts' = Scripts
    BY <1>2 DEF Grows, Procs, Scripts
  <1>4. \A q \in Procs : StOK(q, proc[q])' /\ ScriptOK(q, proc[q])'
    <2>1. TAKE q \in Procs
    <2>2. StOK(q, proc'[q]) /\ ScriptOK(q, proc'[q])
      BY <1>1, <1>2 DEF ProcInv, ScriptInv, ScriptOK
    <2>3. QED  BY <1>2, <2>2, ScriptStays
  <1>5. ProcInv'
    <2>1. nonce' \in [Senders -> Nat]  BY <1>1, <1>2 DEF ProcInv
    <2>2. QED  BY <1>1, <1>2, <1>3, <1>4, <2>1 DEF ProcInv
  <1>6. ScriptInv'  BY <1>3, <1>4 DEF ScriptInv, ScriptOK
  <1>7. \A id : IdOK(id) => IdOK(id)'
    <2>1. \A q \in Procs : Outlives(q, proc'[q])  BY <1>2 DEF Outlives
    <2>2. QED  BY <1>3, <2>1, IdsStay
  <1>8. IdInv'
    <2>1. \A t \in pool' : t \in pool /\ t.id # tx.id  BY <1>1, <1>2 DEF IdInv
    <2>2. QED  BY <1>1, <1>2, <1>7, <2>1 DEF IdInv
  <1>9. PoolInv'
    <2>1. \A t \in pool : TxOK(t)'  BY <1>1, <1>2, TxStays DEF PoolInv, Grows
    <2>2. QED  BY <1>2, <2>1 DEF PoolInv
  <1>10. ReceiptInv'
    <2>1. ReceiptOK(tx.id)'  BY NewReceiptOK
    <2>2. \A id \in DOMAIN receipt : ReceiptOK(id)'  BY <1>1, <1>2, OldReceiptsOK
    <2>3. PICK new : new = tx.id  OBVIOUS
    <2>4. DOMAIN receipt' = DOMAIN receipt \cup {new} /\ ReceiptOK(new)'  BY <1>2, <2>1, <2>3
    <2>5. QED  BY <2>2, <2>4 DEF ReceiptInv
  <1>11. AddressInv'
    <2>1. DOMAIN Scenarios[scenario'].contracts \subseteq DOMAIN contracts'
      BY <1>1, <1>2 DEF AddressInv, Grows
    <2>2. ASSUME NEW a \in DOMAIN contracts'
          PROVE  \/ a \in DOMAIN Scenarios[scenario'].contracts
                 \/ \E s \in Senders, n \in Nat : a = <<s, n>> /\ n < nonce'[s]
      <3>1. \A s \in Senders : nonce[s] \in Nat /\ nonce'[s] >= nonce[s]
        BY <1>1, <1>2 DEF ProcInv
      <3>2. CASE a \in DOMAIN contracts
        <4>1. \/ a \in DOMAIN Scenarios[scenario].contracts
              \/ \E s \in Senders, n \in Nat : a = <<s, n>> /\ n < nonce[s]
          BY <1>1, <3>2 DEF AddressInv
        <4>2. \A s \in Senders, n \in Nat : n < nonce[s] => n < nonce'[s]  BY <3>1, <1>1, <1>2 DEF ProcInv
        <4>3. QED  BY <1>3, <4>1, <4>2
      <3>3. CASE a \notin DOMAIN contracts
        <4>1. a = Where(tx) /\ tx.call.op = "create"  BY <1>2, <2>2, <3>3
        <4>2. a = <<tx.from, nonce[tx.from]>>  BY <1>2, <4>1 DEF Where, CreateAddress
        <4>3. nonce[tx.from] \in Nat /\ nonce[tx.from] < nonce'[tx.from]  BY <1>1, <1>2 DEF ProcInv
        <4>4. QED  BY <1>2, <4>2, <4>3
      <3>4. QED  BY <3>2, <3>3
    <2>3. QED  BY <2>1, <2>2 DEF AddressInv
  <1>12. CertInv'
    <2>1. SUFFICES ASSUME NEW a \in DOMAIN contracts', "total" \in DOMAIN contracts'[a]
                   PROVE  CertOK(a)'
      BY DEF CertInv
    <2>2. CASE a \notin DOMAIN contracts
      <3>1. a = Where(tx) /\ tx.call.op = "create" /\ contracts'[a] = tx.call.contract
        BY <1>2, <2>1, <2>2
      <3>2. Amount(tx) = 0  BY <3>1 DEF Amount
      <3>3. Certifications(a) = {}
        BY <1>1, <2>2 DEF Certifications, ReceiptInv, ReceiptOK
      <3>4. Certifications(a)' = {}  BY <3>2, <3>3, SameCertifications
      <3>5. PICK x : tx.call.contract \in {Verifier(x), Certifier(x)}  BY <3>1, CallOf
      <3>6. contracts'[a] = Certifier(x)
        <4>1. "total" \notin DOMAIN Verifier(x)  BY DEF Verifier
        <4>2. QED  BY <2>1, <3>1, <3>5, <4>1
      <3>7. CertifierShape(contracts'[a]) /\ contracts'[a].total = 0
        BY <3>6 DEF CertifierShape, Certifier, Unset
      <3>8. QED  BY <3>4, <3>7 DEF CertOK
    <2>3. CASE a \in DOMAIN contracts
      <3>1. CASE tx.call.op # "create" /\ a = tx.to /\ Ok(tx)
        <4>1. "total" \in DOMAIN contracts[a]
          <5>1. contracts'[a] = Called(contracts[a], tx.call)  BY <2>3, <3>1, Included DEF After
          <5>2. DOMAIN Called(contracts[a], tx.call) = DOMAIN contracts[a]
            BY <3>1, CallOf DEF Called
          <5>3. QED  BY <2>1, <5>1, <5>2
        <4>2. CertOK(tx.to)'  BY <2>3, <3>1, <4>1, CalledOK
        <4>3. PICK t : t = tx.to  OBVIOUS
        <4>4. QED  BY <3>1, <4>2, <4>3
      <3>2. CASE ~(tx.call.op # "create" /\ a = tx.to /\ Ok(tx))
        <4>1. contracts'[a] = contracts[a]  BY <2>3, <3>2, Included DEF After
        <4>2. a # Where(tx) \/ Amount(tx) = 0  BY <3>2 DEF Where, Amount
        <4>3. Certifications(a)' = Certifications(a)  BY <4>2, SameCertifications
        <4>4. CertOK(a)  BY <1>1, <2>1, <2>3, <4>1 DEF CertInv
        <4>5. \A x : IsSubmission(x)' <=> IsSubmission(x)  BY <1>3 DEF IsSubmission
        <4>6. \A id \in DOMAIN receipt : id \in DOMAIN receipt' /\ receipt'[id] = receipt[id]
          BY <1>2 DEF Grows
        <4>7. QED  BY <4>1, <4>3, <4>4, <4>5, <4>6 DEF CertOK
      <3>3. QED  BY <3>1, <3>2
    <2>4. QED  BY <2>2, <2>3
  <1>13. QED  BY <1>5, <1>6, <1>8, <1>9, <1>10, <1>11, <1>12 DEF CtlInv

\* Every script starts, and nothing is certified.
LEMMA InitCtlInv == ASSUME ScenariosOK, CtlInit PROVE CtlInv
  <1>1. /\ scenario \in DOMAIN Scenarios /\ nonce = [s \in Senders |-> 0] /\ pool = {} /\ receipt = <<>>
        /\ contracts = Scenarios[scenario].contracts /\ proc = [p \in Procs |-> StartScript(p, 1)]
    BY Zenon DEF CtlInit
  <1>2. DOMAIN receipt = {}  BY <1>1
  <1>3. \A p \in Procs : StOK(p, proc[p]) /\ ScriptOK(p, proc[p])
    <2>1. TAKE p \in Procs
    <2>2. proc[p] = StartScript(p, 1)  BY <1>1
    <2>3. 1 \in Nat /\ DOMAIN Scenarios[scenario].contracts \subseteq DOMAIN contracts  BY <1>1
    <2>4. QED  BY <1>1, <2>2, <2>3, StartScriptFits, Zenon
  <1>4. ProcInv /\ ScriptInv
    <2>1. DOMAIN proc = Procs /\ nonce \in [Senders -> Nat]  BY <1>1
    <2>2. QED  BY <1>1, <1>3, <2>1 DEF ProcInv, ScriptInv, ScriptOK
  <1>5. IdInv /\ PoolInv /\ ReceiptInv /\ AddressInv
    BY <1>1, <1>2 DEF IdInv, PoolInv, ReceiptInv, AddressInv
  <1>6. CertInv
    <2>1. ScenarioOK(Scenarios[scenario])  BY <1>1 DEF ScenariosOK
    <2>2. ASSUME NEW a \in DOMAIN contracts, "total" \in DOMAIN contracts[a] PROVE CertOK(a)
      <3>1. /\ DOMAIN contracts[a] = {"verifier", "heads", "total"}
            /\ contracts[a].heads \in Heads /\ contracts[a].total = 0
        BY <1>1, <2>1, <2>2 DEF ScenarioOK
      <3>2. DOMAIN contracts[a].heads = LaneIds  BY <3>1 DEF Heads
      <3>3. Certifications(a) = {}  BY <1>2 DEF Certifications
      <3>4. QED  BY <3>1, <3>2, <3>3 DEF CertOK, CertifierShape
    <2>3. QED  BY <2>2 DEF CertInv
  <1>7. QED  BY <1>4, <1>5, <1>6 DEF CtlInv

\* The invariant holds for any operators, accounts and blocks.
LEMMA CtlInvHolds == ASSUME ScenariosOK PROVE CtlSpec => []CtlInv
  <1>1. CtlInit => CtlInv  BY InitCtlInv
  <1>2. CtlInv /\ [CtlNext]_ctlVars => CtlInv'
    <2>1. SUFFICES ASSUME CtlInv, [CtlNext]_ctlVars PROVE CtlInv'  OBVIOUS
    <2>2. CASE \E p \in Procs : Step(p) \/ RpcFails(p) \/ Rerun(p)  BY <2>1, <2>2, ProcStep
    <2>3. CASE \E tx \in pool : IncludeTransaction(tx)  BY <2>1, <2>3, IncludeStep
    <2>4. CASE UNCHANGED ctlVars
      <3>1. UNCHANGED <<scenario, nonce, pool, receipt, contracts, proc>>
        BY <2>4 DEF ctlVars, chain
      <3>2. Procs' = Procs /\ Scripts' = Scripts /\ Grows
        BY <3>1 DEF Procs, Scripts, Grows
      <3>3. ProcInv /\ IdInv /\ PoolInv /\ ReceiptInv /\ AddressInv /\ CertInv /\ ScriptInv
        BY <2>1 DEF CtlInv
      <3>4. ProcInv' /\ ScriptInv'
        <4>1. \A q \in Procs : StOK(q, proc[q])' /\ ScriptOK(q, proc[q])'
          BY <3>1, <3>2, <3>3, ScriptStays DEF ProcInv, ScriptInv, ScriptOK
        <4>2. QED  BY <3>1, <3>2, <3>3, <4>1 DEF ProcInv, ScriptInv, ScriptOK
      <3>5. IdInv'
        <4>1. \A id : IdOK(id) => IdOK(id)'
          <5>1. \A q \in Procs : Outlives(q, proc'[q])  BY <3>1 DEF Outlives
          <5>2. QED  BY <3>1, <5>1, IdsStay
        <4>2. QED  BY <3>1, <3>3, <4>1 DEF IdInv
      <3>6. PoolInv'
        <4>1. \A t \in pool : TxOK(t)'  BY <3>1, <3>3, TxStays DEF PoolInv
        <4>2. QED  BY <3>1, <4>1 DEF PoolInv
      <3>7. ReceiptInv'  BY <3>1, <3>2, <3>3, OldReceiptsOK DEF ReceiptInv
      <3>8. AddressInv'  BY <3>1, <3>3 DEF AddressInv
      <3>9. CertInv'
        <4>1. \A a : Certifications(a)' = Certifications(a)  BY <3>1 DEF Certifications
        <4>2. \A c : IsSubmission(c)' <=> IsSubmission(c)  BY <3>2 DEF IsSubmission
        <4>3. \A a : CertOK(a) => CertOK(a)'  BY <3>1, <4>1, <4>2 DEF CertOK
        <4>4. QED  BY <3>1, <3>3, <4>3 DEF CertInv
      <3>10. QED  BY <3>4, <3>5, <3>6, <3>7, <3>8, <3>9 DEF CtlInv
    <2>5. QED  BY <2>1, <2>2, <2>3, <2>4, Zenon DEF CtlNext
  <1>3. QED  BY <1>1, <1>2, PTL DEF CtlSpec

\* BundleCertifiedOnce: whatever operators do, however often they submit and run
\* again, and whichever transactions blocks take first, a certifier certifies a bundle
\* at most once, and its total is what the receipts say.
THEOREM SubmittedCertifiedOnce == CtlSpec => []BundleCertifiedOnce
  <1> DEFINE f == [id \in DOMAIN receipt |-> receipt[id].certified]
             Once(a) == /\ Cardinality(Certifications(a)) <= 1
                        /\ contracts[a].total = SumFunctionOnSet(f, Certifications(a))
  <1>1. ASSUME CtlInv, NEW a \in DOMAIN contracts, "total" \in DOMAIN contracts[a] PROVE Once(a)
    <2>2. CertOK(a)  BY <1>1 DEF CtlInv, CertInv
    <2>3. CASE Certifications(a) = {} /\ contracts[a].total = 0
      <3>1. Cardinality({}) = 0  BY FS_EmptySet
      <3>2. SumFunctionOnSet(f, {}) = 0  BY SumEmpty
      <3> HIDE DEF f
      <3>3. QED  BY <2>3, <3>1, <3>2
    <2>4. ASSUME NEW id \in DOMAIN receipt, Certifications(a) = {id},
                 contracts[a].total = receipt[id].certified
          PROVE  Once(a)
      <3>1. IsFiniteSet({id}) /\ Cardinality({id}) = 1  BY FS_Singleton
      <3>2. receipt[id].certified \in Nat  BY <1>1 DEF CtlInv, ReceiptInv, ReceiptOK
      <3>3. \A x \in {id} : f[x] = receipt[id].certified  OBVIOUS
      <3> HIDE DEF f
      <3>4. SumFunctionOnSet(f, {id}) = receipt[id].certified * Cardinality({id})
        BY <3>1, <3>2, <3>3, SumConstant
      <3>5. SumFunctionOnSet(f, {id}) = receipt[id].certified  BY <3>1, <3>2, <3>4
      <3>6. QED  BY <2>4, <3>1, <3>5
    <2> HIDE DEF Once
    <2>5. QED  BY <2>2, <2>3, <2>4 DEF CertOK
  <1>2. CtlInv => BundleCertifiedOnce  BY <1>1, Zenon DEF BundleCertifiedOnce
  <1>3. CtlSpec => []CtlInv  BY CtlInvHolds, ScenariosAssumption
  <1>4. QED  BY <1>2, <1>3, PTL

\* No script has the command that does not look at receipt.Status.
EveryStatusChecked == \A s \in DOMAIN Scenarios : \A p \in DOMAIN Scenarios[s].script :
    \A k \in DOMAIN Scenarios[s].script[p] : Scenarios[s].script[p][k].kind # "submit-burst"

\* ReportIsCertified: what every other command reports as verified is what its own
\* transactions have certified.
THEOREM ReportsAreCertified == ASSUME EveryStatusChecked PROVE CtlSpec => []ReportIsCertified
  <1> USE ScenariosAssumption
  <1>1. CtlInv => ReportIsCertified
    <2>1. SUFFICES ASSUME CtlInv, NEW p \in Procs, NEW k \in DOMAIN proc[p].reported,
                          Scripts[p][k].kind \in Submit
                   PROVE  LET c == Scripts[p][k]
                              f == [i \in DOMAIN c.to |-> receipt[<<p, proc[p].run, k, i>>].certified]
                          IN  proc[p].reported[k] = SumFunctionOnSet(f, DOMAIN c.to)
      BY Zenon DEF ReportIsCertified
    <2> DEFINE c == Scripts[p][k]
               f == [i \in DOMAIN c.to |-> receipt[<<p, proc[p].run, k, i>>].certified]
    <2>2. k \in DOMAIN Scripts[p] /\ scenario \in DOMAIN Scenarios
      <3>1. /\ Row(proc[p].reported) /\ Len(proc[p].reported) <= Len(Scripts[p])
            /\ scenario \in DOMAIN Scenarios
        BY <2>1 DEF CtlInv, ProcInv, StOK
      <3>2. Row(Scripts[p])  BY <3>1, ScriptFacts
      <3>3. QED  BY <2>1, <3>1, <3>2, RowFacts
    <2>3. CommandOK(c) /\ Row(c.to) /\ ChecksStatus(c.kind)
      <3>1. CommandOK(c) /\ Row(c.to)  BY <2>2, ScriptFacts
      <3>2. c.kind # "submit-burst"  BY <2>2 DEF EveryStatusChecked, Procs, Scripts
      <3>3. QED  BY <3>1, <3>2 DEF ChecksStatus
    <2>4. /\ proc[p].reported[k] = c.bundle.verifiedTxTotal * Len(c.to)
          /\ \A j \in DOMAIN c.to : Good(p, proc[p], k, j)
      BY <2>1, <2>3 DEF CtlInv, ScriptInv, ReportOK
    <2>5. ASSUME NEW j \in DOMAIN c.to
          PROVE  f[j] = c.bundle.verifiedTxTotal /\ c.bundle.verifiedTxTotal \in Nat
      <3> DEFINE id == <<p, proc[p].run, k, j>>
      <3>1. id \in DOMAIN receipt /\ receipt[id].ok  BY <2>4 DEF Good
      <3>2. CommandOf(id) = c  BY DEF CommandOf
      <3>3. ReceiptOK(id)  BY <2>1, <3>1 DEF CtlInv, ReceiptInv
      <3>4. receipt[id].certified = c.bundle.verifiedTxTotal /\ receipt[id].certified \in Nat
        BY <2>1, <3>1, <3>2, <3>3 DEF ReceiptOK
      <3>5. QED  BY <3>4
    <2> HIDE DEF c, f
    <2>6. Len(c.to) \in Nat /\ Len(c.to) > 0 /\ DOMAIN c.to = 1..Len(c.to)
      <3>1. c.to # <<>>  BY <2>1, <2>3 DEF CommandOK, c
      <3>2. Len(c.to) > 0  BY <2>3, <3>1 DEF Row
      <3>3. QED  BY <2>3, <3>2, RowFacts
    <2>7. IsFiniteSet(DOMAIN c.to) /\ Cardinality(DOMAIN c.to) = Len(c.to)
      <3>1. IsFiniteSet(1..Len(c.to))
            /\ Cardinality(1..Len(c.to)) = IF 1 > Len(c.to) THEN 0 ELSE Len(c.to) - 1 + 1
        BY <2>6, FS_Interval
      <3>2. QED  BY <2>6, <3>1
    <2>8. c.bundle.verifiedTxTotal \in Int
      <3>1. 1 \in DOMAIN c.to  BY <2>6
      <3>2. QED  BY <2>5, <3>1
    <2>9. SumFunctionOnSet(f, DOMAIN c.to) = c.bundle.verifiedTxTotal * Cardinality(DOMAIN c.to)
      BY <2>5, <2>7, <2>8, SumConstant
    <2>10. QED  BY <2>4, <2>7, <2>9 DEF c, f
  <1>2. CtlSpec => []CtlInv  BY CtlInvHolds
  <1>3. QED  BY <1>1, <1>2, PTL

=============================================================================
