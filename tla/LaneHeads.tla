----------------------------- MODULE LaneHeads -----------------------------
(***************************************************************************)
(* contracts/: what a call of the certifier and of the proof verifier      *)
(* decides, and what it does to the lane heads.  A transaction is atomic   *)
(* and a failed require undoes it, so a call is a condition and a result;  *)
(* the loops over artifacts are written out: what iteration i sees is the  *)
(* last earlier write to its lane in the same call, or storage.            *)
(*                                                                         *)
(* A G1 point is a value, a proof is the statement it proves together with *)
(* the verifying key it was made for: the pairing check and the Keccak     *)
(* challenge are taken to accept exactly such proofs.                      *)
(***************************************************************************)
EXTENDS Integers, Sequences, FiniteSetsExt

CONSTANTS LaneIds,         \* the lanes in use
          Points,          \* G1 points other than the point at infinity
          Infinity,        \* (0, 0), which is also what unset storage reads as
          NoKey,           \* a verifying key that is not initialized
          BATCH_TX_COUNT   \* 20000 in the contract

ASSUME PointsAssumption == Infinity \notin Points
ASSUME BatchAssumption  == BATCH_TX_COUNT \in Nat \ {0}

Heads == [LaneIds -> Points \cup {Infinity}]
Unset == [l \in LaneIds |-> Infinity]

isSet(point) == point # Infinity

\* The head of lane l when a loop that writes points[j] to lane lanes[j] has
\* done the iterations before i.
HeadAt(heads, lanes, points, i, l) ==
    LET written == {j \in 1..(i - 1) : lanes[j] = l}
    IN  IF written = {} THEN heads[l] ELSE points[Max(written)]

HeadsAfter(heads, lanes, points) ==
    [l \in LaneIds |-> HeadAt(heads, lanes, points, Len(lanes) + 1, l)]

-----------------------------------------------------------------------------
(* SumPreservingBatchVerifier: initializeLaneHead is the case of one lane. *)

InitializeOK(heads, lanes, points) ==
    /\ Len(lanes) = Len(points)
    /\ \A i \in DOMAIN lanes : ~isSet(HeadAt(heads, lanes, points, i, lanes[i]))

(* CCGroth16BatchVerifier.verifyBatchTransition *)

\* What the challenge binds: the metadata and both commitments.
Statement(a) == <<a.laneId, a.batchId, a.txCount, a.prev, a.next>>

\* Mutant: the challenge leaves the lane out.
verifyBatchTransitionAnyLane(key, a) ==
    /\ key # NoKey /\ a.proof.key = key
    /\ a.proof.proves # <<>> /\ Tail(a.proof.proves) = Tail(Statement(a))

verifyBatchTransition(key, a) ==
    key # NoKey /\ a.proof = [key |-> key, proves |-> Statement(a)]

\* A good proof of a statement.
Prove(key, lane, batch, count, prev, next) ==
    LET a == [laneId |-> lane, batchId |-> batch, txCount |-> count, prev |-> prev, next |-> next]
    IN  [laneId |-> lane, batchId |-> batch, txCount |-> count, prev |-> prev, next |-> next,
         proof |-> [key |-> key, proves |-> Statement(a)]]

LanesOf(artifacts) == [i \in DOMAIN artifacts |-> artifacts[i].laneId]
NextsOf(artifacts) == [i \in DOMAIN artifacts |-> artifacts[i].next]

\* Mutant: prevStateCommitment is compared with the head before the call.
VerifyOKOnStorage(key, heads, artifacts) ==
    /\ artifacts # <<>>
    /\ \A i \in DOMAIN artifacts : LET a == artifacts[i] IN
          /\ a.txCount = BATCH_TX_COUNT
          /\ isSet(heads[a.laneId]) /\ heads[a.laneId] = a.prev
          /\ verifyBatchTransition(key, a)

\* Mutant: prevStateCommitment is not compared with the head.
VerifyOKAnyHead(key, heads, artifacts) ==
    /\ artifacts # <<>>
    /\ \A i \in DOMAIN artifacts : /\ artifacts[i].txCount = BATCH_TX_COUNT
                                  /\ isSet(heads[artifacts[i].laneId])
                                  /\ verifyBatchTransition(key, artifacts[i])

VerifyOK(key, heads, artifacts) ==
    /\ artifacts # <<>>
    /\ \A i \in DOMAIN artifacts :
          LET a    == artifacts[i]
              head == HeadAt(heads, LanesOf(artifacts), NextsOf(artifacts), i, a.laneId)
          IN  /\ a.txCount = BATCH_TX_COUNT
              /\ isSet(head)
              /\ head = a.prev
              /\ verifyBatchTransition(key, a)

HeadsVerified(heads, artifacts) == HeadsAfter(heads, LanesOf(artifacts), NextsOf(artifacts))
VerifiedTx(artifacts)           == Len(artifacts) * BATCH_TX_COUNT
=============================================================================
