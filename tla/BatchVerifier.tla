--------------------------- MODULE BatchVerifier ---------------------------
(***************************************************************************)
(* One certifier (SumPreservingBatchVerifier.sol) and the proof verifier   *)
(* it calls (CCGroth16BatchVerifier.sol), under any sequence of calls by   *)
(* any accounts.  A call that fails a require changes nothing and is not a *)
(* step.                                                                   *)
(***************************************************************************)
EXTENDS LaneHeads, FiniteSets

CONSTANTS Callers, Admin,  \* accounts; the one that deployed the verifier
          Keys,            \* verifying keys
          Inits,           \* arguments of initializeLaneHeads: <<laneIds, initialHeads>>
          Submissions,     \* arguments of verifyBatches
          MaxEvents        \* bound: events emitted

\* The artifacts that are submitted.
Artifacts == UNION {{s[i] : i \in DOMAIN s} : s \in Submissions}

ASSUME EventBound  == MaxEvents \in Nat
ASSUME KeysAreSet  == NoKey \notin Keys
ASSUME CallsTyped  ==
    /\ \A s \in Submissions : s \in Seq(Artifacts) /\ LanesOf(s) \in Seq(LaneIds)
    /\ \A in \in Inits : in[1] \in Seq(LaneIds) /\ in[2] \in Seq(Points \cup {Infinity})

VARIABLES verifyingKey,     \* the key, once it is initialized
          laneHead,
          totalVerifiedTx,
          events            \* history: what happened to the lanes, in order

vars == <<verifyingKey, laneHead, totalVerifiedTx, events>>

\* The events, with what brought them about: a lane is unset before it is
\* initialized, and at an artifact's prev before that is verified.
LaneHeadInitialized(lane, point) ==
    [event |-> "LaneHeadInitialized", laneId |-> lane, prev |-> Infinity, next |-> point]
BatchVerified(a) ==
    [event |-> "BatchVerified", laneId |-> a.laneId, prev |-> a.prev, next |-> a.next, artifact |-> a]

Init == /\ verifyingKey = NoKey
        /\ laneHead = Unset
        /\ totalVerifiedTx = 0
        /\ events = <<>>

initializeVerifyingKey(caller, key) ==
    /\ caller = Admin
    /\ verifyingKey = NoKey
    /\ verifyingKey' = key
    /\ UNCHANGED <<laneHead, totalVerifiedTx, events>>

initializeLaneHeads(lanes, points) ==
    /\ InitializeOK(laneHead, lanes, points)
    /\ Len(events) + Len(lanes) <= MaxEvents
    /\ laneHead' = HeadsAfter(laneHead, lanes, points)
    /\ events' = events \o [i \in DOMAIN lanes |-> LaneHeadInitialized(lanes[i], points[i])]
    /\ UNCHANGED <<verifyingKey, totalVerifiedTx>>

verifyBatches(artifacts) ==
    /\ VerifyOK(verifyingKey, laneHead, artifacts)
    /\ Len(events) + Len(artifacts) <= MaxEvents
    /\ laneHead' = HeadsVerified(laneHead, artifacts)
    /\ totalVerifiedTx' = totalVerifiedTx + VerifiedTx(artifacts)
    /\ events' = events \o [i \in DOMAIN artifacts |-> BatchVerified(artifacts[i])]
    /\ UNCHANGED verifyingKey

Next == \/ \E caller \in Callers, key \in Keys : initializeVerifyingKey(caller, key)
        \/ \E in \in Inits : initializeLaneHeads(in[1], in[2])
        \/ \E artifacts \in Submissions : verifyBatches(artifacts)

Spec == Init /\ [][Next]_vars

-----------------------------------------------------------------------------
(* Properties *)

Certified == {i \in DOMAIN events : events[i].event = "BatchVerified"}
Of(l)     == {i \in DOMAIN events : events[i].laneId = l}

\* Where the events before i have left lane l.
Left(l, i) == LET earlier == {j \in Of(l) : j < i}
              IN  IF earlier = {} THEN Infinity ELSE events[Max(earlier)].next

(***************************************************************************)
(* A lane is one chain of state commitments: each batch starts where the   *)
(* event before it ended, the head is where the last one ended, and a lane *)
(* is initialized only where it has been left at infinity, which is never  *)
(* after a batch that ended at a point; also when one call names a lane    *)
(* several times, and however calls for lanes are mixed.                   *)
(***************************************************************************)
LaneIsChain == \A l \in LaneIds :
    /\ laneHead[l] = Left(l, Len(events) + 1)
    /\ \A i \in Of(l) : /\ events[i].prev = Left(l, i)
                        /\ i \in Certified <=> isSet(Left(l, i))

(***************************************************************************)
(* Every certified batch was proved for its own lane, size and commitments *)
(* under the one key the contract ever has, and the total counts each of   *)
(* them once.                                                              *)
(***************************************************************************)
CertifiedIsProved ==
    /\ totalVerifiedTx = BATCH_TX_COUNT * Cardinality(Certified)
    /\ \A i \in Certified : LET a == events[i].artifact
                            IN  a.proof = [key |-> verifyingKey, proves |-> Statement(a)]
=============================================================================
