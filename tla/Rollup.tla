------------------------------- MODULE Rollup -------------------------------
(***************************************************************************)
(* The provers and the certifier together: the artifacts that are          *)
(* submitted to the contracts are what this prover or another one makes of *)
(* any state transitions and claims about them, also moved to another lane *)
(* or altered.                                                             *)
(***************************************************************************)
EXTENDS BatchVerifier, SumProver

CONSTANT Transitions   \* the state transitions that provers know and make claims of

\* CC-Groth16 is sound: a proof that is good for the statement of its artifact
\* was made of some transition that satisfies the circuit of the key.
ASSUME ProofsAreMade ==
    \A a \in Artifacts, key \in Keys :
        a.proof = [key |-> key, proves |-> Statement(a)]
            => \E input \in Transitions : a = prove(key, input)

\* The total of the state behind a commitment, blinding element left out.
Total(point) == SumOfFirst(point, verifyingKey.batchSize)

\* The event that has set the head of lane l.
Initialization(l) == events[Max(Of(l) \ Certified)]

(***************************************************************************)
(* sumproof: whatever transitions are proved, by whomever, and however     *)
(* their batches are mixed and chained, the state behind a lane's head has *)
(* the total of the state the lane was last initialized with.              *)
(***************************************************************************)
TotalPreserved == \A l \in LaneIds :
    verifyingKey # NoKey /\ isSet(laneHead[l])
        => Total(laneHead[l]) = Total(Initialization(l).next)
=============================================================================
