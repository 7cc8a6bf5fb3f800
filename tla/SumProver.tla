----------------------------- MODULE SumProver -----------------------------
(***************************************************************************)
(* rust/vectis-prover/src/hyperl2: a batch of transfers becomes a state    *)
(* transition, and the transition a proof that the lane's total is kept.   *)
(*                                                                         *)
(* A state is a vector of field elements, one for every slot, and a        *)
(* blinding element behind them.  A Pedersen commitment is binding, so a   *)
(* commitment is the vector it was made from; that of the zero vector is   *)
(* the point at infinity.  CC-Groth16 is taken to be complete and sound:   *)
(* a proof is good if and only if its witness satisfies the circuit.  That *)
(* the prover of this crate refuses a transition from or to infinity is    *)
(* its own doing: a proof of one is as good.                               *)
(***************************************************************************)
EXTENDS LaneHeads, SequencesExt

CONSTANT Prime      \* the order of the scalar field

ASSUME PrimeAssumption == Prime \in Nat \ {0, 1}

Field == 0..(Prime - 1)

Plus(x, y)  == (x + y) % Prime
Minus(x, y) == (x - y) % Prime

Error == <<>>

-----------------------------------------------------------------------------
(* state.rs *)

\* FixedSlotMap::new accepts the accounts; the slot of one of them.
SlotMapOK(accounts) == accounts # <<>> /\ IsInjective(accounts)

slot_of(accounts, a) == CHOOSE i \in DOMAIN accounts : accounts[i] = a

Pay(accounts, values, tx) ==
    LET debited == [values EXCEPT ![slot_of(accounts, tx.sender)] = Minus(@, tx.amount)]
    IN  [debited EXCEPT ![slot_of(accounts, tx.receiver)] = Plus(@, tx.amount)]

\* The checks of the lengths and of every address.
BuildOK(accounts, pre, txs, metadata) ==
    /\ Len(accounts) = metadata.txCount
    /\ Len(pre) = Len(accounts)
    /\ Len(txs) = metadata.txCount
    /\ \A i \in DOMAIN txs : {txs[i].sender, txs[i].receiver} \subseteq Range(accounts)

build_state_transition_batch(accounts, pre, txs, metadata, preBlind, postBlind) ==
    IF ~BuildOK(accounts, pre, txs, metadata) THEN Error
    ELSE [laneId |-> metadata.laneId, batchId |-> metadata.batchId, txCount |-> metadata.txCount,
          pre  |-> pre,
          post |-> FoldLeft(LAMBDA values, tx : Pay(accounts, values, tx), pre, txs),
          preBlind |-> preBlind, postBlind |-> postBlind]

\* Every account pays the next one, in a ring.
demo_state_transition_batch(laneId, batchId, batchSize) ==
    LET accounts == [i \in 1..batchSize |-> i]
        pre      == [i \in 1..batchSize |-> (10000 + ((i - 1) % 251) * 17 + ((i - 1) % 19)) % Prime]
        txs      == [i \in 1..batchSize |-> [sender |-> i, receiver |-> (i % batchSize) + 1,
                                             amount |-> (((i - 1) % 31) + 1) % Prime]]
    IN  IF ~SlotMapOK(accounts) THEN Error
        ELSE build_state_transition_batch(accounts, pre, txs,
                 [laneId |-> laneId, batchId |-> batchId, txCount |-> batchSize],
                 12648430 % Prime, 195911405 % Prime)

-----------------------------------------------------------------------------
(* Pedersen commitments *)

Commit(vector) == IF \A i \in DOMAIN vector : vector[i] = 0 THEN Infinity ELSE vector

\* The sum of vectors[k] * tau^k; the contract forms it from the commitments.
scalar_aggregate(vectors, tau) ==
    [c \in DOMAIN vectors[1] |->
        FoldLeftDomain(LAMBDA sum, k : Plus(sum, vectors[k][c] * tau^k), 0, vectors)]

-----------------------------------------------------------------------------
(* sum.rs *)

SumOfFirst(vector, n) == FoldLeft(Plus, 0, SubSeq(vector, 1, n))

\* PedersenGadget: the aggregation is that of both vectors.
enforce_equal(aggregation, vectors, tau) == aggregation = scalar_aggregate(vectors, tau)

\* Mutant: the sums are formed and never enforced to be equal.
CircuitWithoutSums(batchSize, tau, aggregation, pre, post) ==
    enforce_equal(aggregation, <<pre, post>>, tau)

\* SumPreservingBatchCircuit: the constraints.
Circuit(batchSize, tau, aggregation, pre, post) ==
    /\ enforce_equal(aggregation, <<pre, post>>, tau)
    /\ SumOfFirst(pre, batchSize) = SumOfFirst(post, batchSize)

\* The keys of a circuit; the seed stands for the randomness of the setup.
setup_sum_preserving_circuit(batchSize, seed) ==
    IF batchSize = 0 THEN Error ELSE [batchSize |-> batchSize, seed |-> seed]

\* SumPreservingBatchCircuit::new checks the widths; CC-Groth16 proves the
\* constraints, for whatever challenge the hash yields.
Satisfied(batchSize, pre, post) ==
    /\ Len(pre) = batchSize + 1 /\ Len(post) = batchSize + 1
    /\ \A tau \in Field : Circuit(batchSize, tau, scalar_aggregate(<<pre, post>>, tau), pre, post)

\* What anybody can prove who has the proving key, of any claim: a release build
\* does not notice that the circuit is not satisfied and makes a proof that
\* proves nothing.
prove(key, input) ==
    LET pre      == Append(input.pre, input.preBlind)
        post     == Append(input.post, input.postBlind)
        artifact == Prove(key, input.laneId, input.batchId, input.txCount, Commit(pre), Commit(post))
    IN  IF Satisfied(key.batchSize, pre, post) THEN artifact
        ELSE [artifact EXCEPT !.proof.proves = <<>>]

validate(input) == /\ input.txCount # 0
                   /\ Len(input.pre) = input.txCount
                   /\ Len(input.post) = input.txCount

\* compute_batch_challenge has no encoding for the point at infinity.
ChallengeOK(artifact) == isSet(artifact.prev) /\ isSet(artifact.next)

prove_batch(key, input) ==
    IF validate(input) /\ key.batchSize = input.txCount /\ ChallengeOK(prove(key, input))
    THEN prove(key, input) ELSE Error

verify_batch_against_head(key, expectedPrev, artifact) ==
    artifact.prev = expectedPrev /\ ChallengeOK(artifact) /\ verifyBatchTransition(key, artifact)
=============================================================================
