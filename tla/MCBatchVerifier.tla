-------------------------- MODULE MCBatchVerifier --------------------------
(* A small instance of Rollup: two lanes, batches of two transfers, a field *)
(* of three elements, and calls of one or two artifacts.                    *)
EXTENDS Rollup

\* States <<slot 1, slot 2, blind>>: three with total 1 (the last one overdrawn
\* and wrapped), one with total 2, one with total 0, and the one that commits to
\* infinity, which has total 0 as well.
p == <<1, 0, 1>>
q == <<0, 1, 2>>
r == <<2, 2, 2>>
s == <<1, 1, 0>>
z == <<1, 2, 0>>
zero == <<0, 0, 0>>
MCPoints == {p, q, r, s, z}
MCStates == MCPoints \cup {zero}

vk == setup_sum_preserving_circuit(2, 7)

Input(lane, count, from, to) ==
    [laneId |-> lane, batchId |-> 1, txCount |-> count,
     pre  |-> SubSeq(from, 1, count), preBlind  |-> from[3],
     post |-> SubSeq(to, 1, count),   postBlind |-> to[3]]

\* What provers make: with the key of the contract, with that of another setup
\* and with that of a smaller circuit; with claims of a batch size that is not
\* that of the states.
MCKeys == {vk, setup_sum_preserving_circuit(2, 8), setup_sum_preserving_circuit(1, 7)}

MCTransitions == { [Input(l, width, from, to) EXCEPT !.txCount = count] :
                     l \in LaneIds, width \in {1, 2}, count \in {1, 2}, from \in MCStates, to \in MCStates }

MCProved == { prove(key, input) : key \in MCKeys, input \in MCTransitions }

\* A proof moved to the other lane, and one whose end point is replaced.
MCMisused == { [a EXCEPT !.laneId = 1 - @] : a \in MCProved }
             \cup { [a EXCEPT !.next = x] : a \in MCProved, x \in {s, Infinity} }

\* Batches that move the head one way round, so that a lane takes several, and
\* one that unsets it.
MCGood == { prove(vk, Input(l, 2, step[1], step[2])) :
              l \in LaneIds, step \in {<<p, q>>, <<q, r>>, <<r, p>>, <<z, zero>>} }

MCSubmissions == {<<>>} \cup {<<a>> : a \in MCProved \cup MCMisused}
                        \cup {<<a, b>> : a \in MCGood, b \in MCGood}

UpToTwo(S) == UNION {[1..n -> S] : n \in 1..2}

MCInits == UpToTwo(LaneIds) \X UpToTwo({p, z, Infinity})

-----------------------------------------------------------------------------
(* build_state_transition_batch against the meaning of a transfer, for two  *)
(* and three accounts, self transfers and overdrafts included.              *)

Transfers(n) == [sender : 1..n, receiver : 1..n, amount : Field]

Paid(txs, i)     == FoldLeft(LAMBDA sum, tx : IF tx.sender = i THEN sum + tx.amount ELSE sum, 0, txs)
Received(txs, i) == FoldLeft(LAMBDA sum, tx : IF tx.receiver = i THEN sum + tx.amount ELSE sum, 0, txs)

\* Every slot ends with what it had, was paid and did not pay on, and an honest
\* batch is always accepted on top of its own state and on no other.
ASSUME BuilderMeetsReference ==
    \A pre \in [1..2 -> Field], txs \in [1..2 -> Transfers(2)] :
        LET built == build_state_transition_batch(<<1, 2>>, pre, txs,
                         [laneId |-> 0, batchId |-> 1, txCount |-> 2], 1, 2)
            made  == prove_batch(vk, built)
        IN  /\ \A i \in 1..2 : built.post[i] = (pre[i] + Received(txs, i) - Paid(txs, i)) % Prime
            /\ verify_batch_against_head(vk, Append(pre, 1), made)
            /\ ~verify_batch_against_head(vk, Append(pre, 2), made)

\* The demo batch of the exporter is one; a stranger's address is refused.
ASSUME DemoBatchIsProved ==
    /\ \A n \in {2, 3} : verifyBatchTransition(setup_sum_preserving_circuit(n, 7),
           prove_batch(setup_sum_preserving_circuit(n, 7), demo_state_transition_batch(0, 1, n)))
    /\ build_state_transition_batch(<<1, 2>>, <<1, 1>>,
           <<[sender |-> 1, receiver |-> 3, amount |-> 1], [sender |-> 1, receiver |-> 2, amount |-> 1]>>,
           [laneId |-> 0, batchId |-> 1, txCount |-> 2], 1, 2) = Error
=============================================================================
