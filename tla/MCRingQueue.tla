----------------------------- MODULE MCRingQueue -----------------------------
(* Small instances of RingQueue. *)
EXTENDS RingQueue

CONSTANTS p1, p2, c1, c2, v1, v2

FiveCallsEach == [t \in Threads |-> 5]
TwoOneTwoOne  == [t \in Threads |-> IF t \in {p1, c1} THEN 2 ELSE 1]
=============================================================================
