------------------------------- MODULE Config -------------------------------
(***************************************************************************)
(* internal/config/config.go: the configuration of a certification run and *)
(* the numbers that are derived from it.                                   *)
(*                                                                         *)
(* A configuration is [blockTimeMillis, lanes, maxLanes, queueCapacity,    *)
(* warmup, certification, proofSeed, proofDatasetPath, badProofAt]; a      *)
(* phase is [tps, seconds].  The fields that nothing here reads are left   *)
(* out (gas limit, mode flags, addresses, names, the pause of fault        *)
(* injection, which only sleeps).                                          *)
(***************************************************************************)
EXTENDS Integers

\* TxPerBlock multiplies a rate by a block time in seconds as float64, and cuts
\* the product down to an integer.  FloatBelow holds the <<rate, block time>> whose
\* exact product is an integer and whose float64 product is just below it, for
\* example <<45, 1400>>: 45 * 1.4 is 62.99... instead of 63.
CONSTANT FloatBelow

ASSUME FloatAssumption == \A p \in FloatBelow :
    p \in Nat \X Nat /\ p[1] * p[2] > 0 /\ (p[1] * p[2]) % 1000 = 0

Rates == [tps : Int, seconds : Int]

\* The fields that numbers are made of hold integers.
ConfigTyped(c) == /\ {c.blockTimeMillis, c.lanes, c.maxLanes, c.queueCapacity} \subseteq Int
                  /\ {c.warmup, c.certification} \subseteq Rates

\* It also asks for a report directory and a metrics address.
Validate(c) ==
    /\ c.blockTimeMillis > 0
    /\ c.lanes > 0 /\ c.lanes <= c.maxLanes /\ c.maxLanes > 0
    /\ \E k \in 1..c.queueCapacity : c.queueCapacity = 2^k
    /\ c.warmup.tps >= 0 /\ c.certification.tps > 0
    /\ c.warmup.seconds >= 0 /\ c.certification.seconds > 0

BlocksForPhase(c, p) == (p.seconds * 1000) \div c.blockTimeMillis

TxPerBlock(c, tps) ==
    LET product == (tps * c.blockTimeMillis) \div 1000
    IN  IF <<tps, c.blockTimeMillis>> \in FloatBelow THEN product - 1 ELSE product
=============================================================================
