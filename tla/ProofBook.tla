----------------------------- MODULE ProofBook -----------------------------
(***************************************************************************)
(* internal/pipeline/proof.go: the deterministic proofs of a certification *)
(* run, and the file that holds them, one line per block.                  *)
(*                                                                         *)
(* Proof bytes are the pair they are derived from: SHA-256 is taken to be  *)
(* injective.                                                              *)
(***************************************************************************)
EXTENDS Integers, Sequences

GenerateProofBytes(seed, block) == <<seed, block>>

BuildProofRecord(block, commitment, bytes) ==
    [block |-> block, commitment |-> commitment, bytes |-> bytes]

NewProofBook(seed) == [seed |-> seed, proof |-> <<>>]

ProofForBlock(book, block) ==
    IF block \in DOMAIN book.proof THEN book.proof[block] ELSE GenerateProofBytes(book.seed, block)

-----------------------------------------------------------------------------
(* The file *)

\* A line that was cut off when its writer died.
Torn == [block |-> 0, proof |-> <<"torn">>]

\* SaveJSONL: what a whole file of the given number of blocks holds.
JSONLines(book, blocks) ==
    [i \in 1..blocks |-> [block |-> i - 1, proof |-> ProofForBlock(book, i - 1)]]

\* Mutant: a line that cannot be parsed is taken as it is.
LoadJSONLOKAnyLine(lines) == TRUE

\* LoadJSONL fails on a line that is no JSON or no hex.
LoadJSONLOK(lines) == \A i \in DOMAIN lines : lines[i] # Torn

\* The last line of a block counts.
LoadJSONL(book, lines) ==
    [book EXCEPT !.proof =
        [b \in {lines[i].block : i \in DOMAIN lines} \cup DOMAIN book.proof |->
            LET own == {i \in DOMAIN lines : lines[i].block = b}
            IN  IF own = {} THEN book.proof[b]
                ELSE lines[CHOOSE i \in own : \A j \in own : j <= i].proof]]
=============================================================================
