---------------------------- MODULE BenchProofs ----------------------------
(***************************************************************************)
(* Proofs about the benchmark orchestrator, for any configurations, number *)
(* of commands and time, and wherever commands are killed.                 *)
(***************************************************************************)
EXTENDS Bench, SumTheorems

IsSeq(q) == \E S : q \in Seq(S)

-----------------------------------------------------------------------------
(* Sequences *)

\* The indices of a sequence.
LEMMA SeqFacts == ASSUME NEW q, IsSeq(q) PROVE Len(q) \in Nat /\ DOMAIN q = 1..Len(q)
  BY DEF IsSeq

\* r is one sequence after the other.
Joins(r, p, q) == r = p \o q

\* What concatenation keeps of the elements.
LEMMA ConcatElements ==
    ASSUME NEW p, IsSeq(p), NEW q, IsSeq(q), NEW r, Joins(r, p, q)
    PROVE  /\ IsSeq(r)
           /\ \A i \in DOMAIN r : (\E j \in DOMAIN p : r[i] = p[j]) \/ (\E j \in DOMAIN q : r[i] = q[j])
  <1>0. r = p \o q  BY DEF Joins
  <1>1. PICK S : p \in Seq(S)  BY DEF IsSeq
  <1>2. PICK T : q \in Seq(T)  BY DEF IsSeq
  <1>3. p \in Seq(S \cup T) /\ q \in Seq(S \cup T)  BY <1>1, <1>2
  <1>4. p \o q \in Seq(S \cup T)  BY <1>3
  <1>5. Len(p) \in Nat /\ Len(q) \in Nat /\ Len(p \o q) = Len(p) + Len(q)  BY <1>3
  <1>6. /\ DOMAIN p = 1..Len(p) /\ DOMAIN q = 1..Len(q)
        /\ DOMAIN (p \o q) = 1..(Len(p) + Len(q))
    BY <1>3, <1>4, <1>5
  <1>7. ASSUME NEW i \in 1..(Len(p) + Len(q))
        PROVE  (p \o q)[i] = IF i <= Len(p) THEN p[i] ELSE q[i - Len(p)]
    BY <1>3, <1>5
  <1>8. ASSUME NEW i \in 1..(Len(p) + Len(q))
        PROVE  (\E j \in DOMAIN p : r[i] = p[j]) \/ (\E j \in DOMAIN q : r[i] = q[j])
    <2>1. CASE i <= Len(p)
      <3>1. i \in DOMAIN p  BY <1>5, <1>6, <2>1
      <3>2. QED  BY <1>0, <1>7, <2>1, <3>1
    <2>2. CASE ~(i <= Len(p))
      <3>1. i - Len(p) \in DOMAIN q  BY <1>5, <1>6, <2>2
      <3>2. QED  BY <1>0, <1>7, <2>2, <3>1
    <2>3. QED  BY <2>1, <2>2
  <1>9. QED  BY <1>0, <1>4, <1>6, <1>8 DEF IsSeq

\* The indices of a sequence have a largest one, whichever are considered.
LEMMA LargestExists ==
    ASSUME NEW n \in Nat, NEW S, S \subseteq 1..n, S # {}
    PROVE  \E m \in S : \A y \in S : y <= m
  <1> DEFINE N == {k \in Nat : \A T \in SUBSET (1..k) : T # {} => \E m \in T : \A y \in T : y <= m}
  <1>1. 0 \in N
    <2>1. 1..0 = {}  OBVIOUS
    <2>2. QED  BY <2>1
  <1>2. ASSUME NEW k \in Nat, k \in N PROVE k + 1 \in N
    <2>1. SUFFICES ASSUME NEW T \in SUBSET (1..(k + 1)), T # {}
                   PROVE  \E m \in T : \A y \in T : y <= m
      OBVIOUS
    <2>2. CASE k + 1 \in T
      <3>1. \A y \in T : y <= k + 1  BY <2>1
      <3>2. QED  BY <2>2, <3>1
    <2>3. CASE k + 1 \notin T
      <3>1. T \in SUBSET (1..k)  BY <2>1, <2>3
      <3>2. QED  BY <1>2, <2>1, <3>1
    <2>4. QED  BY <2>2, <2>3
  <1>3. \A k \in Nat : k \in N
    <2> HIDE DEF N
    <2>1. QED  BY <1>1, <1>2, NatSetInduction
  <1>4. QED  BY <1>3

-----------------------------------------------------------------------------
(* The proof file *)

\* A line of a file for the seed is cut off, or holds that seed's proof of its block.
LineOf(seed, line) == line = Torn \/ line.proof = GenerateProofBytes(seed, line.block)

LinesOf(seed, lines) == IsSeq(lines) /\ \A i \in DOMAIN lines : LineOf(seed, lines[i])

\* The proofs that a book has, or makes.
BookOf(seed, book) == \A b : ProofForBlock(book, b) = GenerateProofBytes(seed, b)

\* A book that nothing was loaded into makes the proofs of its seed.
LEMMA NewBook == ASSUME NEW seed PROVE BookOf(seed, NewProofBook(seed))
  BY DEF BookOf, ProofForBlock, NewProofBook

\* A file that is accepted has no line of another seed, so the book that is loaded
\* from it is as good as a new one.
LEMMA LoadedBook ==
    ASSUME NEW seed, NEW lines, LinesOf(seed, lines), LoadJSONLOK(lines)
    PROVE  BookOf(seed, LoadJSONL(NewProofBook(seed), lines))
  <1> DEFINE Own(b) == {i \in DOMAIN lines : lines[i].block = b}
             Final(b) == CHOOSE i \in Own(b) : \A j \in Own(b) : j <= i
             book == LoadJSONL(NewProofBook(seed), lines)
  <1>1. \A i \in DOMAIN lines : lines[i].proof = GenerateProofBytes(seed, lines[i].block)
    BY DEF LinesOf, LineOf, LoadJSONLOK
  <1>2. Len(lines) \in Nat /\ DOMAIN lines = 1..Len(lines)  BY SeqFacts DEF LinesOf
  <1>3. /\ book.seed = seed
        /\ DOMAIN book.proof = {lines[i].block : i \in DOMAIN lines}
        /\ \A b \in DOMAIN book.proof : book.proof[b] = IF Own(b) = {} THEN <<>>[b] ELSE lines[Final(b)].proof
    BY DEF LoadJSONL, NewProofBook
  <1> HIDE DEF book
  <1>4. ASSUME NEW b \in DOMAIN book.proof PROVE book.proof[b] = GenerateProofBytes(seed, b)
    <2>1. Own(b) # {}  BY <1>3
    <2>2. \E i \in Own(b) : \A j \in Own(b) : j <= i
      <3>1. Own(b) \subseteq 1..Len(lines)  BY <1>2
      <3> HIDE DEF Own
      <3>2. QED  BY <1>2, <2>1, <3>1, LargestExists
    <2>3. Final(b) \in Own(b)
      <3> HIDE DEF Own
      <3>1. QED  BY <2>2
    <2> HIDE DEF Final
    <2>4. lines[Final(b)].proof = GenerateProofBytes(seed, b)  BY <1>1, <2>3
    <2>5. QED  BY <1>3, <2>1, <2>4
  <1>5. SUFFICES ASSUME NEW b PROVE ProofForBlock(book, b) = GenerateProofBytes(seed, b)
    BY DEF BookOf, book
  <1>6. QED  BY <1>3, <1>4 DEF ProofForBlock

\* What SaveJSONL writes are lines of its seed, and so is what it has written when it
\* is stopped.
LEMMA SavedLines ==
    ASSUME NEW seed, NEW n \in Nat, NEW k \in 0..n
    PROVE  /\ LinesOf(seed, JSONLines(NewProofBook(seed), n))
           /\ Len(JSONLines(NewProofBook(seed), n)) = n
           /\ LinesOf(seed, SubSeq(JSONLines(NewProofBook(seed), n), 1, k))
  <1> DEFINE all == JSONLines(NewProofBook(seed), n)
             line(i) == [block |-> i - 1, proof |-> GenerateProofBytes(seed, i - 1)]
             L == {line(i) : i \in 1..n}
             some == SubSeq(all, 1, k)
  <1>1. all = [i \in 1..n |-> line(i)]  BY DEF JSONLines, ProofForBlock, NewProofBook
  <1>2. all \in Seq(L) /\ Len(all) = n
    <2>1. all \in [1..n -> L]  BY <1>1
    <2> HIDE DEF all, L
    <2>2. QED  BY <2>1
  <1>3. \A i \in 1..n : LineOf(seed, line(i))  BY DEF LineOf
  <1>4. some \in Seq(L) /\ DOMAIN some = 1..k /\ \A i \in 1..k : some[i] = all[i]
    <2> HIDE DEF all, L
    <2>1. QED  BY <1>2
  <1>5. DOMAIN all = 1..n /\ \A i \in 1..n : LineOf(seed, all[i])
    <2>1. \A i \in 1..n : all[i] = line(i)  BY <1>1
    <2>2. QED  BY <1>1, <1>3, <2>1
  <1>6. \A i \in 1..k : LineOf(seed, some[i])
    <2> HIDE DEF all, some
    <2>1. QED  BY <1>4, <1>5
  <1> HIDE DEF all, some, L
  <1>7. LinesOf(seed, all) /\ LinesOf(seed, some)
    BY <1>2, <1>4, <1>5, <1>6 DEF LinesOf, IsSeq
  <1>8. QED  BY <1>2, <1>7 DEF all, some

\* Lines of a seed, one file after the other.
LEMMA ConcatLines ==
    ASSUME NEW seed, NEW p, LinesOf(seed, p), NEW q, LinesOf(seed, q)
    PROVE  LinesOf(seed, p \o q)
  <1>1. PICK r : Joins(r, p, q)  BY DEF Joins
  <1>2. IsSeq(p) /\ IsSeq(q)  BY DEF LinesOf
  <1>3. /\ IsSeq(r)
        /\ \A i \in DOMAIN r : (\E j \in DOMAIN p : r[i] = p[j]) \/ (\E j \in DOMAIN q : r[i] = q[j])
    BY <1>1, <1>2, ConcatElements
  <1>4. LinesOf(seed, r)  BY <1>3 DEF LinesOf
  <1>5. QED  BY <1>1, <1>4 DEF Joins

\* A line that is cut off, or none.
LEMMA TornLines == ASSUME NEW seed PROVE LinesOf(seed, <<Torn>>) /\ LinesOf(seed, <<>>)
  <1>1. <<Torn>> \in Seq({Torn}) /\ <<>> \in Seq({Torn})  OBVIOUS
  <1>2. \A i \in DOMAIN <<Torn>> : <<Torn>>[i] = Torn  OBVIOUS
  <1>3. DOMAIN <<>> = {}  OBVIOUS
  <1>4. QED  BY <1>1, <1>2, <1>3 DEF LinesOf, LineOf, IsSeq

-----------------------------------------------------------------------------
(* The inductive invariant *)

\* The command that runs, by its mode.
OrchInv ==
    /\ orch.mode \in {"none", "generate", "run"}
    /\ orch.mode = "none" => orch = Idle
    /\ orch.mode = "generate" =>
         /\ DOMAIN orch = {"mode", "cfg", "pc", "block", "offset", "entries"}
         /\ orch.pc \in {"blob", "create", "proofs"} /\ orch.block \in Nat
    /\ orch.mode = "run" =>
         /\ DOMAIN orch = {"mode", "cfg", "pc", "stamp"}
         /\ orch.pc \in {"run", "json", "csv", "md"}

\* The proof file holds lines of the seed it was created for, while it is written
\* as well as after its writer was stopped.
FileInv == /\ proofs.exists => LinesOf(proofsSeed, proofs.lines)
           /\ At("generate", "proofs") => proofs.exists /\ proofsSeed = orch.cfg.proofSeed

\* The book of a run has the right proofs, unless the file was of another seed.
BookInv == orch.mode = "run" =>
    /\ runner.cfg = orch.cfg
    /\ (proofs.exists => proofsSeed = runner.cfg.proofSeed)
         => BookOf(runner.cfg.proofSeed, runner.proofBook)

\* No certification block is missing.
Complete(report) == CertificationBlocks(report.cfg) \subseteq
                        {report.blocks[i].block : i \in DOMAIN report.blocks}

\* The report file of a kind is there, and is one of these.
Written(kind, these) == <<kind, orch.stamp>> \in DOMAIN reports /\ reports[<<kind, orch.stamp>>] \in these

\* What was written of a run's report, up to where the command stands.
ReportInv ==
    /\ orch.mode = "run" =>
         /\ verdict = "passed" => Complete(Report)
         /\ orch.pc \in {"csv", "md"} => Written("json", {Report})
         /\ orch.pc = "md" => Written("csv", {Report, CutOff})
    /\ printed.what = "report" => orch = Idle
    /\ PrintedIsWritten

IInv == OrchInv /\ FileInv /\ BookInv /\ ReportInv

\* Nothing was generated or run.
LEMMA InvariantStarts == Init => IInv
  <1> SUFFICES ASSUME Init PROVE IInv  OBVIOUS
  <1>1. orch.mode = "none" /\ orch = Idle /\ printed.what = "nothing" /\ proofs.exists = FALSE
    BY DEF Init, Idle, Nothing, NoFile
  <1>2. OrchInv /\ BookInv  BY <1>1 DEF OrchInv, BookInv
  <1>3. FileInv /\ ReportInv  BY <1>1 DEF FileInv, ReportInv, PrintedIsWritten, At
  <1>4. QED  BY <1>2, <1>3 DEF IInv

\* A step that leaves the files, the command and the run alone.
LEMMA NothingMoves ==
    ASSUME IInv, UNCHANGED <<runVars, orch, files, printed>> PROVE IInv'
  BY DEF IInv, OrchInv, FileInv, BookInv, ReportInv, PrintedIsWritten, At, Report, Complete, Written,
         runVars, files

\* A command ends without a report; the proof file, if there is one, is of its seed.
LEMMA ExitStep ==
    ASSUME NEW result, Exit(result), result.what # "report",
           proofs'.exists => LinesOf(proofsSeed', proofs'.lines)
    PROVE  IInv'
  <1>1. orch' = Idle /\ printed' = result  BY DEF Exit
  <1>2. OrchInv' /\ BookInv'  BY <1>1 DEF OrchInv, BookInv, Idle
  <1>3. FileInv'  BY <1>1 DEF FileInv, At, Idle
  <1>4. ReportInv'  BY <1>1 DEF ReportInv, PrintedIsWritten, Idle
  <1>5. QED  BY <1>2, <1>3, <1>4 DEF IInv

\* A step of the generator that is not its last, and its effect on the proof file.
LEMMA GenStep ==
    ASSUME IInv, UNCHANGED <<runVars, reports, printed>>, orch.mode = "generate",
           orch'.mode = "generate", OrchInv', FileInv'
    PROVE  IInv'
  <1>1. printed.what # "report"  BY DEF IInv, ReportInv, Idle
  <1>2. BookInv'  BY DEF BookInv
  <1>3. ReportInv'  BY <1>1 DEF ReportInv, PrintedIsWritten
  <1>4. QED  BY <1>2, <1>3 DEF IInv

\* generate-datasets starts, and the blob is created.
LEMMA GenerateStep == ASSUME IInv, NEW c \in Configs, Generate(c) PROVE IInv'
  <1>1. orch'.mode = "generate" /\ orch'.pc = "blob"  BY DEF Generate
  <1>2. OrchInv'  BY DEF Generate, OrchInv
  <1>3. FileInv'  BY <1>1 DEF Generate, IInv, FileInv, At
  <1>4. BookInv' /\ ReportInv'
    BY <1>1 DEF Generate, Command, BookInv, ReportInv, PrintedIsWritten, Nothing
  <1>5. QED  BY <1>2, <1>3, <1>4 DEF IInv

\* The blocks of the blob.
LEMMA GenBlockStep == ASSUME IInv, GenBlock PROVE IInv'
  <1>1. orch.mode = "generate" /\ orch.pc = "blob"  BY DEF GenBlock, At
  <1>2. /\ DOMAIN orch' = DOMAIN orch /\ orch'.mode = "generate" /\ orch'.pc = "blob"
        /\ orch'.block = orch.block + 1
    BY <1>1 DEF GenBlock, IInv, OrchInv
  <1>3. OrchInv'  BY <1>1, <1>2 DEF IInv, OrchInv
  <1>4. FileInv'  BY <1>2 DEF GenBlock, IInv, FileInv, At
  <1>5. QED  BY <1>1, <1>2, <1>3, <1>4, GenStep DEF GenBlock

\* The manifest.
LEMMA GenManifestStep == ASSUME IInv, GenManifest PROVE IInv'
  <1>1. orch.mode = "generate" /\ orch.pc = "blob"  BY DEF GenManifest, At
  <1>2. /\ DOMAIN orch' = DOMAIN orch /\ orch'.mode = "generate" /\ orch'.pc = "create"
        /\ orch'.block = orch.block
    BY <1>1 DEF GenManifest, IInv, OrchInv
  <1>3. OrchInv'  BY <1>1, <1>2 DEF IInv, OrchInv
  <1>4. FileInv'  BY <1>2 DEF GenManifest, IInv, FileInv, At
  <1>5. QED  BY <1>1, <1>2, <1>3, <1>4, GenStep DEF GenManifest

\* The proof file is created: whatever it held is gone.
LEMMA GenCreateStep == ASSUME IInv, GenCreateProofs PROVE IInv'
  <1>1. orch.mode = "generate" /\ orch.pc = "create"  BY DEF GenCreateProofs, At
  <1>2. /\ DOMAIN orch' = DOMAIN orch /\ orch'.mode = "generate" /\ orch'.pc = "proofs"
        /\ orch'.block = orch.block /\ orch'.cfg = orch.cfg
    BY <1>1 DEF GenCreateProofs, IInv, OrchInv
  <1>3. OrchInv'  BY <1>1, <1>2 DEF IInv, OrchInv
  <1>4. proofs'.exists /\ proofs'.lines = <<>> /\ proofsSeed' = orch.cfg.proofSeed
    BY DEF GenCreateProofs, CreateProofs, File
  <1>5. FileInv'  BY <1>2, <1>4, TornLines DEF FileInv
  <1>6. QED  BY <1>1, <1>2, <1>3, <1>5, GenStep DEF GenCreateProofs

\* What the generator may have appended to the proof file.
LEMMA AppendedLines ==
    ASSUME IInv, At("generate", "proofs"), NEW lines, LinesOf(proofsSeed, lines),
           NEW f, f = File(proofs.lines \o lines)
    PROVE  LinesOf(proofsSeed, f.lines)
  <1>1. LinesOf(proofsSeed, proofs.lines)  BY DEF IInv, FileInv
  <1>2. f.lines = proofs.lines \o lines  BY DEF File
  <1>3. LinesOf(proofsSeed, proofs.lines \o lines)  BY <1>1, ConcatLines
  <1>4. QED  BY <1>2, <1>3

\* The lines of the proof file.
LEMMA GenProofsStep == ASSUME IInv, GenProofs PROVE IInv'
  <1>1. At("generate", "proofs")  BY DEF GenProofs
  <1>2. orch.block \in Nat /\ proofsSeed = orch.cfg.proofSeed
    BY <1>1 DEF IInv, OrchInv, FileInv, At
  <1>3. LinesOf(proofsSeed, GenLines)  BY <1>2, SavedLines DEF GenLines
  <1>4. LinesOf(proofsSeed, proofs'.lines)
    <2>1. proofs' = File(proofs.lines \o GenLines)  BY DEF GenProofs
    <2>2. QED  BY <1>1, <1>3, <2>1, AppendedLines
  <1>5. proofsSeed' = proofsSeed  BY DEF GenProofs
  <1>6. PICK result : result = [what |-> "datasets", cfg |-> orch.cfg]  OBVIOUS
  <1>7. Exit(result) /\ result.what # "report"  BY <1>6 DEF GenProofs
  <1>8. QED  BY <1>4, <1>5, <1>7, ExitStep

\* The generator is stopped.
LEMMA GenFailsStep == ASSUME IInv, GenFails PROVE IInv'
  <1>1. Exit(Nothing) /\ Nothing.what # "report" /\ proofsSeed' = proofsSeed
    BY DEF GenFails, Nothing
  <1>2. CASE proofs' = proofs
    BY <1>1, <1>2, ExitStep DEF IInv, FileInv
  <1>3. CASE proofs' # proofs
    <2>1. At("generate", "proofs")  BY <1>3 DEF GenFails, At
    <2>2. PICK lines \in Prefixes(GenLines) :
            proofs' \in {File(proofs.lines \o lines), File(proofs.lines \o lines \o <<Torn>>)}
      BY <1>3 DEF GenFails
    <2>3. orch.block \in Nat /\ proofsSeed = orch.cfg.proofSeed
      BY <2>1 DEF IInv, OrchInv, FileInv, At
    <2>4. LinesOf(proofsSeed, lines)
      <3>1. Len(GenLines) = orch.block  BY <2>3, SavedLines DEF GenLines
      <3>2. PICK k \in 0..orch.block : lines = SubSeq(GenLines, 1, k)
        BY <2>2, <3>1 DEF Prefixes
      <3>3. QED  BY <2>3, <3>2, SavedLines DEF GenLines
    <2>5. LinesOf(proofsSeed, proofs'.lines)
      <3>1. CASE proofs' = File(proofs.lines \o lines)
        BY <2>1, <2>4, <3>1, AppendedLines
      <3>2. CASE proofs' = File(proofs.lines \o lines \o <<Torn>>)
        <4>1. LinesOf(proofsSeed, proofs.lines)  BY <2>1 DEF IInv, FileInv
        <4>2. LinesOf(proofsSeed, proofs.lines \o lines)  BY <2>4, <4>1, ConcatLines
        <4>3. LinesOf(proofsSeed, <<Torn>>)  BY TornLines
        <4>4. PICK front : front = proofs.lines \o lines  OBVIOUS
        <4>5. LinesOf(proofsSeed, front \o <<Torn>>)  BY <4>2, <4>3, <4>4, ConcatLines
        <4>6. proofs'.lines = front \o <<Torn>>  BY <3>2, <4>4 DEF File
        <4>7. QED  BY <4>5, <4>6
      <3>3. QED  BY <2>2, <3>1, <3>2
    <2>6. QED  BY <1>1, <2>5, ExitStep
  <1>4. QED  BY <1>2, <1>3

-----------------------------------------------------------------------------
(* Runs *)

\* A run starts with a book from the file, if it is configured and there.
LEMMA StartRunStep == ASSUME IInv, NEW c \in Configs, StartRun(c) PROVE IInv'
  <1>1. CASE UNCHANGED <<runVars, orch>>
    <2>1. printed' = Nothing /\ UNCHANGED files  BY DEF StartRun, Command
    <2>2. orch = Idle  BY DEF StartRun, Command
    <2>3. QED  BY <1>1, <2>1, <2>2
      DEF IInv, OrchInv, FileInv, BookInv, ReportInv, PrintedIsWritten, At, Idle, Nothing, files
  <1>2. CASE /\ NewRunnerOK(c, proofs)
             /\ runner' = NewRunner(c, proofs)
             /\ submitted' = <<>> /\ verdict' = "running"
             /\ orch' = [mode |-> "run", cfg |-> c, pc |-> "run", stamp |-> 0]
    <2>1. UNCHANGED <<proofs, proofsSeed, reports>> /\ printed' = Nothing
      BY DEF StartRun, Command, files
    <2>2. orch'.mode = "run" /\ orch'.pc = "run" /\ orch'.cfg = c  BY <1>2
    <2>3. OrchInv'  BY <1>2 DEF OrchInv
    <2>4. FileInv'  BY <2>1, <2>2 DEF IInv, FileInv, At
    <2>5. BookInv'
      <3>1. runner'.cfg = c  BY <1>2 DEF NewRunner
      <3>2. ASSUME proofs.exists => proofsSeed = c.proofSeed
            PROVE  BookOf(c.proofSeed, runner'.proofBook)
        <4>1. CASE Loads(c, proofs)
          <5>1. runner'.proofBook = LoadJSONL(NewProofBook(c.proofSeed), proofs.lines)
            BY <1>2, <4>1 DEF NewRunner
          <5>2. LinesOf(c.proofSeed, proofs.lines) /\ LoadJSONLOK(proofs.lines)
            BY <1>2, <3>2, <4>1 DEF NewRunnerOK, Loads, IInv, FileInv
          <5>3. QED  BY <5>1, <5>2, LoadedBook
        <4>2. CASE ~Loads(c, proofs)
          <5>1. runner'.proofBook = NewProofBook(c.proofSeed)  BY <1>2, <4>2 DEF NewRunner
          <5>2. QED  BY <5>1, NewBook
        <4>3. QED  BY <4>1, <4>2
      <3>3. QED  BY <2>1, <2>2, <3>1, <3>2 DEF BookInv
    <2>6. ReportInv'
      BY <1>2, <2>1, <2>2 DEF ReportInv, PrintedIsWritten, Nothing
    <2>7. QED  BY <2>3, <2>4, <2>5, <2>6 DEF IInv
  <1>3. QED  BY <1>1, <1>2 DEF StartRun

\* A step of a run that is not its last.
LEMMA RunStep ==
    ASSUME IInv, UNCHANGED <<runner, proofs, proofsSeed, printed>>, orch.mode = "run",
           DOMAIN orch' = DOMAIN orch, orch'.mode = "run", orch'.cfg = orch.cfg,
           orch'.pc \in {"run", "json", "csv", "md"},
           verdict' = "passed" => Complete(Report)',
           orch'.pc \in {"csv", "md"} => Written("json", {Report})',
           orch'.pc = "md" => Written("csv", {Report, CutOff})'
    PROVE  IInv'
  <1>1. OrchInv'  BY DEF IInv, OrchInv
  <1>2. FileInv'  BY DEF IInv, FileInv, At
  <1>3. BookInv'  BY DEF IInv, BookInv
  <1>4. printed.what # "report"  BY DEF IInv, ReportInv, Idle
  <1>5. ReportInv'  BY <1>4 DEF ReportInv, PrintedIsWritten
  <1>6. QED  BY <1>1, <1>2, <1>3, <1>5 DEF IInv

\* A block is submitted.
LEMMA RunBlockStep == ASSUME IInv, RunBlock PROVE IInv'
  <1>1. /\ UNCHANGED <<runner, verdict, orch, proofs, proofsSeed, printed>>
        /\ verdict = "running" /\ orch.mode = "run" /\ orch.pc = "run"
    BY DEF RunBlock, SubmitNext, At, files
  <1>2. QED  BY <1>1, RunStep

\* The verdict: passed only if every certification block was certified.
LEMMA RunReportStep == ASSUME IInv, RunReport PROVE IInv'
  <1>1. /\ UNCHANGED <<runner, submitted, proofs, proofsSeed, printed>>
        /\ orch.mode = "run"
    BY DEF RunReport, Conclude, At, files
  <1>2. /\ DOMAIN orch' = DOMAIN orch /\ orch'.mode = "run" /\ orch'.cfg = orch.cfg
        /\ orch'.pc = "json"
    BY <1>1 DEF RunReport, IInv, OrchInv
  <1>3. ASSUME verdict' = "passed" PROVE Complete(Report)'
    <2>1. MayPass  BY <1>3 DEF RunReport, Conclude
    <2>2. runner.cfg = orch.cfg  BY <1>1 DEF IInv, BookInv
    <2>3. CertificationBlocks(orch.cfg) \subseteq {submitted[i].block : i \in DOMAIN submitted}
      BY <2>1, <2>2 DEF MayPass, Certified
    <2>4. Report'.cfg = orch.cfg /\ Report'.blocks = submitted  BY <1>1, <1>2 DEF Report
    <2>5. QED  BY <2>3, <2>4 DEF Complete
  <1>4. QED  BY <1>1, <1>2, <1>3, RunStep

\* A report file that is written is there afterwards, and the others are still there.
LEMMA FileWritten ==
    ASSUME NEW kind, NEW rep, NEW these, rep \in these, orch'.stamp = orch.stamp,
           reports' = Put(reports, <<kind, orch.stamp>>, rep)
    PROVE  /\ Written(kind, these)'
           /\ \A other, those : other # kind /\ Written(other, those) => Written(other, those)'
  <1>1. PICK key : key = <<kind, orch.stamp>>  OBVIOUS
  <1>2. reports' = Put(reports, key, rep)  BY <1>1
  <1>3. /\ DOMAIN reports' = DOMAIN reports \cup {key} /\ reports'[key] = rep
        /\ \A y \in DOMAIN reports : y # key => reports'[y] = reports[y]
    BY <1>2 DEF Put
  <1>4. Written(kind, these)'  BY <1>1, <1>3 DEF Written
  <1>5. ASSUME NEW other, NEW those, other # kind, Written(other, those)
        PROVE  Written(other, those)'
    <2>1. <<other, orch.stamp>> # key  BY <1>1, <1>5
    <2>2. QED  BY <1>3, <1>5, <2>1 DEF Written
  <1>6. QED  BY <1>4, <1>5

\* The JSON file, and then the table; an error of the latter's Flush goes unnoticed.
LEMMA WriteStep == ASSUME IInv, WriteJSON \/ WriteCSV PROVE IInv'
  <1>1. UNCHANGED <<runner, submitted, verdict, proofs, proofsSeed, printed>> /\ orch.mode = "run"
    BY DEF WriteJSON, WriteCSV, At, runVars
  <1>2. /\ DOMAIN orch' = DOMAIN orch /\ orch'.mode = "run" /\ orch'.cfg = orch.cfg
        /\ orch'.stamp = orch.stamp
        /\ orch'.pc = IF WriteJSON THEN "csv" ELSE "md"
        /\ orch.pc = IF WriteJSON THEN "json" ELSE "csv"
    BY <1>1 DEF WriteJSON, WriteCSV, IInv, OrchInv, At
  <1>3. PICK rep : rep = Report /\ rep = Report'  BY <1>1, <1>2 DEF Report
  <1>4. verdict' = "passed" => Complete(Report)'
    BY <1>1, <1>3 DEF IInv, ReportInv, Complete
  <1>5. CASE WriteJSON
    <2>1. reports' = Put(reports, <<"json", orch.stamp>>, rep)  BY <1>3, <1>5 DEF WriteJSON, WriteFile
    <2>2. Written("json", {rep})'  BY <1>2, <2>1, FileWritten
    <2>3. QED  BY <1>1, <1>2, <1>3, <1>4, <1>5, <2>2, RunStep
  <1>6. CASE ~WriteJSON /\ WriteCSV
    <2>1. PICK r \in {rep, CutOff} : reports' = Put(reports, <<"csv", orch.stamp>>, r)
      BY <1>3, <1>6 DEF WriteCSV, WriteFile
    <2>2. Written("csv", {rep, CutOff})'  BY <1>2, <2>1, FileWritten
    <2>3. Written("json", {rep})  BY <1>1, <1>2, <1>3, <1>6 DEF IInv, ReportInv
    <2>4. Written("json", {rep})'  BY <1>2, <2>1, <2>3, FileWritten
    <2>5. QED  BY <1>1, <1>2, <1>3, <1>4, <1>6, <2>2, <2>4, RunStep
  <1>7. QED  BY <1>5, <1>6

\* The markdown file is the last one; the verdict is printed.
LEMMA WriteMarkdownStep == ASSUME IInv, WriteMarkdown PROVE IInv'
  <1>0. PICK rep, stamp : rep = Report /\ stamp = orch.stamp  OBVIOUS
  <1>1. orch.mode = "run" /\ orch.pc = "md"  BY DEF WriteMarkdown, At
  <1>2. /\ orch' = Idle /\ printed' = [what |-> "report", stamp |-> stamp, report |-> rep]
        /\ UNCHANGED <<proofs, proofsSeed>> /\ reports' = Put(reports, <<"md", stamp>>, rep)
    BY <1>0 DEF WriteMarkdown, Exit, WriteFile
  <1>3. /\ <<"json", stamp>> \in DOMAIN reports /\ reports[<<"json", stamp>>] = rep
        /\ <<"csv", stamp>> \in DOMAIN reports /\ reports[<<"csv", stamp>>] \in {rep, CutOff}
    BY <1>0, <1>1 DEF IInv, ReportInv, Written
  <1>4. /\ reports'[<<"json", stamp>>] = rep /\ reports'[<<"md", stamp>>] = rep
        /\ reports'[<<"csv", stamp>>] \in {rep, CutOff}
    <2>1. PICK key : key = <<"md", stamp>>  OBVIOUS
    <2>2. reports' = Put(reports, key, rep)  BY <1>2, <2>1
    <2>3. /\ reports'[key] = rep
          /\ \A y \in DOMAIN reports : y # key => reports'[y] = reports[y]
      BY <2>2 DEF Put
    <2>4. <<"json", stamp>> # key /\ <<"csv", stamp>> # key  BY <2>1
    <2>5. QED  BY <1>3, <2>1, <2>3, <2>4
  <1>5. rep.verdict = "passed" => Complete(rep)
    <2>1. rep.verdict = verdict  BY <1>0 DEF Report
    <2>2. QED  BY <1>0, <1>1, <2>1 DEF IInv, ReportInv
  <1>6. PrintedIsWritten'  BY <1>2, <1>4, <1>5 DEF PrintedIsWritten, Complete
  <1>7. OrchInv' /\ BookInv'  BY <1>2 DEF OrchInv, BookInv, Idle
  <1>8. FileInv'  BY <1>2 DEF IInv, FileInv, At, Idle
  <1>9. ReportInv'  BY <1>2, <1>6 DEF ReportInv, Idle
  <1>10. QED  BY <1>7, <1>8, <1>9 DEF IInv

\* A run is stopped.
LEMMA RunFailsStep == ASSUME IInv, RunFails PROVE IInv'
  <1>1. Exit(Nothing) /\ Nothing.what # "report" /\ UNCHANGED <<proofs, proofsSeed>>
    BY DEF RunFails, Nothing
  <1>2. QED  BY <1>1, ExitStep DEF IInv, FileInv

\* Every step keeps the invariant.
LEMMA InvariantKept == IInv /\ [Next]_vars => IInv'
  <1> SUFFICES ASSUME IInv, [Next]_vars PROVE IInv'  OBVIOUS
  <1>1. CASE \E c \in Configs : Generate(c) \/ StartRun(c)  BY <1>1, GenerateStep, StartRunStep
  <1>2. CASE GenBlock \/ GenManifest \/ GenCreateProofs
    BY <1>2, GenBlockStep, GenManifestStep, GenCreateStep
  <1>3. CASE GenProofs \/ GenFails  BY <1>3, GenProofsStep, GenFailsStep
  <1>4. CASE RunBlock \/ RunReport  BY <1>4, RunBlockStep, RunReportStep
  <1>5. CASE WriteJSON \/ WriteCSV  BY <1>5, WriteStep
  <1>6. CASE WriteMarkdown \/ RunFails  BY <1>6, WriteMarkdownStep, RunFailsStep
  <1>7. CASE Tick \/ UNCHANGED vars  BY <1>7, NothingMoves DEF Tick, vars
  <1>8. QED  BY <1>1, <1>2, <1>3, <1>4, <1>5, <1>6, <1>7 DEF Next

-----------------------------------------------------------------------------
(* The theorems *)

(***************************************************************************)
(* A run with the seed that the proof file was created for finds or makes  *)
(* the right proof of every block, whichever generations were stopped and  *)
(* wherever: SaveJSONL truncates the file first, and LoadJSONL refuses a   *)
(* line that is cut off.                                                   *)
(***************************************************************************)
THEOREM DatasetNeverSpoilsRun == Spec => []DatasetFitsRun
  <1>1. ASSUME IInv PROVE DatasetFitsRun
    <2>1. SUFFICES ASSUME orch.mode = "run", proofs.exists => proofsSeed = runner.cfg.proofSeed,
                          NEW b, Spoilt(runner, b)
                   PROVE  b = runner.cfg.badProofAt
      BY DEF DatasetFitsRun
    <2>2. BookOf(runner.cfg.proofSeed, runner.proofBook)  BY <1>1, <2>1 DEF IInv, BookInv
    <2>3. ProofForBlock(runner.proofBook, b) = GenerateProofBytes(runner.cfg.proofSeed, b)
      BY <2>2 DEF BookOf
    <2>4. QED  BY <2>1, <2>3 DEF Spoilt, ReplayedProof
  <1>2. QED  BY <1>1, InvariantStarts, InvariantKept, PTL DEF Spec

(***************************************************************************)
(* A verdict that is printed is the one in the JSON and markdown files,    *)
(* whatever WriteReport replaced; and "passed" means that no certification *)
(* block is missing.                                                       *)
(***************************************************************************)
THEOREM PrintedVerdictIsWritten == Spec => []PrintedIsWritten
  <1>1. ASSUME IInv PROVE PrintedIsWritten  BY <1>1 DEF IInv, ReportInv
  <1>2. QED  BY <1>1, InvariantStarts, InvariantKept, PTL DEF Spec
=============================================================================
