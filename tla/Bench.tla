------------------------------- MODULE Bench -------------------------------
(***************************************************************************)
(* cmd/bench-orchestrator with internal/pipeline/datasets.go and report.go:*)
(* an operator generates data sets and runs benchmarks, one command at a   *)
(* time, with changing configurations, over one set of files.              *)
(*                                                                         *)
(* A run of the benchmark is CertificationRun, which Pipeline implements.  *)
(* A command may be killed, or fail to write a file, at any step; a file   *)
(* that was being written is then left cut off.                            *)
(***************************************************************************)
EXTENDS CertificationRun

CONSTANTS Configs,        \* the configurations the operator uses
          Byte,           \* values of a byte: 256
          Cuts,           \* bound: the bytes of a block after which a write of the blob may fail
          MaxCommands,    \* bound: commands
          MaxClock        \* bound: seconds that pass

ASSUME BenchAssumption == MaxCommands \in Nat /\ MaxClock \in Nat /\ Cuts \subseteq Nat

VARIABLES orch,        \* the command: [mode, cfg, pc, block, offset, entries, stamp]
          blob,        \* tx_dataset.bin, in bytes
          manifest,    \* tx_dataset_manifest.json: its block entries, or <<CutOff>>
          proofs,      \* proof_dataset.jsonl
          reports,     \* report files by kind and time stamp
          printed,     \* what the last command has printed
          clock,       \* the time, in seconds
          commands     \* number of commands so far
VARIABLE proofsSeed    \* history: the seed of the command that last created the proof file

files == <<blob, manifest, proofs, proofsSeed, reports>>
vars  == <<runVars, orch, files, printed, clock, commands>>

F == INSTANCE Frames

CutOff  == [what |-> "cut off"]
Nothing == [what |-> "nothing"]
Idle    == [mode |-> "none", pc |-> "idle"]

NoRunner == [cfg |-> Nothing, proofBook |-> NewProofBook("")]

Init == /\ Begin /\ runner = NoRunner
        /\ orch = Idle
        /\ blob = <<>> /\ manifest = <<>>
        /\ proofs = NoFile /\ proofsSeed = ""
        /\ reports = <<>>
        /\ printed = Nothing
        /\ clock = 0 /\ commands = 0

Put(f, x, v) == [y \in DOMAIN f \cup {x} |-> IF y = x THEN v ELSE f[y]]

At(mode, pc) == orch.mode = mode /\ orch.pc = pc

\* A command starts.  With a configuration that config.Load refuses it ends at once.
Command(c) == /\ orch = Idle /\ commands < MaxCommands
              /\ commands' = commands + 1
              /\ printed' = Nothing
              /\ Validate(c)

\* The process ends, and its memory with it.
Exit(result) == /\ orch' = Idle /\ printed' = result
                /\ runner' = NoRunner /\ submitted' = <<>> /\ verdict' = "running"

Tick == /\ clock < MaxClock
        /\ clock' = clock + 1
        /\ UNCHANGED <<runVars, orch, files, printed, commands>>

-----------------------------------------------------------------------------
(* -mode generate-datasets: GenerateDatasets *)

\* os.Create of the blob.
Generate(c) ==
    /\ Command(c)
    /\ orch' = [mode |-> "generate", cfg |-> c, pc |-> "blob", block |-> 0, offset |-> 0,
                entries |-> <<>>]
    /\ blob' = <<>>
    /\ UNCHANGED <<runVars, manifest, proofs, proofsSeed, reports, clock>>

\* Unlike the runner, the generator counts the blocks of a phase without a rate.
GenPhase(c, b) == IF b < BlocksForPhase(c, c.warmup) THEN "warmup" ELSE "certification"
GenBlocks(c)   == BlocksForPhase(c, c.warmup) + BlocksForPhase(c, c.certification)
GenTxCount(c, b) == TxPerBlock(c, IF GenPhase(c, b) = "warmup" THEN c.warmup.tps
                                                              ELSE c.certification.tps)
GenBytes(c, b) == F!EncodeTxSlice(GenerateSyntheticTxs(b, GenTxCount(c, b)))

\* Mutant: the offset of a block is where its transactions end.
EntryAtEnd(c, b, end) ==
    [block |-> b, offset |-> end, txCount |-> GenTxCount(c, b), phase |-> GenPhase(c, b)]

\* The manifest entry of a block whose transactions end at the given offset.
Entry(c, b, end) ==
    [block |-> b, offset |-> end - 12 * GenTxCount(c, b), txCount |-> GenTxCount(c, b),
     phase |-> GenPhase(c, b)]

GenBlock ==
    /\ At("generate", "blob") /\ orch.block < GenBlocks(orch.cfg)
    /\ LET bytes == GenBytes(orch.cfg, orch.block)
           end   == orch.offset + Len(bytes)
       IN  /\ blob' = blob \o bytes
           /\ orch' = [orch EXCEPT !.block = @ + 1, !.offset = end,
                                   !.entries = Append(@, Entry(orch.cfg, orch.block, end))]
    /\ UNCHANGED <<runVars, manifest, proofs, proofsSeed, reports, printed, clock, commands>>

GenManifest ==
    /\ At("generate", "blob") /\ orch.block = GenBlocks(orch.cfg)
    /\ manifest' = orch.entries
    /\ orch' = [orch EXCEPT !.pc = "create"]
    /\ UNCHANGED <<runVars, blob, proofs, proofsSeed, reports, printed, clock, commands>>

\* Mutant: the file is opened for appending.
CreateProofsAppends == proofs' = File(proofs.lines)

\* os.Create in SaveJSONL truncates the file.
CreateProofs == proofs' = File(<<>>)

GenCreateProofs ==
    /\ At("generate", "create")
    /\ CreateProofs
    /\ proofsSeed' = orch.cfg.proofSeed
    /\ orch' = [orch EXCEPT !.pc = "proofs"]
    /\ UNCHANGED <<runVars, blob, manifest, reports, printed, clock, commands>>

GenLines == JSONLines(NewProofBook(orch.cfg.proofSeed), orch.block)

\* SaveJSONL writes through a buffer; then the command prints the three paths.
GenProofs ==
    /\ At("generate", "proofs")
    /\ proofs' = File(proofs.lines \o GenLines)
    /\ Exit([what |-> "datasets", cfg |-> orch.cfg])
    /\ UNCHANGED <<blob, manifest, proofsSeed, reports, clock, commands>>

\* Killed, or out of disk space: the file that is being written is cut off, the blob
\* at some byte of a block.
GenFails ==
    /\ orch.mode = "generate"
    /\ \/ /\ orch.pc = "blob" /\ orch.block < GenBlocks(orch.cfg)
          /\ LET bytes == GenBytes(orch.cfg, orch.block)
             IN  \E n \in Cuts \cap 0..(Len(bytes) - 1) : blob' = blob \o SubSeq(bytes, 1, n)
          /\ UNCHANGED <<manifest, proofs>>
       \/ /\ orch.pc = "blob" /\ orch.block = GenBlocks(orch.cfg)
          /\ manifest' \in {manifest, <<CutOff>>}
          /\ UNCHANGED <<blob, proofs>>
       \/ /\ orch.pc = "create"
          /\ UNCHANGED <<blob, manifest, proofs>>
       \/ /\ orch.pc = "proofs"
          /\ \E lines \in Prefixes(GenLines) :
               proofs' \in {File(proofs.lines \o lines), File(proofs.lines \o lines \o <<Torn>>)}
          /\ UNCHANGED <<blob, manifest>>
    /\ Exit(Nothing)
    /\ UNCHANGED <<proofsSeed, reports, clock, commands>>

-----------------------------------------------------------------------------
(* -mode run: NewRunner, Runner.Run, WriteReport *)

StartRun(c) ==
    /\ Command(c)
    /\ \/ /\ ~NewRunnerOK(c, proofs)
          /\ UNCHANGED <<runVars, orch>>
       \/ /\ NewRunnerOK(c, proofs)
          /\ runner' = NewRunner(c, proofs)
          /\ submitted' = <<>> /\ verdict' = "running"
          /\ orch' = [mode |-> "run", cfg |-> c, pc |-> "run", stamp |-> 0]
    /\ UNCHANGED <<files, clock>>

\* The blocks are submitted; Run builds the report and takes the time for its name.
RunBlock == /\ At("run", "run") /\ SubmitNext
            /\ UNCHANGED <<orch, files, printed, clock, commands>>

RunReport == /\ At("run", "run") /\ Conclude
             /\ orch' = [orch EXCEPT !.pc = "json", !.stamp = clock]
             /\ UNCHANGED <<files, printed, clock, commands>>

Report == [cfg |-> orch.cfg, verdict |-> verdict, blocks |-> submitted]

\* Mutant: a report that is there already is kept.
WriteFileKeeps(kind) ==
    reports' = IF <<kind, orch.stamp>> \in DOMAIN reports THEN reports
               ELSE Put(reports, <<kind, orch.stamp>>, Report)

\* os.WriteFile and os.Create replace a file of the same name.
WriteFile(kind) == reports' = Put(reports, <<kind, orch.stamp>>, Report)

WriteJSON == /\ At("run", "json") /\ WriteFile("json")
             /\ orch' = [orch EXCEPT !.pc = "csv"]
             /\ UNCHANGED <<runVars, blob, manifest, proofs, proofsSeed, printed, clock, commands>>

\* The error of the deferred Flush is lost: the file may be cut off unnoticed.
WriteCSV == /\ At("run", "csv")
            /\ WriteFile("csv") \/ reports' = Put(reports, <<"csv", orch.stamp>>, CutOff)
            /\ orch' = [orch EXCEPT !.pc = "md"]
            /\ UNCHANGED <<runVars, blob, manifest, proofs, proofsSeed, printed, clock, commands>>

\* The markdown file refers to the two others; then the command prints the verdict.
WriteMarkdown ==
    /\ At("run", "md") /\ WriteFile("md")
    /\ Exit([what |-> "report", stamp |-> orch.stamp, report |-> Report])
    /\ UNCHANGED <<blob, manifest, proofs, proofsSeed, clock, commands>>

\* Killed, or unable to write a report file.
RunFails ==
    /\ orch.mode = "run"
    /\ reports' \in {reports} \cup
         IF orch.pc = "run" THEN {} ELSE {Put(reports, <<orch.pc, orch.stamp>>, CutOff)}
    /\ Exit(Nothing)
    /\ UNCHANGED <<blob, manifest, proofs, proofsSeed, clock, commands>>

-----------------------------------------------------------------------------
Next == \/ \E c \in Configs : Generate(c) \/ StartRun(c)
        \/ GenBlock \/ GenManifest \/ GenCreateProofs \/ GenProofs \/ GenFails
        \/ RunBlock \/ RunReport \/ WriteJSON \/ WriteCSV \/ WriteMarkdown \/ RunFails
        \/ Tick

Spec == Init /\ [][Next]_vars

-----------------------------------------------------------------------------
(* Properties *)

(***************************************************************************)
(* A proof file never spoils a run of the seed it was made for: whichever  *)
(* generations were killed or failed before, and wherever they stopped,    *)
(* the run either refuses the file or finds or makes the right proof for   *)
(* every block, and rejects only the one that fault injection spoils.      *)
(* Lines of an earlier file, of another seed or a longer run, do not       *)
(* survive.                                                                *)
(***************************************************************************)
DatasetFitsRun ==
    orch.mode = "run" /\ (proofs.exists => proofsSeed = runner.cfg.proofSeed) =>
        \A b \in 0..(TotalBlocks(runner.cfg) - 1) : Spoilt(runner, b) => b = runner.cfg.badProofAt

\* The generator and the runner number blocks alike.
SameNumbering(c) == c.warmup.tps > 0 \/ BlocksForPhase(c, c.warmup) = 0

(***************************************************************************)
(* After generate-datasets has printed its paths, the manifest leads to    *)
(* every block of the blob: the bytes at a block's offset decode to the    *)
(* transactions that a run of the same configuration submits as that       *)
(* block, whatever larger, smaller or unfinished data set was there.       *)
(***************************************************************************)
ManifestFindsBlocks ==
    printed.what = "datasets" =>
        LET c == printed.cfg IN
        /\ \A i \in DOMAIN manifest :
             LET e == manifest[i] IN
             /\ e.block = i - 1
             /\ e.offset + 12 * e.txCount <= Len(blob)
             /\ F!TxsAt(blob, e.offset, e.txCount) =
                  IF SameNumbering(c) THEN TxsOf(c, e.block) ELSE GenerateSyntheticTxs(e.block, e.txCount)
        /\ SameNumbering(c) => Len(manifest) = TotalBlocks(c)

(***************************************************************************)
(* A verdict that the command prints is the one in its JSON and markdown   *)
(* files, with the blocks of that same run, even if a run of the same      *)
(* second has left a whole or unfinished report under the name; and it is  *)
(* "passed" only if no block of the certification phase is missing.        *)
(***************************************************************************)
PrintedIsWritten ==
    printed.what = "report" =>
        /\ \A kind \in {"json", "md"} : reports[<<kind, printed.stamp>>] = printed.report
        /\ reports[<<"csv", printed.stamp>>] \in {printed.report, CutOff}
        /\ printed.report.verdict = "passed" =>
             CertificationBlocks(printed.report.cfg) \subseteq
                 {printed.report.blocks[i].block : i \in DOMAIN printed.report.blocks}
=============================================================================
