------------------------------ MODULE Pipeline ------------------------------
(***************************************************************************)
(* pipeline.py: one analysis after another in one output directory.        *)
(*                                                                         *)
(* Per compile command i the directory keeps ir/ast_i.json and ir/src_i.bc,*)
(* whose compilers' exit statuses nobody looks at, and which an analysis   *)
(* finds there from the one before.  Between and during analyses the user  *)
(* edits the project; an analysis may raise, or its process be killed.     *)
(***************************************************************************)
EXTENDS CommandLine, FiniteSets, LinkGroups

CONSTANTS
  Symbols,    \* the external symbols that a source defines
  Version,    \* versions of a source's text
  Gone,       \* instead of a version: the file is not there
  Projects,   \* the states that the project may be in
  MaxCommands,
  Analyses,     \* how many analyses are made
  MaxFailed     \* how many commands fail to compile in an analysis

(* What a compiler run for an entry sees.                                  *)
Unit == [file : Source, version : Version, defines : SUBSET Macro]

(* programs are the commands whose objects CMake links into an executable, *)
(* of a library those of its members that get pulled in: one has main.     *)
Project == [commands : Seq(Entry), text : [Source -> Version \cup {Gone}],
            programs : SUBSET SUBSET (1..MaxCommands)]

ASSUME SymbolsAssumption == Symbols \in [Source -> SUBSET STRING]
ASSUME VersionAssumption == Gone \notin Version
ASSUME NoneAssumption == None \notin Unit
ASSUME BoundsAssumption == MaxCommands \in Nat /\ Analyses \in Nat /\ MaxFailed \in Nat
ASSUME ProjectsAssumption ==
  /\ Projects \subseteq Project
  /\ \A p \in Projects :
       /\ Len(p.commands) <= MaxCommands
       /\ \A i \in DOMAIN p.commands : NamesMacros(p.commands[i].arguments)
       /\ \A program \in p.programs :
            /\ program \subseteq DOMAIN p.commands
            /\ \E m \in program : \A i \in program :
                 "main" \in Symbols[p.commands[i].file] <=> i = m

VARIABLES
  project,   \* CMakeLists.txt and the sources
  disk,      \* the output directory
  run,       \* where the analysis is, with the locals of its phase
  n,         \* how many analyses have been started
  failed,    \* history: the commands whose compilers failed in this analysis
  edited     \* history: the project was edited since this analysis began

vars == <<project, disk, run, n, failed, edited>>

Index == 1..MaxCommands

(* Each artifact says by which analysis it was written, 0 for no file.     *)
NoFindings == [by |-> 0, config_map |-> [by |-> 0, entries |-> {}],
               ast_mapping |-> [by |-> 0, files |-> {}],
               reachability |-> [by |-> 0, lines |-> {}]]

EmptyDirectory ==
  [compile_commands |-> <<>>, config_map |-> NoFindings.config_map,
   ast |-> [i \in Index |-> None], bc |-> [i \in Index |-> None],
   ast_mapping |-> NoFindings.ast_mapping, reachability |-> NoFindings.reachability,
   report |-> NoFindings, dead_features |-> NoFindings]

NoRun == [at |-> "none", i |-> 1, merged |-> {}, bc_files |-> {}, link_groups |-> {},
          lines |-> {}]

Working == run.at \notin {"none", "done", "error", "clash"}

Init ==
  /\ project \in Projects
  /\ disk = EmptyDirectory
  /\ run = NoRun
  /\ n = 0
  /\ failed = {} /\ edited = FALSE

-----------------------------------------------------------------------------
(* The bound on edits: one from the start of an analysis to the next start.*)
Edit ==
  /\ ~edited
  /\ project' \in Projects
  /\ edited' = TRUE
  /\ UNCHANGED <<disk, run, n, failed>>

(* A new DeadFeaturePipeline for the same output directory.                *)
Start ==
  /\ ~Working /\ n < Analyses
  /\ n' = n + 1
  /\ run' = [NoRun EXCEPT !.at = "phase1"]
  /\ failed' = {} /\ edited' = FALSE
  /\ UNCHANGED <<project, disk>>

(* The process ends: what it had in memory is gone.                        *)
Crash ==
  /\ Working
  /\ run' = NoRun
  /\ UNCHANGED <<project, disk, n, failed, edited>>

(* cmake writes the compile commands, extractor.py the config map.         *)
run_phase1 ==
  /\ run.at = "phase1"
  /\ disk' = [disk EXCEPT !.compile_commands = project.commands,
                          !.config_map = [by |-> n, entries |-> ConfigMap(project.commands)]]
  /\ run' = [run EXCEPT !.at = "phase2"]
  /\ UNCHANGED <<project, n, failed, edited>>

(* A tool whose exit status is looked at fails, or a file cannot be read.  *)
(* cmake may have written the compile commands before the extractor fails. *)
Raise ==
  /\ Working
  /\ run' = [run EXCEPT !.at = "error"]
  /\ \/ UNCHANGED disk
     \/ run.at = "phase1" /\ disk' = [disk EXCEPT !.compile_commands = project.commands]
  /\ UNCHANGED <<project, n, failed, edited>>

-----------------------------------------------------------------------------
entry == disk.compile_commands[run.i]
InLoop(phase) == run.at = phase /\ run.i <= Len(disk.compile_commands)
LoopIsOver(phase) == run.at = phase /\ run.i > Len(disk.compile_commands)

UnitOf(e) ==
  [file |-> e.file, version |-> project.text[e.file], defines |-> parse_entry_flags(e)]

Exists(file) == project.text[file] # Gone

(* A source that does not exist is skipped.                                *)
SkipMissing ==
  /\ InLoop("phase2") \/ InLoop("phase3")
  /\ ~Exists(entry.file)
  /\ run' = [run EXCEPT !.i = @ + 1]
  /\ UNCHANGED <<project, disk, n, failed, edited>>

(* A compiler that does not leave what it should has failed.               *)
NoteFailure(out) ==
  /\ failed' = IF out = UnitOf(entry) THEN failed ELSE failed \cup {run.i}
  /\ Cardinality(failed') <= MaxFailed

(* dict.update of what is merged, keyed by file.                           *)
update(merged, unit) == {u \in merged : u.file # unit.file} \cup {unit}

(* Mutant: whatever ast_*.json lies there is merged.                       *)
MapSource_Glob ==
  /\ InLoop("phase2") /\ Exists(entry.file)
  /\ \E out \in {UnitOf(entry), disk.ast[run.i]} :
       /\ disk' = [disk EXCEPT !.ast[run.i] = out]
       /\ run' = [run EXCEPT !.i = @ + 1,
                             !.merged = {disk'.ast[i] : i \in Index} \ {None}]
       /\ NoteFailure(out)
  /\ UNCHANGED <<project, n, edited>>

(* One turn of the loop in run_phase2: when the compiler fails before the  *)
(* plugin writes, ast_i.json stays as it was, and is merged if it exists.  *)
MapSource ==
  /\ InLoop("phase2") /\ Exists(entry.file)
  /\ \E out \in {UnitOf(entry), disk.ast[run.i]} :
       /\ disk' = [disk EXCEPT !.ast[run.i] = out]
       /\ run' = [run EXCEPT !.i = @ + 1, !.merged = IF out = None THEN @ ELSE update(@, out)]
       /\ NoteFailure(out)
  /\ UNCHANGED <<project, n, edited>>

WriteMapping ==
  /\ LoopIsOver("phase2")
  /\ disk' = [disk EXCEPT !.ast_mapping = [by |-> n, files |-> run.merged]]
  /\ run' = [run EXCEPT !.at = "phase3", !.i = 1]
  /\ UNCHANGED <<project, n, failed, edited>>

(* Mutant: src_i.bc is listed whether it exists or not.                    *)
CompileSource_Unchecked ==
  /\ InLoop("phase3") /\ Exists(entry.file)
  /\ \E out \in {UnitOf(entry), disk.bc[run.i], None} :
       /\ disk' = [disk EXCEPT !.bc[run.i] = out]
       /\ run' = [run EXCEPT !.i = @ + 1, !.bc_files = @ \cup {run.i}]
       /\ NoteFailure(out)
  /\ UNCHANGED <<project, n, edited>>

(* One turn of the loop in run_phase3: a compiler that fails leaves        *)
(* src_i.bc as it was or removes it.                                       *)
CompileSource ==
  /\ InLoop("phase3") /\ Exists(entry.file)
  /\ \E out \in {UnitOf(entry), disk.bc[run.i], None} :
       /\ disk' = [disk EXCEPT !.bc[run.i] = out]
       /\ run' = [run EXCEPT !.i = @ + 1,
                             !.bc_files = IF out = None THEN @ ELSE @ \cup {run.i}]
       /\ NoteFailure(out)
  /\ UNCHANGED <<project, n, edited>>

symbols == [i \in run.bc_files |-> Symbols[disk.bc[i].file]]

(* The bitcode files are sorted into programs; without any, it raises.     *)
GroupPrograms ==
  /\ LoopIsOver("phase3")
  /\ run' = IF run.bc_files = {} THEN [run EXCEPT !.at = "error"]
            ELSE [run EXCEPT !.at = "link", !.link_groups = link_groups(symbols, run.bc_files)]
  /\ UNCHANGED <<project, disk, n, failed, edited>>

(* The reachable lines of a unit in a program, which has at most one main. *)
LinesIn(group) ==
  {disk.bc[i] : i \in group} \X {{disk.bc[m] : m \in main_bcs(symbols, group)}}

(* Mutant: a file's lines in this program replace those in the ones before.*)
LinkAndAnalyze_Replace ==
  /\ run.at = "link"
  /\ \E group \in run.link_groups :
       run' = IF ~Links(symbols, group) THEN [run EXCEPT !.at = "clash"]
              ELSE [run EXCEPT !.link_groups = @ \ {group},
                               !.lines = {l \in @ : \A i \in group : disk.bc[i].file # l[1].file}
                                            \cup LinesIn(group)]
  /\ UNCHANGED <<project, disk, n, failed, edited>>

(* Mutant: the exit status of llvm-link is not looked at either.           *)
LinkAndAnalyze_GoesOn ==
  /\ run.at = "link"
  /\ \E group \in run.link_groups :
       run' = IF ~Links(symbols, group) THEN [run EXCEPT !.at = "report"]
              ELSE [run EXCEPT !.link_groups = @ \ {group}, !.lines = @ \cup LinesIn(group)]
  /\ UNCHANGED <<project, disk, n, failed, edited>>

(* llvm-link, the pass on the program it makes, and the union-merge.       *)
LinkAndAnalyze ==
  /\ run.at = "link"
  /\ \E group \in run.link_groups :
       run' = IF ~Links(symbols, group) THEN [run EXCEPT !.at = "clash"]
              ELSE [run EXCEPT !.link_groups = @ \ {group}, !.lines = @ \cup LinesIn(group)]
  /\ UNCHANGED <<project, disk, n, failed, edited>>

WriteReachability ==
  /\ run.at = "link" /\ run.link_groups = {}
  /\ disk' = [disk EXCEPT !.reachability = [by |-> n, lines |-> run.lines]]
  /\ run' = [run EXCEPT !.at = "report"]
  /\ UNCHANGED <<project, n, failed, edited>>

-----------------------------------------------------------------------------
Findings == [by |-> n, config_map |-> disk.config_map, ast_mapping |-> disk.ast_mapping,
             reachability |-> disk.reachability]

(* Mutant: the findings are written first.                                 *)
WriteReport_Second ==
  /\ run.at \in {"report", "findings"}
  /\ IF run.at = "report" THEN disk' = [disk EXCEPT !.dead_features = Findings]
     ELSE disk' = [disk EXCEPT !.report = Findings, !.dead_features = Findings]
  /\ run' = [run EXCEPT !.at = "findings"]
  /\ UNCHANGED <<project, n, failed, edited>>

(* correlator.py reads the three artifacts and writes the report, ...      *)
WriteReport ==
  /\ run.at = "report"
  /\ disk' = [disk EXCEPT !.report = Findings]
  /\ run' = [run EXCEPT !.at = "findings"]
  /\ UNCHANGED <<project, n, failed, edited>>

(* ... then the findings.                                                  *)
WriteFindings ==
  /\ run.at = "findings"
  /\ disk' = [disk EXCEPT !.dead_features = Findings]
  /\ run' = [run EXCEPT !.at = "done"]
  /\ UNCHANGED <<project, n, failed, edited>>

Step ==
  \/ run_phase1 \/ SkipMissing \/ MapSource \/ WriteMapping \/ CompileSource
  \/ GroupPrograms \/ LinkAndAnalyze \/ WriteReachability \/ WriteReport \/ WriteFindings

Next == Edit \/ Start \/ Crash \/ Raise \/ Step

Spec == Init /\ [][Next]_vars
-----------------------------------------------------------------------------
ConfigMapFile    == [by : Nat, entries : SUBSET [target : Target \cup ({"unknown"} \X Source),
                                                 source : Source, defines : SUBSET Macro]]
AstMappingFile   == [by : Nat, files : SUBSET Unit]
ReachabilityFile == [by : Nat, lines : SUBSET (Unit \X SUBSET Unit)]
FindingsFile     == [by : Nat, config_map : ConfigMapFile, ast_mapping : AstMappingFile,
                     reachability : ReachabilityFile]

(* Types of the project, the directory and the analysis; bc_files names    *)
(* files that exist, and no more than there are commands.                  *)
TypeOK ==
  /\ project \in Projects
  /\ disk.compile_commands \in Seq(Entry) /\ Len(disk.compile_commands) <= MaxCommands
  /\ disk.config_map \in ConfigMapFile
  /\ disk.ast \in [Index -> Unit \cup {None}] /\ disk.bc \in [Index -> Unit \cup {None}]
  /\ disk.ast_mapping \in AstMappingFile /\ disk.reachability \in ReachabilityFile
  /\ disk.report \in FindingsFile /\ disk.dead_features \in FindingsFile
  /\ run.at \in {"none", "phase1", "phase2", "phase3", "link", "report", "findings", "done",
                 "error", "clash"}
  /\ run.i \in 1..MaxCommands + 1
  /\ run.merged \subseteq Unit /\ run.lines \subseteq Unit \X SUBSET Unit
  /\ \A i \in run.bc_files : i \in Index /\ disk.bc[i] # None
  /\ run.link_groups \subseteq SUBSET run.bc_files
  /\ n \in 0..Analyses
  /\ failed \subseteq Index /\ edited \in BOOLEAN

PresentUnits ==
  {UnitOf(e) : e \in {project.commands[i] : i \in {j \in DOMAIN project.commands :
                                                     Exists(project.commands[j].file)}}}

(* Left-overs do no harm: although ast_i.json and src_i.bc of other texts, *)
(* other flags and other files lie in the directory, the findings of an    *)
(* analysis come from the sources as they are, if no compiler failed.  In  *)
(* an empty directory that holds of failing compilers too.                 *)
FindingsOfThisProject ==
  run.at = "done" /\ ~edited /\ (failed = {} \/ n = 1) =>
    /\ disk.dead_features.ast_mapping.files \subseteq PresentUnits
    /\ \A l \in disk.dead_features.reachability.lines : {l[1]} \cup l[2] \subseteq PresentUnits

(* Nothing is forgotten: the last command of each source says what is      *)
(* mapped of it, and for each executable of the build the lines its parts  *)
(* have live in it are in the union over all programs.                     *)
ProgramUnits(p) == {UnitOf(project.commands[i]) : i \in p}
MainOf(p) == {u \in ProgramUnits(p) : "main" \in Symbols[u.file]}

NothingForgotten ==
  run.at = "done" /\ ~edited /\ failed = {} =>
    /\ \A i \in DOMAIN project.commands :
         LET e == project.commands[i] IN
         /\ Exists(e.file)
         /\ \A j \in i+1..Len(project.commands) : project.commands[j].file # e.file
         => UnitOf(e) \in disk.dead_features.ast_mapping.files
    /\ \A p \in project.programs :
         (\A i \in p : Exists(project.commands[i].file)) =>
           ProgramUnits(p) \X {MainOf(p)} \subseteq disk.dead_features.reachability.lines

(* A report, even one next to newer artifacts after a failure or a crash,  *)
(* joins three artifacts of one and the same analysis, its own.            *)
ReportOfOneAnalysis ==
  \A f \in {disk.report, disk.dead_features} :
    f.config_map.by = f.by /\ f.ast_mapping.by = f.by /\ f.reachability.by = f.by

(* No artifact is newer than one it is made after: what a crash or a       *)
(* failure leaves is a new beginning and an old end, and the report is     *)
(* never older than the findings shown with it.                            *)
ArtifactsInOrder ==
  /\ disk.dead_features.by <= disk.report.by
  /\ disk.report.by <= disk.reachability.by
  /\ disk.reachability.by <= disk.ast_mapping.by
  /\ disk.ast_mapping.by <= disk.config_map.by
  /\ disk.config_map.by <= n

(* The two readers of the compile commands agree: Phase 4 judges a file's  *)
(* conditionals by the macros they were mapped with, -U or not, unless the *)
(* command says /D.                                                        *)
PhasesAgreeOnMacros ==
  run.at = "done" /\ ~edited /\ failed = {} =>
    \A u \in disk.dead_features.ast_mapping.files :
      (\A i \in DOMAIN project.commands : \A a \in DOMAIN project.commands[i].arguments :
         project.commands[i].arguments[a].opt # "/D") =>
      \E e \in disk.dead_features.config_map.entries :
        e.source = u.file /\ e.defines = u.defines
=============================================================================
