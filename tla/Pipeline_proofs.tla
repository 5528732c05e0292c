-------------------------- MODULE Pipeline_proofs ---------------------------
(***************************************************************************)
(* Proofs about Pipeline for any projects, any number of commands, of      *)
(* analyses and of compilers that fail.                                    *)
(***************************************************************************)
EXTENDS Pipeline, WellFoundedInduction, TLAPS

(* The shape of the directory and of the analysis, as far as the steps     *)
(* rely on it.                                                             *)
DiskFields == {"compile_commands", "config_map", "ast", "bc", "ast_mapping", "reachability",
               "report", "dead_features"}
RunFields  == {"at", "i", "merged", "bc_files", "link_groups", "lines"}

Shapes ==
  /\ DOMAIN disk = DiskFields /\ DOMAIN run = RunFields
  /\ DOMAIN disk.ast = Index /\ DOMAIN disk.bc = Index
  /\ project \in Projects
  /\ disk.compile_commands \in Seq(Entry) /\ Len(disk.compile_commands) <= MaxCommands
  /\ run.i \in Nat \ {0}
  /\ n \in Nat

Numbered ==
  /\ disk.config_map.by \in Nat /\ disk.ast_mapping.by \in Nat /\ disk.reachability.by \in Nat
  /\ disk.report.by \in Nat /\ disk.dead_features.by \in Nat

(* What the analysis has written itself, by the phase it is in.            *)
After1 == {"phase2", "phase3", "link", "report", "findings"}
After2 == After1 \ {"phase2"}
After3 == {"report", "findings"}

OwnArtifacts ==
  /\ run.at \in After1 => disk.config_map.by = n
  /\ run.at \in After2 => disk.ast_mapping.by = n
  /\ run.at \in After3 => disk.reachability.by = n
  /\ run.at = "findings" => disk.report.by = n

IInv == Shapes /\ Numbered /\ OwnArtifacts /\ ReportOfOneAnalysis /\ ArtifactsInOrder

LEMMA InitIInv == Init => IInv
BY BoundsAssumption, ProjectsAssumption
DEF Init, IInv, Shapes, Numbered, OwnArtifacts, ReportOfOneAnalysis, ArtifactsInOrder,
    EmptyDirectory, NoFindings, NoRun, DiskFields, RunFields, After1, After2, After3, Index

LEMMA NextIInv == IInv /\ [Next]_vars => IInv'
<1> SUFFICES ASSUME IInv, [Next]_vars PROVE IInv'
  OBVIOUS
<1> USE DEF IInv, Shapes, Numbered, OwnArtifacts, ReportOfOneAnalysis, ArtifactsInOrder,
            DiskFields, RunFields, After1, After2, After3
<1>1. CASE Edit
  BY <1>1 DEF Edit
<1>2. CASE Start
  BY <1>2 DEF Start, NoRun
<1>3. CASE Crash
  BY <1>3 DEF Crash, NoRun
<1>4. CASE Raise
  <2>1. project.commands \in Seq(Entry) /\ Len(project.commands) <= MaxCommands
    BY ProjectsAssumption DEF Project
  <2> QED
    BY <1>4, <2>1 DEF Raise
<1>5. CASE run_phase1
  <2>1. project.commands \in Seq(Entry) /\ Len(project.commands) <= MaxCommands
    BY ProjectsAssumption DEF Project
  <2> QED
    BY <1>5, <2>1 DEF run_phase1
<1>6. CASE SkipMissing
  BY <1>6 DEF SkipMissing, InLoop
<1>7. CASE MapSource
  BY <1>7 DEF MapSource, InLoop
<1>8. CASE WriteMapping
  BY <1>8 DEF WriteMapping, LoopIsOver
<1>9. CASE CompileSource
  BY <1>9 DEF CompileSource, InLoop
<1>10. CASE GroupPrograms
  BY <1>10 DEF GroupPrograms, LoopIsOver
<1>11. CASE LinkAndAnalyze
  BY <1>11 DEF LinkAndAnalyze
<1>12. CASE WriteReachability
  BY <1>12 DEF WriteReachability
<1>13. CASE WriteReport
  BY <1>13 DEF WriteReport, Findings
<1>14. CASE WriteFindings
  BY <1>14 DEF WriteFindings, Findings
<1>15. CASE UNCHANGED vars
  BY <1>15 DEF vars
<1> QED
  BY <1>1, <1>2, <1>3, <1>4, <1>5, <1>6, <1>7, <1>8, <1>9, <1>10, <1>11, <1>12, <1>13, <1>14,
     <1>15 DEF Next, Step

LEMMA Inductive == Spec => []IInv
BY InitIInv, NextIInv, PTL DEF Spec

(* pipeline.py: whatever fails or is killed, no report joins artifacts of  *)
(* two analyses.                                                           *)
THEOREM ReportsAreOfOneAnalysis == Spec => []ReportOfOneAnalysis
BY Inductive, PTL DEF IInv

(* pipeline.py: an artifact is never newer than what it is made from.      *)
THEOREM ArtifactsStayInOrder == Spec => []ArtifactsInOrder
BY Inductive, PTL DEF IInv

-----------------------------------------------------------------------------
(* Left-overs.  An analysis is undisturbed while the sources stay as they  *)
(* are and either no compiler has failed or the directory was empty.       *)
Undisturbed == ~edited /\ (failed = {} \/ n = 1)

Present(units)   == units \subseteq PresentUnits
LinesPresent(ls) == \A l \in ls : {l[1]} \cup l[2] \subseteq PresentUnits

(* The commands are those of the project.                                  *)
CommandsCurrent ==
  ~edited /\ run.at \in After1 => disk.compile_commands = project.commands

(* A loop has listed what it has come by; before it, nothing.              *)
Listed ==
  /\ run.at = "phase1" => run.i = 1
  /\ run.at \in {"phase1", "phase2"} => run.bc_files = {}
  /\ run.at = "phase1" => run.merged = {}
  /\ run.at \in {"phase1", "phase2", "phase3"} => run.lines = {}
  /\ run.at = "phase3" => run.bc_files \subseteq 1..run.i - 1
  /\ run.at \in {"phase3", "link"} => run.bc_files \subseteq Index
  /\ run.at = "link" => run.link_groups \subseteq SUBSET run.bc_files

(* In a directory that was empty all files come from this analysis.        *)
FirstFiles ==
  /\ n = 0 => /\ run = NoRun
              /\ \A i \in Index : disk.ast[i] = None /\ disk.bc[i] = None
  /\ n = 1 /\ ~edited =>
       \A i \in Index : Present({disk.ast[i], disk.bc[i]} \ {None})

(* What each phase has made so far is of this project.                     *)
MadeOfThisProject ==
  Undisturbed =>
    /\ run.at = "phase2" => Present(run.merged)
    /\ run.at \in After2 => Present(disk.ast_mapping.files)
    /\ run.at \in {"phase3", "link"} => \A i \in run.bc_files : disk.bc[i] \in PresentUnits
    /\ run.at = "link" => LinesPresent(run.lines)
    /\ run.at \in After3 => LinesPresent(disk.reachability.lines)

LInv == CommandsCurrent /\ Listed /\ FirstFiles /\ MadeOfThisProject /\ FindingsOfThisProject

LEMMA InitLInv == Init => LInv
BY DEF Init, LInv, CommandsCurrent, Listed, FirstFiles, MadeOfThisProject, FindingsOfThisProject,
       EmptyDirectory, NoRun, After1, After2, After3, Present

(* The programs are made of the bitcode files that are listed.             *)
LEMMA GroupsAreOfFiles ==
  ASSUME NEW sym, NEW bcs
  PROVE  /\ link_groups(sym, bcs) \subseteq SUBSET bcs
         /\ \A group \in SUBSET bcs : main_bcs(sym, group) \subseteq group
BY DEF link_groups, main_bcs, lib_bcs

(* The unit that is compiled for an entry is one of the project's.         *)
LEMMA EntryIsPresent ==
  ASSUME Shapes, CommandsCurrent, ~edited,
         InLoop("phase2") \/ InLoop("phase3"), Exists(entry.file)
  PROVE  UnitOf(entry) \in PresentUnits /\ run.i \in Index
<1>1. run.at \in After1
  BY DEF InLoop, After1
<1>2. disk.compile_commands = project.commands /\ run.i \in DOMAIN project.commands
  BY <1>1 DEF CommandsCurrent, InLoop, Shapes
<1>3. run.i \in Index
  BY BoundsAssumption DEF InLoop, Shapes, Index
<1> QED
  BY <1>2, <1>3 DEF PresentUnits, entry

LEMMA NextLInv == IInv /\ LInv /\ [Next]_vars => LInv'
<1> SUFFICES ASSUME IInv, LInv, [Next]_vars PROVE LInv'
  OBVIOUS
<1>0. Shapes /\ Shapes'
  BY NextIInv DEF IInv
<1> DEFINE Same == UNCHANGED project
<1>s. Same => PresentUnits' = PresentUnits
  BY DEF PresentUnits, UnitOf, Exists
<1> HIDE DEF Same
<1> USE DEF LInv, CommandsCurrent, Listed, FirstFiles, MadeOfThisProject, FindingsOfThisProject,
            Undisturbed, Present, LinesPresent, After1, After2, After3
<1>1. CASE Edit
  BY <1>0, <1>1 DEF Edit
<1>2. CASE Start
  BY <1>0, <1>2, <1>s DEF Start, NoRun, Same, Shapes, RunFields
<1>3. CASE Crash
  BY <1>0, <1>3, <1>s DEF Crash, NoRun, Same, Working
<1>4. CASE Raise
  <2>1. n # 0
    BY <1>4 DEF Raise, Working, NoRun
  <2>2. /\ run'.at = "error" /\ disk'.ast = disk.ast /\ disk'.bc = disk.bc
        /\ UNCHANGED <<project, n, edited>>
    BY <1>0, <1>4 DEF Raise, Shapes, RunFields, DiskFields
  <2> QED
    BY <2>1, <2>2, <1>s DEF Same
<1>5. CASE run_phase1
  BY <1>0, <1>5, <1>s DEF run_phase1, Same, Shapes, RunFields, DiskFields, NoRun
<1>6. CASE SkipMissing
  BY <1>0, <1>6, <1>s DEF SkipMissing, InLoop, Same, Shapes, RunFields, DiskFields, NoRun
<1>7. CASE MapSource
  <2> PICK out \in {UnitOf(entry), disk.ast[run.i]} :
        /\ disk' = [disk EXCEPT !.ast[run.i] = out]
        /\ run' = [run EXCEPT !.i = @ + 1, !.merged = IF out = None THEN @ ELSE update(@, out)]
        /\ NoteFailure(out)
    BY <1>7 DEF MapSource
  <2>1. ~edited => UnitOf(entry) \in PresentUnits /\ run.i \in Index
    BY <1>0, <1>7, EntryIsPresent DEF MapSource
  <2>2. Undisturbed' => Undisturbed /\ Present({out} \ {None})
    BY <1>7, <2>1 DEF MapSource, NoteFailure
  <2>3. n # 0 /\ run.at = "phase2" /\ Same
    BY <1>7 DEF MapSource, InLoop, NoRun, Same
  <2>4. /\ run'.at = "phase2" /\ run'.bc_files = run.bc_files /\ run'.lines = run.lines
        /\ run'.merged = IF out = None THEN run.merged ELSE update(run.merged, out)
        /\ disk'.compile_commands = disk.compile_commands /\ disk'.bc = disk.bc
        /\ disk'.ast = [disk.ast EXCEPT ![run.i] = out]
        /\ UNCHANGED <<n, edited>>
    BY <1>0, <1>7, <2>3 DEF MapSource, Shapes, RunFields, DiskFields
  <2>5. FirstFiles'
    <3> SUFFICES ASSUME n' = 1, ~edited', NEW i \in Index
                 PROVE  {disk'.ast[i], disk'.bc[i]} \ {None} \subseteq PresentUnits'
      BY <2>3, <2>4
    <3>1. Undisturbed /\ Undisturbed'
      BY <2>4
    <3> QED
      BY <1>0, <1>s, <2>1, <2>2, <2>3, <2>4, <3>1 DEF Shapes
  <2>6. MadeOfThisProject'
    BY <1>s, <2>2, <2>3, <2>4 DEF update
  <2> QED
    BY <1>s, <2>3, <2>4, <2>5, <2>6 DEF Same
<1>8. CASE WriteMapping
  BY <1>0, <1>8, <1>s DEF WriteMapping, LoopIsOver, Same, Shapes, RunFields, DiskFields, NoRun
<1>9. CASE CompileSource
  <2> PICK out \in {UnitOf(entry), disk.bc[run.i], None} :
        /\ disk' = [disk EXCEPT !.bc[run.i] = out]
        /\ run' = [run EXCEPT !.i = @ + 1,
                              !.bc_files = IF out = None THEN @ ELSE @ \cup {run.i}]
        /\ NoteFailure(out)
    BY <1>9 DEF CompileSource
  <2>1. run.i \in Index
    BY <1>0, <1>9, BoundsAssumption DEF CompileSource, InLoop, Shapes, Index
  <2>2. ~edited => UnitOf(entry) \in PresentUnits
    BY <1>0, <1>9, EntryIsPresent DEF CompileSource
  <2>3. Undisturbed' => Undisturbed /\ Present({out} \ {None})
    BY <1>9, <2>1, <2>2 DEF CompileSource, NoteFailure
  <2>4. n # 0 /\ run.at = "phase3" /\ Same
    BY <1>9 DEF CompileSource, InLoop, NoRun, Same
  <2>5. /\ run'.at = "phase3" /\ run'.i = run.i + 1 /\ run'.lines = run.lines
        /\ run'.bc_files = IF out = None THEN run.bc_files ELSE run.bc_files \cup {run.i}
        /\ disk'.compile_commands = disk.compile_commands /\ disk'.ast = disk.ast
        /\ disk'.ast_mapping = disk.ast_mapping
        /\ disk'.bc = [disk.bc EXCEPT ![run.i] = out]
        /\ UNCHANGED <<n, edited>>
    BY <1>0, <1>9, <2>4 DEF CompileSource, Shapes, RunFields, DiskFields
  <2>6. FirstFiles'
    <3> SUFFICES ASSUME n' = 1, ~edited', NEW i \in Index
                 PROVE  {disk'.ast[i], disk'.bc[i]} \ {None} \subseteq PresentUnits'
      BY <2>4, <2>5
    <3>1. Undisturbed /\ Undisturbed'
      BY <2>5
    <3> QED
      BY <1>0, <1>s, <2>1, <2>3, <2>4, <2>5, <3>1 DEF Shapes
  <2>7. Listed'
    BY <1>0, <2>1, <2>4, <2>5 DEF Shapes, Index
  <2>8. MadeOfThisProject'
    <3> SUFFICES ASSUME Undisturbed'
                 PROVE  \A i \in run'.bc_files : disk'.bc[i] \in PresentUnits
      BY <1>s, <2>3, <2>4, <2>5
    <3> TAKE i \in run'.bc_files
    <3>1. CASE i = run.i
      <4>1. out # None
        BY <1>0, <2>4, <2>5, <3>1 DEF Shapes
      <4> QED
        BY <1>0, <2>1, <2>3, <2>5, <3>1, <4>1 DEF Shapes
    <3>2. CASE i # run.i
      BY <1>0, <2>3, <2>4, <2>5, <3>2 DEF Shapes
    <3> QED
      BY <3>1, <3>2
  <2> QED
    BY <1>s, <2>4, <2>5, <2>6, <2>7, <2>8 DEF Same
<1>10. CASE GroupPrograms
  <2>1. link_groups(symbols, run.bc_files) \subseteq SUBSET run.bc_files
    BY GroupsAreOfFiles
  <2> QED
    BY <1>0, <1>10, <1>s, <2>1
    DEF GroupPrograms, LoopIsOver, Same, Shapes, RunFields, DiskFields, NoRun
<1>11. CASE LinkAndAnalyze
  <2> PICK group \in run.link_groups :
        run' = IF ~Links(symbols, group) THEN [run EXCEPT !.at = "clash"]
               ELSE [run EXCEPT !.link_groups = @ \ {group}, !.lines = @ \cup LinesIn(group)]
    BY <1>11 DEF LinkAndAnalyze
  <2>1. group \subseteq run.bc_files /\ main_bcs(symbols, group) \subseteq group
    BY <1>11, GroupsAreOfFiles DEF LinkAndAnalyze
  <2>2. Undisturbed => LinesPresent(LinesIn(group))
    BY <1>11, <2>1 DEF LinkAndAnalyze, LinesIn
  <2> QED
    BY <1>0, <1>11, <1>s, <2>1, <2>2
    DEF LinkAndAnalyze, Same, Shapes, RunFields, DiskFields, NoRun
<1>12. CASE WriteReachability
  BY <1>0, <1>12, <1>s DEF WriteReachability, Same, Shapes, RunFields, DiskFields, NoRun
<1>13. CASE WriteReport
  BY <1>0, <1>13, <1>s DEF WriteReport, Same, Shapes, RunFields, DiskFields, NoRun
<1>14. CASE WriteFindings
  BY <1>0, <1>14, <1>s DEF WriteFindings, Findings, Same, Shapes, RunFields, DiskFields, NoRun
<1>15. CASE UNCHANGED vars
  BY <1>15, <1>s DEF vars, Same
<1> QED
  BY <1>1, <1>2, <1>3, <1>4, <1>5, <1>6, <1>7, <1>8, <1>9, <1>10, <1>11, <1>12, <1>13, <1>14,
     <1>15 DEF Next, Step

(* pipeline.py: nothing that another analysis left in the directory gets   *)
(* into the findings unless a compiler fails or the sources are edited.    *)
THEOREM LeftOversDoNoHarm == Spec => []FindingsOfThisProject
<1>1. Init => IInv /\ LInv
  BY InitIInv, InitLInv
<1>2. IInv /\ LInv /\ [Next]_vars => IInv' /\ LInv'
  BY NextIInv, NextLInv
<1>3. LInv => FindingsOfThisProject
  BY DEF LInv
<1> QED
  BY <1>1, <1>2, <1>3, PTL DEF Spec

-----------------------------------------------------------------------------
(* What the two readers of a command find in it.  They go through the      *)
(* arguments from the last; a least number stands in for an induction.     *)
(* A set of numbers has a least one.                                       *)
LEMMA Least ==
  ASSUME NEW T \in SUBSET Nat, T # {}
  PROVE  \E x \in T : \A y \in T : x <= y
<1>1. PICK x \in T : \A y \in T : ~(<<y, x>> \in OpToRel(<, Nat))
  BY WFMin, NatLessThanWellFounded
<1>2. \A y \in T : ~(y < x)
  BY <1>1 DEF OpToRel
<1>3. \A y \in T : x <= y
  BY <1>2
<1> QED
  BY <1>3

(* A scan from the end of a list: what each place adds, and the place that *)
(* is read after it.                                                       *)
Scan(len, own, next, f) ==
  f = [i \in 1..len + 1 |-> IF i > len THEN {} ELSE own[i] \cup f[next[i]]]

(* There is such a scan, ...                                               *)
LEMMA ScanExists ==
  ASSUME NEW S, NEW len \in Nat,
         NEW own \in [1..len -> SUBSET S], NEW next \in [1..len -> 1..len + 1],
         \A i \in 1..len : i < next[i]
  PROVE  \E f : Scan(len, own, next, f)
<1> DEFINE Upper(k) == (len + 1 - k)..(len + 1)
           Part(k, f) == f = [i \in Upper(k) |-> IF i > len THEN {} ELSE own[i] \cup f[next[i]]]
           T == {k \in 0..len : \A f : ~Part(k, f)}
<1>a. T \in SUBSET Nat /\ \A k : k \in T <=> k \in 0..len /\ \A f : ~Part(k, f)
  <2> HIDE DEF Part
  <2> QED
    OBVIOUS
<1> HIDE DEF T
<1>1. T = {}
  <2> SUFFICES ASSUME T # {} PROVE FALSE
    OBVIOUS
  <2>1. PICK k \in T : \A y \in T : k <= y
    BY <1>a, Least
  <2>a. k \in 0..len /\ \A f : ~Part(k, f)
    BY <1>a
  <2>2. k # 0
    <3> SUFFICES ASSUME k = 0 PROVE FALSE
      OBVIOUS
    <3> DEFINE f == [i \in Upper(0) |-> {}]
    <3>1. f = [i \in Upper(0) |-> IF i > len THEN {} ELSE own[i] \cup f[next[i]]]
      OBVIOUS
    <3> HIDE DEF f
    <3> QED
      BY <3>1, <2>a
  <2>b. k \in 1..len /\ k - 1 \in 0..len /\ ~(k <= k - 1)
    BY <2>2, <2>a
  <2>3. k \in 1..len /\ k - 1 \in 0..len /\ k - 1 \notin T
    BY <2>1, <2>b
  <2>4. PICK f : Part(k - 1, f)
    <3> HIDE DEF Part
    <3> QED
      BY <2>3, <1>a
  <2> DEFINE m == len + 1 - k
             g == [i \in Upper(k) |-> IF i = m THEN own[m] \cup f[next[m]] ELSE f[i]]
  <2>5. m \in 1..len /\ next[m] \in Upper(k - 1)
    BY <2>3
  <2>6. \A i \in Upper(k) : g[i] = IF i > len THEN {} ELSE own[i] \cup g[next[i]]
    <3> TAKE i \in Upper(k)
    <3>1. CASE i = m
      <4>1. g[next[m]] = f[next[m]]
        BY <2>5, <2>3
      <4> QED
        BY <3>1, <4>1, <2>5
    <3>2. CASE i # m
      <4>1. i \in Upper(k - 1) /\ g[i] = f[i]
        BY <2>3, <3>2
      <4>2. f[i] = IF i > len THEN {} ELSE own[i] \cup f[next[i]]
        BY <4>1, <2>4
      <4>3. i <= len => g[next[i]] = f[next[i]]
        <5> SUFFICES ASSUME i <= len PROVE g[next[i]] = f[next[i]]
          OBVIOUS
        <5>1. i \in 1..len /\ m < i
          BY <2>3, <3>2
        <5>2. next[i] \in Upper(k) /\ next[i] # m
          BY <5>1, <2>5, <2>3
        <5> QED
          BY <5>2
      <4>4. i > len \/ i <= len
        BY <2>3
      <4> HIDE DEF g, Upper, m
      <4>5. CASE i > len
        BY <4>1, <4>2, <4>5
      <4>6. CASE ~(i > len)
        <5>1. f[i] = own[i] \cup f[next[i]]
          BY <4>2, <4>6
        <5> QED
          BY <4>1, <4>3, <4>4, <4>6, <5>1
      <4> QED
        BY <4>5, <4>6
    <3> QED
      BY <3>1, <3>2
  <2>7. Part(k, g)
    <3>1. g = [i \in Upper(k) |-> g[i]]
      OBVIOUS
    <3> HIDE DEF g
    <3>2. [i \in Upper(k) |-> g[i]]
            = [i \in Upper(k) |-> IF i > len THEN {} ELSE own[i] \cup g[next[i]]]
      BY <2>6
    <3> QED
      BY <3>1, <3>2
  <2> QED
    <3> HIDE DEF Part
    <3> QED
      BY <2>a, <2>7
<1>3. PICK f : Part(len, f)
  <2> HIDE DEF Part
  <2>1. len \in 0..len /\ len \notin T
    BY <1>1
  <2> QED
    BY <2>1, <1>a
<1>4. Upper(len) = 1..len + 1
  OBVIOUS
<1> QED
  BY <1>3, <1>4 DEF Scan

(* ... and what it comes to is made of what the places add.                *)
LEMMA ScanTyped ==
  ASSUME NEW S, NEW len \in Nat,
         NEW own \in [1..len -> SUBSET S], NEW next \in [1..len -> 1..len + 1],
         \A i \in 1..len : i < next[i], NEW f, Scan(len, own, next, f)
  PROVE  f[1] \subseteq S
<1> DEFINE T == {k \in 0..len : ~(f[len + 1 - k] \subseteq S)}
<1>a. T \in SUBSET Nat /\ \A k : k \in T <=> k \in 0..len /\ ~(f[len + 1 - k] \subseteq S)
  OBVIOUS
<1> HIDE DEF T
<1>0. \A i \in 1..len + 1 : f[i] = IF i > len THEN {} ELSE own[i] \cup f[next[i]]
  BY DEF Scan
<1>1. T = {}
  <2> SUFFICES ASSUME T # {} PROVE FALSE
    OBVIOUS
  <2>1. PICK k \in T : \A y \in T : k <= y
    BY <1>a, Least
  <2> DEFINE m == len + 1 - k
  <2>2. m \in 1..len + 1 /\ ~(f[m] \subseteq S)
    <3>1. k \in 0..len /\ ~(f[m] \subseteq S)
      BY <1>a
    <3>2. m \in 1..len + 1
      BY <3>1
    <3> QED
      BY <3>1, <3>2
  <2>3. m \in 1..len /\ f[m] = own[m] \cup f[next[m]]
    <3> HIDE DEF m
    <3>1. f[m] = IF m > len THEN {} ELSE own[m] \cup f[next[m]]
      BY <2>2, <1>0
    <3>2. m > len => f[m] \subseteq S
      BY <3>1
    <3> QED
      BY <2>2, <3>1, <3>2
  <2>4. next[m] \in 1..len + 1 /\ m < next[m] /\ own[m] \subseteq S
    <3> HIDE DEF m
    <3> QED
      BY <2>3
  <2> DEFINE j == len + 1 - next[m]
  <2>5. j \in 0..len /\ j < k /\ len + 1 - j = next[m]
    <3>1. PICK x \in 1..len + 1 : x = next[m] /\ m < x
      BY <2>4
    <3>2. k \in 0..len
      BY <1>a
    <3>3. len + 1 - x \in 0..len /\ len + 1 - x < k /\ len + 1 - (len + 1 - x) = x
      BY <3>1, <3>2
    <3> QED
      BY <3>1, <3>3
  <2>6. f[next[m]] \subseteq S
    <3>1. j \notin T
      BY <1>a, <2>1, <2>5
    <3> QED
      BY <1>a, <2>5, <3>1
  <2> QED
    BY <2>2, <2>3, <2>4, <2>6
<1>2. len \in 0..len /\ len + 1 - len = 1
  OBVIOUS
<1> QED
  BY <1>1, <1>2, <1>a

(* The two scans of a command's arguments, as one.                         *)
Opens(args, opts, i) == args[i].opt \in opts
OwnAt(args, opts, i) ==
  IF ~Opens(args, opts, i) THEN {}
  ELSE IF Alone(args, i) THEN {args[i + 1].arg} ELSE {args[i].arg}
NextAt(args, opts, i) == IF Opens(args, opts, i) /\ Alone(args, i) THEN i + 2 ELSE i + 1

DefineScan(args, opts, f) ==
  Scan(Len(args), [i \in 1..Len(args) |-> OwnAt(args, opts, i)],
       [i \in 1..Len(args) |-> NextAt(args, opts, i)], f)

Defined(args, opts) == (CHOOSE f : DefineScan(args, opts, f))[1]

(* A command that compiles defines macros only.                            *)
LEMMA DefinedAreMacros ==
  ASSUME NEW args \in Seq(Argument), NamesMacros(args), NEW opts \in SUBSET {"-D", "/D"}
  PROVE  Defined(args, opts) \subseteq Macro
<1> DEFINE len  == Len(args)
           own  == [i \in 1..len |-> OwnAt(args, opts, i)]
           next == [i \in 1..len |-> NextAt(args, opts, i)]
<1>1. len \in Nat /\ DOMAIN args = 1..len
  OBVIOUS
<1>2. ASSUME NEW i \in 1..len
      PROVE  OwnAt(args, opts, i) \in SUBSET Macro /\ NextAt(args, opts, i) \in i+1..len + 1
  <2>1. NextAt(args, opts, i) \in i+1..len + 1
    <3>1. \/ NextAt(args, opts, i) = i + 1
          \/ NextAt(args, opts, i) = i + 2 /\ i < len
      BY DEF NextAt, Alone
    <3> HIDE DEF len
    <3> QED
      BY <1>1, <3>1
  <2>2. OwnAt(args, opts, i) \in SUBSET Macro
    BY <1>1, MacroAssumption DEF OwnAt, NamesMacros, Opens, Alone
  <2> QED
    BY <2>1, <2>2
<1>3. own \in [1..len -> SUBSET Macro] /\ next \in [1..len -> 1..len + 1]
      /\ \A i \in 1..len : i < next[i]
  BY <1>1, <1>2
<1> HIDE DEF own, next, len
<1>4. \E f : Scan(len, own, next, f)
  BY <1>1, <1>3, ScanExists
<1>5. Scan(len, own, next, CHOOSE f : Scan(len, own, next, f))
  BY <1>4
<1>6. (CHOOSE f : Scan(len, own, next, f))[1] \subseteq Macro
  BY <1>1, <1>3, <1>5, ScanTyped
<1> QED
  BY <1>6 DEF Defined, DefineScan, own, next, len

(* extract_defines is the scan for -D and /D, ...                          *)
LEMMA ExtractedAreDefined ==
  ASSUME NEW args \in Seq(Argument), NamesMacros(args)
  PROVE  extract_defines(args) = Defined(args, {"-D", "/D"})
<1> DEFINE opts == {"-D", "/D"}
           Step1(f) == [i \in 1..Len(args) + 1 |->
                          IF i > Len(args) THEN {}
                          ELSE IF args[i].opt \notin {"-D", "/D"} THEN f[i + 1]
                          ELSE IF Alone(args, i) THEN ({args[i + 1].arg} \ {""}) \cup f[i + 2]
                          ELSE ({args[i].arg} \ {""}) \cup f[i + 1]]
           own  == [i \in 1..Len(args) |-> OwnAt(args, opts, i)]
           next == [i \in 1..Len(args) |-> NextAt(args, opts, i)]
           Step2(f) == [i \in 1..Len(args) + 1 |->
                          IF i > Len(args) THEN {} ELSE own[i] \cup f[next[i]]]
<1>1. extract_defines(args) = (CHOOSE f : f = Step1(f))[1]
  BY DEF extract_defines
<1>2. Defined(args, opts) = (CHOOSE f : f = Step2(f))[1]
  BY DEF Defined, DefineScan, Scan
<1>3. ASSUME NEW f PROVE Step1(f) = Step2(f)
  <2>0. Len(args) \in Nat /\ DOMAIN args = 1..Len(args)
    OBVIOUS
  <2>1. ASSUME NEW i \in 1..Len(args) + 1 PROVE Step1(f)[i] = Step2(f)[i]
    <3>1. CASE i > Len(args)
      BY <3>1
    <3>2. CASE i <= Len(args)
      <4>1. i \in 1..Len(args) /\ i \in DOMAIN args /\ ~(i > Len(args))
        BY <3>2
      <4>2. own[i] = OwnAt(args, opts, i) /\ next[i] = NextAt(args, opts, i)
        BY <4>1
      <4>3. Step2(f)[i] = OwnAt(args, opts, i) \cup f[NextAt(args, opts, i)]
        BY <4>1, <4>2
      <4>4. CASE ~Opens(args, opts, i)
        <5>1. Step1(f)[i] = f[i + 1]
          BY <4>1, <4>4 DEF Opens
        <5>2. OwnAt(args, opts, i) = {} /\ NextAt(args, opts, i) = i + 1
          BY <4>4 DEF OwnAt, NextAt
        <5> QED
          BY <5>1, <5>2, <4>3
      <4>5. CASE Opens(args, opts, i) /\ Alone(args, i)
        <5>1. Step1(f)[i] = ({args[i + 1].arg} \ {""}) \cup f[i + 2]
          BY <4>1, <4>5 DEF Opens
        <5>2. OwnAt(args, opts, i) = {args[i + 1].arg} /\ NextAt(args, opts, i) = i + 2
          BY <4>5 DEF OwnAt, NextAt
        <5>3. args[i + 1].arg # ""
          BY <4>1, <4>5, MacroAssumption DEF Opens, NamesMacros, Alone
        <5>4. {args[i + 1].arg} \ {""} = {args[i + 1].arg}
          BY <5>3
        <5> QED
          BY <5>1, <5>2, <5>4, <4>3
      <4>6. CASE Opens(args, opts, i) /\ ~Alone(args, i)
        <5>1. Step1(f)[i] = ({args[i].arg} \ {""}) \cup f[i + 1]
          BY <4>1, <4>6 DEF Opens
        <5>2. OwnAt(args, opts, i) = {args[i].arg} /\ NextAt(args, opts, i) = i + 1
          BY <4>6 DEF OwnAt, NextAt
        <5>3. args[i].arg # ""
          BY <4>1, <4>6, MacroAssumption DEF Opens, NamesMacros
        <5>4. {args[i].arg} \ {""} = {args[i].arg}
          BY <5>3
        <5> QED
          BY <5>1, <5>2, <5>4, <4>3
      <4> HIDE DEF Step1, Step2
      <4> QED
        BY <4>4, <4>5, <4>6
    <3> HIDE DEF Step1, Step2
    <3> QED
      BY <3>1, <3>2
  <2>2. /\ Step1(f) = [i \in 1..Len(args) + 1 |-> Step1(f)[i]]
        /\ Step2(f) = [i \in 1..Len(args) + 1 |-> Step2(f)[i]]
    OBVIOUS
  <2> HIDE DEF Step1, Step2
  <2>3. [i \in 1..Len(args) + 1 |-> Step1(f)[i]] = [i \in 1..Len(args) + 1 |-> Step2(f)[i]]
    BY <2>1
  <2> QED
    BY <2>2, <2>3
<1> HIDE DEF Step1, Step2
<1>4. (CHOOSE f : f = Step1(f)) = (CHOOSE f : f = Step2(f))
  <2>1. \A f : f = Step1(f) <=> f = Step2(f)
    BY <1>3
  <2> QED
    BY <2>1
<1> QED
  BY <1>1, <1>2, <1>4

(* ... parse_entry_flags the one for -D.                                   *)
LEMMA ParsedAreDefined ==
  ASSUME NEW e \in Entry, NamesMacros(e.arguments)
  PROVE  parse_entry_flags(e) = Defined(e.arguments, {"-D"})
<1> DEFINE args == e.arguments
           opts == {"-D"}
           Step1(f) == [i \in 1..Len(args) + 1 |->
                          IF i > Len(args) THEN {}
                          ELSE IF args[i].opt # "-D" THEN f[i + 1]
                          ELSE IF Alone(args, i) THEN {args[i + 1].arg} \cup f[i + 2]
                          ELSE {args[i].arg} \cup f[i + 1]]
           own  == [i \in 1..Len(args) |-> OwnAt(args, opts, i)]
           next == [i \in 1..Len(args) |-> NextAt(args, opts, i)]
           Step2(f) == [i \in 1..Len(args) + 1 |->
                          IF i > Len(args) THEN {} ELSE own[i] \cup f[next[i]]]
<1>0. args \in Seq(Argument)
  BY DEF Entry
<1> HIDE DEF args
<1>1. parse_entry_flags(e) = (CHOOSE f : f = Step1(f))[1]
  BY DEF parse_entry_flags, args
<1>2. Defined(args, opts) = (CHOOSE f : f = Step2(f))[1]
  BY DEF Defined, DefineScan, Scan
<1>3. ASSUME NEW f PROVE Step1(f) = Step2(f)
  <2>0. Len(args) \in Nat /\ DOMAIN args = 1..Len(args)
    BY <1>0
  <2>1. ASSUME NEW i \in 1..Len(args) + 1 PROVE Step1(f)[i] = Step2(f)[i]
    <3>1. CASE i > Len(args)
      BY <3>1
    <3>2. CASE i <= Len(args)
      <4>1. i \in 1..Len(args) /\ i \in DOMAIN args /\ ~(i > Len(args))
        BY <3>2
      <4>2. own[i] = OwnAt(args, opts, i) /\ next[i] = NextAt(args, opts, i)
        BY <4>1
      <4>3. Step2(f)[i] = OwnAt(args, opts, i) \cup f[NextAt(args, opts, i)]
        BY <4>1, <4>2
      <4>4. CASE ~Opens(args, opts, i)
        <5>1. Step1(f)[i] = f[i + 1]
          BY <4>1, <4>4 DEF Opens
        <5>2. OwnAt(args, opts, i) = {} /\ NextAt(args, opts, i) = i + 1
          BY <4>4 DEF OwnAt, NextAt
        <5> QED
          BY <5>1, <5>2, <4>3
      <4>5. CASE Opens(args, opts, i) /\ Alone(args, i)
        <5>1. Step1(f)[i] = {args[i + 1].arg} \cup f[i + 2]
          BY <4>1, <4>5 DEF Opens
        <5>2. OwnAt(args, opts, i) = {args[i + 1].arg} /\ NextAt(args, opts, i) = i + 2
          BY <4>5 DEF OwnAt, NextAt
        <5> QED
          BY <5>1, <5>2, <4>3
      <4>6. CASE Opens(args, opts, i) /\ ~Alone(args, i)
        <5>1. Step1(f)[i] = {args[i].arg} \cup f[i + 1]
          BY <4>1, <4>6 DEF Opens
        <5>2. OwnAt(args, opts, i) = {args[i].arg} /\ NextAt(args, opts, i) = i + 1
          BY <4>6 DEF OwnAt, NextAt
        <5> QED
          BY <5>1, <5>2, <4>3
      <4> HIDE DEF Step1, Step2
      <4> QED
        BY <4>4, <4>5, <4>6
    <3> HIDE DEF Step1, Step2
    <3> QED
      BY <3>1, <3>2
  <2>2. /\ Step1(f) = [i \in 1..Len(args) + 1 |-> Step1(f)[i]]
        /\ Step2(f) = [i \in 1..Len(args) + 1 |-> Step2(f)[i]]
    OBVIOUS
  <2> HIDE DEF Step1, Step2
  <2>3. [i \in 1..Len(args) + 1 |-> Step1(f)[i]] = [i \in 1..Len(args) + 1 |-> Step2(f)[i]]
    BY <2>1
  <2> QED
    BY <2>2, <2>3
<1> HIDE DEF Step1, Step2
<1>4. (CHOOSE f : f = Step1(f)) = (CHOOSE f : f = Step2(f))
  <2>1. \A f : f = Step1(f) <=> f = Step2(f)
    BY <1>3
  <2> QED
    BY <2>1
<1> QED
  BY <1>1, <1>2, <1>4 DEF args

(* Without /D the two are one.                                             *)
LEMMA PhasesReadAlike ==
  ASSUME NEW e \in Entry, NamesMacros(e.arguments),
         \A a \in DOMAIN e.arguments : e.arguments[a].opt # "/D"
  PROVE  extract_defines(e.arguments) = parse_entry_flags(e)
<1> DEFINE args == e.arguments
<1>0. args \in Seq(Argument) /\ DOMAIN args = 1..Len(args)
  BY DEF Entry
<1>1. \A i \in 1..Len(args) : Opens(args, {"-D", "/D"}, i) <=> Opens(args, {"-D"}, i)
  BY <1>0 DEF Opens
<1>2. \A i \in 1..Len(args) : /\ OwnAt(args, {"-D", "/D"}, i) = OwnAt(args, {"-D"}, i)
                             /\ NextAt(args, {"-D", "/D"}, i) = NextAt(args, {"-D"}, i)
  BY <1>1 DEF OwnAt, NextAt
<1>3. Defined(args, {"-D", "/D"}) = Defined(args, {"-D"})
  BY <1>2 DEF Defined, DefineScan
<1> QED
  BY <1>0, <1>3, ExtractedAreDefined, ParsedAreDefined

(* The types of what is read from a command.                               *)
LEMMA DefinesTyped ==
  ASSUME NEW e \in Entry, NamesMacros(e.arguments)
  PROVE  extract_defines(e.arguments) \subseteq Macro /\ parse_entry_flags(e) \subseteq Macro
<1>0. e.arguments \in Seq(Argument)
  BY DEF Entry
<1> QED
  BY <1>0, DefinedAreMacros, ExtractedAreDefined, ParsedAreDefined

LEMMA TargetTyped ==
  ASSUME NEW e \in Entry
  PROVE  infer_target_name(e) \in Target \cup ({"unknown"} \X Source)
<1> DEFINE args == e.arguments
           objects == {i \in DOMAIN args : args[i].opt = "-o" /\ Alone(args, i)
                                             /\ args[i + 1].arg \in Target}
           first == CHOOSE i \in objects : \A j \in objects : i <= j
<1>1. args \in Seq(Argument) /\ objects \in SUBSET Nat
  BY DEF Entry
<1>2. CASE objects # {}
  <2>1. \E i \in objects : \A j \in objects : i <= j
    <3> HIDE DEF objects
    <3> QED
      BY <1>1, <1>2, Least
  <2>2. first \in objects
    <3> HIDE DEF objects
    <3> QED
      BY <2>1
  <2>3. args[first + 1].arg \in Target
    <3> HIDE DEF first
    <3> QED
      BY <2>2
  <2>4. infer_target_name(e) = IF e.output # None THEN e.output ELSE args[first + 1].arg
    BY <1>2 DEF infer_target_name
  <2>5. e.output # None => e.output \in Target
    BY DEF Entry
  <2> HIDE DEF first, args, objects
  <2> QED
    BY <2>3, <2>4, <2>5
<1>3. CASE objects = {}
  BY <1>3 DEF infer_target_name, Entry
<1> QED
  BY <1>2, <1>3

-----------------------------------------------------------------------------
(* Types.                                                                  *)
(* The commands in the directory, too, are such as compile.                *)
TypedCommands ==
  /\ TypeOK
  /\ \A i \in DOMAIN disk.compile_commands : NamesMacros(disk.compile_commands[i].arguments)

(* What the assumption says of a project, and what is made of one.         *)
LEMMA ProjectTyped ==
  ASSUME NEW p \in Projects
  PROVE  /\ p.commands \in Seq(Entry) /\ Len(p.commands) <= MaxCommands
         /\ p.text \in [Source -> Version \cup {Gone}]
         /\ DOMAIN p.commands = 1..Len(p.commands)
         /\ \A i \in DOMAIN p.commands :
              p.commands[i] \in Entry /\ NamesMacros(p.commands[i].arguments)
BY ProjectsAssumption DEF Project

LEMMA UnitTyped ==
  ASSUME NEW e \in Entry, NamesMacros(e.arguments), project \in Projects, Exists(e.file)
  PROVE  UnitOf(e) \in Unit
<1>1. parse_entry_flags(e) \in SUBSET Macro
  BY DefinesTyped
<1>2. e.file \in Source
  BY DEF Entry
<1>3. project.text[e.file] \in Version
  BY <1>2, ProjectTyped DEF Exists
<1> QED
  BY <1>1, <1>2, <1>3 DEF UnitOf, Unit

LEMMA ConfigMapTyped ==
  ASSUME NEW p \in Projects, NEW b \in Nat
  PROVE  [by |-> b, entries |-> ConfigMap(p.commands)] \in ConfigMapFile
<1>1. ASSUME NEW i \in DOMAIN p.commands
      PROVE  /\ infer_target_name(p.commands[i]) \in Target \cup ({"unknown"} \X Source)
             /\ p.commands[i].file \in Source
             /\ extract_defines(p.commands[i].arguments) \in SUBSET Macro
  <2>1. p.commands[i] \in Entry /\ NamesMacros(p.commands[i].arguments)
    BY ProjectTyped
  <2> QED
    BY <2>1, TargetTyped, DefinesTyped DEF Entry
<1> QED
  BY <1>1 DEF ConfigMap, ConfigMapFile

LEMMA OverwriteTyped ==
  ASSUME NEW S, NEW R, NEW f \in [S -> R], NEW i \in S, NEW v \in R
  PROVE  [f EXCEPT ![i] = v] \in [S -> R]
OBVIOUS

LEMMA InitTyped == Init => TypedCommands
<1> SUFFICES ASSUME Init PROVE TypedCommands
  OBVIOUS
<1>1. <<>> \in Seq(Entry) /\ Len(<<>>) = 0 /\ DOMAIN <<>> = {}
  OBVIOUS
<1>2. /\ NoFindings.config_map \in ConfigMapFile /\ NoFindings.ast_mapping \in AstMappingFile
      /\ NoFindings.reachability \in ReachabilityFile
  BY DEF NoFindings, ConfigMapFile, AstMappingFile, ReachabilityFile
<1>3. NoFindings \in FindingsFile
  BY <1>2 DEF NoFindings, FindingsFile
<1>4. [i \in Index |-> None] \in [Index -> Unit \cup {None}]
  OBVIOUS
<1>5. 1 \in 1..MaxCommands + 1 /\ 0 \in 0..Analyses /\ 0 <= MaxCommands
  BY BoundsAssumption
<1>6. /\ disk.compile_commands = <<>> /\ disk.config_map = NoFindings.config_map
      /\ disk.ast = [i \in Index |-> None] /\ disk.bc = [i \in Index |-> None]
      /\ disk.ast_mapping = NoFindings.ast_mapping
      /\ disk.reachability = NoFindings.reachability
      /\ disk.report = NoFindings /\ disk.dead_features = NoFindings
  BY DEF Init, EmptyDirectory
<1>7. /\ run.at = "none" /\ run.i = 1 /\ run.merged = {} /\ run.bc_files = {}
      /\ run.link_groups = {} /\ run.lines = {}
      /\ project \in Projects /\ n = 0 /\ failed = {} /\ edited = FALSE
  BY DEF Init, NoRun
<1>8. /\ disk.ast \in [Index -> Unit \cup {None}]
      /\ disk.bc \in [Index -> Unit \cup {None}]
  BY <1>4, <1>6
<1>9. /\ disk.config_map \in ConfigMapFile /\ disk.ast_mapping \in AstMappingFile
      /\ disk.reachability \in ReachabilityFile
      /\ disk.report \in FindingsFile /\ disk.dead_features \in FindingsFile
  BY <1>2, <1>3, <1>6
<1>10. /\ disk.compile_commands \in Seq(Entry) /\ Len(disk.compile_commands) <= MaxCommands
       /\ DOMAIN disk.compile_commands = {}
  BY <1>1, <1>5, <1>6
<1> QED
  BY <1>5, <1>7, <1>8, <1>9, <1>10 DEF TypedCommands, TypeOK

LEMMA NextTyped == IInv /\ LInv /\ TypedCommands /\ [Next]_vars => TypedCommands'
<1> SUFFICES ASSUME IInv, LInv, TypedCommands, [Next]_vars PROVE TypedCommands'
  OBVIOUS
<1>0. Shapes /\ Listed /\ TypeOK
  BY DEF IInv, LInv, TypedCommands
<1> USE DEF TypedCommands, TypeOK
<1>1. CASE Edit
  BY <1>1 DEF Edit
<1>2. CASE Start
  <2>1. n' \in 0..Analyses /\ 1 \in 1..MaxCommands + 1
    BY <1>0, <1>2, BoundsAssumption DEF Start
  <2> QED
    BY <1>0, <1>2, <2>1 DEF Start, NoRun
<1>3. CASE Crash
  <2>1. 1 \in 1..MaxCommands + 1
    BY BoundsAssumption
  <2> QED
    BY <1>3, <2>1 DEF Crash, NoRun
<1>4. CASE Raise
  <2>1. /\ project.commands \in Seq(Entry) /\ Len(project.commands) <= MaxCommands
        /\ \A i \in DOMAIN project.commands : NamesMacros(project.commands[i].arguments)
    BY ProjectTyped
  <2>2. run' = [run EXCEPT !.at = "error"] /\ UNCHANGED <<project, n, failed, edited>>
    BY <1>4 DEF Raise
  <2>3. disk' = disk \/ disk' = [disk EXCEPT !.compile_commands = project.commands]
    BY <1>4 DEF Raise
  <2> QED
    BY <1>0, <2>1, <2>2, <2>3 DEF Shapes, RunFields, DiskFields
<1>5. CASE run_phase1
  <2>1. /\ project.commands \in Seq(Entry) /\ Len(project.commands) <= MaxCommands
        /\ \A i \in DOMAIN project.commands : NamesMacros(project.commands[i].arguments)
    BY ProjectTyped
  <2>2. [by |-> n, entries |-> ConfigMap(project.commands)] \in ConfigMapFile
    BY <1>0, ConfigMapTyped DEF Shapes
  <2> QED
    BY <1>0, <1>5, <2>1, <2>2 DEF run_phase1, Shapes, RunFields, DiskFields
<1>6. CASE SkipMissing
  <2>1. run.i + 1 \in 1..MaxCommands + 1
    BY <1>0, <1>6, BoundsAssumption DEF SkipMissing, InLoop, Shapes
  <2> QED
    BY <1>0, <1>6, <2>1 DEF SkipMissing, InLoop, Shapes, RunFields
<1>7. CASE MapSource
  <2> PICK out \in {UnitOf(entry), disk.ast[run.i]} :
        /\ disk' = [disk EXCEPT !.ast[run.i] = out]
        /\ run' = [run EXCEPT !.i = @ + 1, !.merged = IF out = None THEN @ ELSE update(@, out)]
        /\ NoteFailure(out)
    BY <1>7 DEF MapSource
  <2>1. /\ run.i \in Index /\ run.i + 1 \in 1..MaxCommands + 1
        /\ run.i \in DOMAIN disk.compile_commands
    BY <1>0, <1>7, BoundsAssumption DEF MapSource, InLoop, Shapes, Index
  <2>2. UnitOf(entry) \in Unit
    BY <1>0, <1>7, <2>1, UnitTyped DEF MapSource, entry
  <2>3. out \in Unit \cup {None} /\ (out # None => out \in Unit)
    BY <2>1, <2>2
  <2>4. /\ run'.at = run.at /\ run'.i = run.i + 1 /\ run'.bc_files = run.bc_files
        /\ run'.merged = IF out = None THEN run.merged ELSE update(run.merged, out)
        /\ run'.link_groups = run.link_groups /\ run'.lines = run.lines
        /\ disk'.ast = [disk.ast EXCEPT ![run.i] = out] /\ disk'.bc = disk.bc
        /\ disk'.compile_commands = disk.compile_commands /\ disk'.config_map = disk.config_map
        /\ disk'.ast_mapping = disk.ast_mapping /\ disk'.reachability = disk.reachability
        /\ disk'.report = disk.report /\ disk'.dead_features = disk.dead_features
        /\ UNCHANGED <<project, n, edited>>
    BY <1>0, <1>7 DEF MapSource, Shapes, RunFields, DiskFields
  <2>5. failed' \subseteq Index
    BY <2>1 DEF NoteFailure
  <2>6. run'.merged \subseteq Unit
    BY <2>3, <2>4 DEF update
  <2>7. disk'.ast \in [Index -> Unit \cup {None}]
    <3>1. disk.ast \in [Index -> Unit \cup {None}]
      OBVIOUS
    <3>2. [disk.ast EXCEPT ![run.i] = out] \in [Index -> Unit \cup {None}]
      BY <2>1, <2>3, <3>1, OverwriteTyped
    <3> QED
      BY <2>4, <3>2
  <2> QED
    BY <2>1, <2>4, <2>5, <2>6, <2>7
<1>8. CASE WriteMapping
  <2>1. [by |-> n, files |-> run.merged] \in AstMappingFile /\ 1 \in 1..MaxCommands + 1
    BY <1>0, BoundsAssumption DEF AstMappingFile, Shapes
  <2> QED
    BY <1>0, <1>8, <2>1 DEF WriteMapping, LoopIsOver, Shapes, RunFields, DiskFields
<1>9. CASE CompileSource
  <2> PICK out \in {UnitOf(entry), disk.bc[run.i], None} :
        /\ disk' = [disk EXCEPT !.bc[run.i] = out]
        /\ run' = [run EXCEPT !.i = @ + 1,
                              !.bc_files = IF out = None THEN @ ELSE @ \cup {run.i}]
        /\ NoteFailure(out)
    BY <1>9 DEF CompileSource
  <2>1. /\ run.i \in Index /\ run.i + 1 \in 1..MaxCommands + 1
        /\ run.i \in DOMAIN disk.compile_commands
    BY <1>0, <1>9, BoundsAssumption DEF CompileSource, InLoop, Shapes, Index
  <2>2. UnitOf(entry) \in Unit
    BY <1>0, <1>9, <2>1, UnitTyped DEF CompileSource, entry
  <2>3. out \in Unit \cup {None}
    BY <2>1, <2>2
  <2>4. /\ run'.at = run.at /\ run'.i = run.i + 1 /\ run'.merged = run.merged
        /\ run'.bc_files = IF out = None THEN run.bc_files ELSE run.bc_files \cup {run.i}
        /\ run'.link_groups = run.link_groups /\ run'.lines = run.lines
        /\ disk'.bc = [disk.bc EXCEPT ![run.i] = out] /\ disk'.ast = disk.ast
        /\ disk'.compile_commands = disk.compile_commands /\ disk'.config_map = disk.config_map
        /\ disk'.ast_mapping = disk.ast_mapping /\ disk'.reachability = disk.reachability
        /\ disk'.report = disk.report /\ disk'.dead_features = disk.dead_features
        /\ UNCHANGED <<project, n, edited>>
    BY <1>0, <1>9 DEF CompileSource, Shapes, RunFields, DiskFields
  <2>5. failed' \subseteq Index
    BY <2>1 DEF NoteFailure
  <2>6. run.bc_files \subseteq 1..run.i - 1
    BY <1>0, <1>9 DEF CompileSource, InLoop, Listed
  <2>7. \A i \in run'.bc_files : i \in Index /\ disk'.bc[i] # None
    <3> TAKE i \in run'.bc_files
    <3>1. CASE i = run.i
      <4>1. out # None
        BY <2>1, <2>4, <2>6, <3>1 DEF Index
      <4> QED
        BY <2>1, <2>4, <3>1, <4>1
    <3>2. CASE i # run.i
      BY <2>1, <2>4, <3>2
    <3> QED
      BY <3>1, <3>2
  <2>8. disk'.bc \in [Index -> Unit \cup {None}]
    <3>1. disk.bc \in [Index -> Unit \cup {None}]
      OBVIOUS
    <3>2. [disk.bc EXCEPT ![run.i] = out] \in [Index -> Unit \cup {None}]
      BY <2>1, <2>3, <3>1, OverwriteTyped
    <3> QED
      BY <2>4, <3>2
  <2>9. run'.link_groups \subseteq SUBSET run'.bc_files
    BY <2>4
  <2> QED
    BY <2>1, <2>4, <2>5, <2>7, <2>8, <2>9
<1>10. CASE GroupPrograms
  <2>1. link_groups(symbols, run.bc_files) \subseteq SUBSET run.bc_files
    BY GroupsAreOfFiles
  <2> QED
    BY <1>0, <1>10, <2>1 DEF GroupPrograms, LoopIsOver, Shapes, RunFields
<1>11. CASE LinkAndAnalyze
  <2> PICK group \in run.link_groups :
        run' = IF ~Links(symbols, group) THEN [run EXCEPT !.at = "clash"]
               ELSE [run EXCEPT !.link_groups = @ \ {group}, !.lines = @ \cup LinesIn(group)]
    BY <1>11 DEF LinkAndAnalyze
  <2>1. group \subseteq run.bc_files /\ main_bcs(symbols, group) \subseteq group
    BY <1>0, GroupsAreOfFiles
  <2>2. \A i \in group : disk.bc[i] \in Unit
    BY <2>1
  <2>3. LinesIn(group) \subseteq Unit \X SUBSET Unit
    BY <2>1, <2>2 DEF LinesIn
  <2> QED
    BY <1>0, <1>11, <2>3 DEF LinkAndAnalyze, Shapes, RunFields
<1>12. CASE WriteReachability
  <2>1. [by |-> n, lines |-> run.lines] \in ReachabilityFile
    BY <1>0 DEF ReachabilityFile, Shapes
  <2> QED
    BY <1>0, <1>12, <2>1 DEF WriteReachability, Shapes, RunFields, DiskFields
<1>f. Findings \in FindingsFile
  BY <1>0 DEF Findings, FindingsFile, Shapes
<1>13. CASE WriteReport
  BY <1>0, <1>13, <1>f DEF WriteReport, Shapes, RunFields, DiskFields
<1>14. CASE WriteFindings
  BY <1>0, <1>14, <1>f DEF WriteFindings, Shapes, RunFields, DiskFields
<1>15. CASE UNCHANGED vars
  BY <1>15 DEF vars
<1> QED
  BY <1>1, <1>2, <1>3, <1>4, <1>5, <1>6, <1>7, <1>8, <1>9, <1>10, <1>11, <1>12, <1>13, <1>14,
     <1>15 DEF Next, Step

-----------------------------------------------------------------------------
(* Nothing is lost on the way from the commands to the findings while no   *)
(* compiler fails and the project stays as it is.                          *)
(* Of the first commands, the last of each source says what is mapped ...  *)
MappedUpTo(units, last) ==
  \A i \in 1..last :
    /\ Exists(project.commands[i].file)
    /\ \A j \in i+1..last : project.commands[j].file # project.commands[i].file
    => UnitOf(project.commands[i]) \in units

(* ... and all of them whose source is there have been compiled.           *)
CompiledUpTo(files, bc, last) ==
  /\ files = {i \in 1..last : Exists(project.commands[i].file)}
  /\ \A i \in files : bc[i] = UnitOf(project.commands[i])

Buildable(p) == p \in project.programs /\ \A i \in p : Exists(project.commands[i].file)
LiveLines(p) == ProgramUnits(p) \X {MainOf(p)}

(* A program of the build is part of a group that has its main only.       *)
Covers(group, p) == p \subseteq group /\ main_bcs(symbols, group) \subseteq p

Intact == ~edited /\ failed = {}

Complete ==
  /\ run.at \in {"phase2", "phase3"} => run.i <= Len(disk.compile_commands) + 1
  /\ Intact =>
     /\ run.at \in After1 => disk.config_map.entries = ConfigMap(project.commands)
     /\ run.at = "phase2" => MappedUpTo(run.merged, run.i - 1)
     /\ run.at \in After2 => MappedUpTo(disk.ast_mapping.files, Len(project.commands))
     /\ run.at = "phase3" => CompiledUpTo(run.bc_files, disk.bc, run.i - 1)
     /\ run.at = "link" =>
          /\ CompiledUpTo(run.bc_files, disk.bc, Len(project.commands))
          /\ \A p : Buildable(p) => \/ LiveLines(p) \subseteq run.lines
                                    \/ \E group \in run.link_groups : Covers(group, p)
     /\ run.at \in After3 =>
          \A p : Buildable(p) => LiveLines(p) \subseteq disk.reachability.lines

CInv == Complete /\ NothingForgotten /\ PhasesAgreeOnMacros

LEMMA InitCInv == Init => CInv
BY DEF Init, NoRun, CInv, Complete, NothingForgotten, PhasesAgreeOnMacros, After1, After2, After3

(* A program of the build has one main.                                    *)
LEMMA OneMain ==
  ASSUME project \in Projects, NEW p, Buildable(p)
  PROVE  /\ p \subseteq DOMAIN project.commands
         /\ \E m \in p : \A i \in p : "main" \in Symbols[project.commands[i].file] <=> i = m
BY ProjectsAssumption DEF Buildable

(* Its units with main are that main's.                                    *)
LEMMA MainIsOne ==
  ASSUME NEW p, NEW m \in p,
         \A i \in p : "main" \in Symbols[project.commands[i].file] <=> i = m
  PROVE  MainOf(p) = {UnitOf(project.commands[m])}
BY DEF MainOf, ProgramUnits, UnitOf

(* Every buildable program is covered by a group that run_phase3 makes.    *)
LEMMA GroupsCoverPrograms ==
  ASSUME Shapes, CompiledUpTo(run.bc_files, disk.bc, Len(project.commands)), NEW p, Buildable(p)
  PROVE  \E group \in link_groups(symbols, run.bc_files) : Covers(group, p)
<1>1. DOMAIN project.commands = 1..Len(project.commands)
  BY ProjectTyped DEF Shapes
<1>2. PICK m \in p : \A i \in p : "main" \in Symbols[project.commands[i].file] <=> i = m
  BY OneMain DEF Shapes
<1>3. p \subseteq run.bc_files
  BY <1>1, OneMain DEF Shapes, Buildable, CompiledUpTo
<1>4. \A i \in p : _bc_defines_main(symbols, i) <=> i = m
  <2> TAKE i \in p
  <2>1. disk.bc[i] = UnitOf(project.commands[i]) /\ i \in run.bc_files
    BY <1>3 DEF CompiledUpTo
  <2>2. symbols[i] = Symbols[project.commands[i].file]
    BY <2>1 DEF symbols, UnitOf
  <2> QED
    BY <1>2, <2>2 DEF _bc_defines_main
<1> DEFINE group == lib_bcs(symbols, run.bc_files) \cup {m}
<1>5. m \in main_bcs(symbols, run.bc_files)
  BY <1>3, <1>4 DEF main_bcs
<1>6. group \in link_groups(symbols, run.bc_files)
  BY <1>5 DEF link_groups
<1>7. p \subseteq group
  BY <1>3, <1>4 DEF lib_bcs, main_bcs
<1>8. main_bcs(symbols, group) \subseteq p
  BY DEF main_bcs, lib_bcs
<1> QED
  BY <1>6, <1>7, <1>8 DEF Covers

(* The pass on a group that covers a program finds its live lines.         *)
LEMMA CoveringFindsLines ==
  ASSUME Shapes, CompiledUpTo(run.bc_files, disk.bc, Len(project.commands)), NEW p, Buildable(p),
         NEW group \in SUBSET run.bc_files, Covers(group, p)
  PROVE  LiveLines(p) \subseteq LinesIn(group)
<1>2. PICK m \in p : \A i \in p : "main" \in Symbols[project.commands[i].file] <=> i = m
  BY OneMain DEF Shapes
<1>3. \A i \in p : /\ i \in group /\ i \in run.bc_files
                   /\ disk.bc[i] = UnitOf(project.commands[i])
                   /\ symbols[i] = Symbols[project.commands[i].file]
  BY DEF Covers, CompiledUpTo, symbols, UnitOf
<1>4. main_bcs(symbols, group) = {m}
  BY <1>2, <1>3 DEF main_bcs, _bc_defines_main, Covers
<1>5. {disk.bc[i] : i \in main_bcs(symbols, group)} = MainOf(p)
  BY <1>2, <1>3, <1>4, MainIsOne
<1>6. ProgramUnits(p) \subseteq {disk.bc[i] : i \in group}
  BY <1>3 DEF ProgramUnits
<1> QED
  BY <1>5, <1>6 DEF LiveLines, LinesIn

LEMMA NextCInv == IInv /\ LInv /\ TypedCommands /\ CInv /\ [Next]_vars => CInv'
<1> SUFFICES ASSUME IInv, LInv, TypedCommands, CInv, [Next]_vars PROVE CInv'
  OBVIOUS
<1>0. Shapes /\ Listed /\ Complete /\ CommandsCurrent /\ TypedCommands
  BY DEF IInv, LInv, CInv
<1>c. /\ DOMAIN project.commands = 1..Len(project.commands)
      /\ Len(project.commands) \in Nat /\ Len(disk.compile_commands) \in Nat
  BY <1>0, ProjectTyped DEF Shapes
<1> DEFINE Same == UNCHANGED project
<1>s1. Same => \A units, last : MappedUpTo(units, last)' <=> MappedUpTo(units, last)
  BY DEF MappedUpTo, UnitOf, Exists
<1>s2. Same => \A p : (Buildable(p)' <=> Buildable(p)) /\ LiveLines(p)' = LiveLines(p)
  BY DEF Buildable, LiveLines, ProgramUnits, MainOf, UnitOf, Exists
<1>s3. Same => \A files, bc, last : CompiledUpTo(files, bc, last)' <=> CompiledUpTo(files, bc, last)
  BY DEF CompiledUpTo, UnitOf, Exists
<1>1. CASE Edit
  BY <1>1, <1>0 DEF Edit, CInv, Complete, Intact, NothingForgotten, PhasesAgreeOnMacros
<1> HIDE DEF Same
<1> USE DEF After1, After2, After3
<1>n. run'.at # "done" => NothingForgotten' /\ PhasesAgreeOnMacros'
  BY DEF NothingForgotten, PhasesAgreeOnMacros
<1>2. CASE Start
  BY <1>2, <1>n DEF Start, CInv, Complete, NoRun
<1>3. CASE Crash
  BY <1>3, <1>n DEF Crash, CInv, Complete, NoRun
<1>4. CASE Raise
  <2>1. run'.at = "error"
    BY <1>0, <1>4 DEF Raise, Shapes, RunFields
  <2> QED
    BY <1>n, <2>1 DEF CInv, Complete
<1>5. CASE run_phase1
  <2>1. /\ run'.at = "phase2" /\ run'.i = 1
        /\ disk'.compile_commands = project.commands
        /\ disk'.config_map.entries = ConfigMap(project.commands) /\ Same
    BY <1>0, <1>5 DEF run_phase1, Shapes, RunFields, DiskFields, Listed, Same
  <2>2. MappedUpTo(run'.merged, run'.i - 1)
    BY <2>1 DEF MappedUpTo
  <2>3. (MappedUpTo(run.merged, run.i - 1))'
    BY <2>1, <2>2, <1>s1
  <2> QED
    BY <1>n, <1>c, <2>1, <2>3 DEF CInv, Complete, Same
<1>6. CASE SkipMissing
  <2>1. /\ run' = [run EXCEPT !.i = @ + 1] /\ UNCHANGED <<disk, failed, edited>> /\ Same
        /\ run.at \in {"phase2", "phase3"} /\ run.i \in 1..Len(disk.compile_commands)
    BY <1>0, <1>6 DEF SkipMissing, InLoop, Same, Shapes
  <2>2. /\ run'.at = run.at /\ run'.i = run.i + 1 /\ run'.merged = run.merged
        /\ run'.bc_files = run.bc_files
    BY <1>0, <2>1 DEF Shapes, RunFields
  <2>3. ASSUME Intact
        PROVE  /\ ~Exists(project.commands[run.i].file)
               /\ run.i \in 1..Len(project.commands)
    BY <1>0, <1>6, <2>1, <2>3 DEF CommandsCurrent, Intact, SkipMissing, entry
  <2>4. ASSUME Intact, run.at = "phase2" PROVE MappedUpTo(run.merged, run.i)
    BY <1>0, <2>1, <2>3, <2>4 DEF Complete, MappedUpTo
  <2>5. ASSUME Intact, run.at = "phase3" PROVE CompiledUpTo(run.bc_files, disk.bc, run.i)
    BY <1>0, <2>1, <2>3, <2>5 DEF Complete, CompiledUpTo
  <2>6. run'.i - 1 = run.i
    BY <2>1, <2>2
  <2> QED
    BY <1>n, <1>0, <1>s1, <1>s3, <2>1, <2>2, <2>4, <2>5, <2>6 DEF CInv, Complete, Intact, Same
<1>7. CASE MapSource
  <2> PICK out \in {UnitOf(entry), disk.ast[run.i]} :
        /\ disk' = [disk EXCEPT !.ast[run.i] = out]
        /\ run' = [run EXCEPT !.i = @ + 1, !.merged = IF out = None THEN @ ELSE update(@, out)]
        /\ NoteFailure(out)
    BY <1>7 DEF MapSource
  <2>1. /\ run.at = "phase2" /\ run.i \in 1..Len(disk.compile_commands) /\ Same
        /\ run'.at = run.at /\ run'.i = run.i + 1
        /\ run'.merged = IF out = None THEN run.merged ELSE update(run.merged, out)
        /\ disk'.compile_commands = disk.compile_commands /\ disk'.config_map = disk.config_map
        /\ UNCHANGED edited
    BY <1>0, <1>7 DEF MapSource, InLoop, Same, Shapes, RunFields, DiskFields
  <2>2. ASSUME Intact'
        PROVE  /\ Intact /\ run.i \in 1..Len(project.commands)
               /\ out = UnitOf(project.commands[run.i]) /\ out # None
    <3>1. Intact /\ out = UnitOf(entry)
      BY <2>1, <2>2 DEF Intact, NoteFailure
    <3>2. entry = project.commands[run.i] /\ run.i \in 1..Len(project.commands)
      BY <1>0, <2>1, <3>1 DEF CommandsCurrent, Intact, entry
    <3>3. out \in Unit
      BY <1>0, <1>7, <1>c, <3>1, <3>2, ProjectTyped, UnitTyped DEF Shapes, MapSource
    <3> QED
      BY <3>1, <3>2, <3>3, NoneAssumption
  <2>3. ASSUME Intact' PROVE MappedUpTo(run'.merged, run.i)
    <3>1. run'.merged = update(run.merged, UnitOf(project.commands[run.i]))
      BY <2>1, <2>2, <2>3
    <3>2. MappedUpTo(run.merged, run.i - 1)
      BY <1>0, <2>1, <2>2, <2>3 DEF Complete
    <3> SUFFICES ASSUME NEW i \in 1..run.i, Exists(project.commands[i].file),
                        \A j \in i+1..run.i : project.commands[j].file # project.commands[i].file
                 PROVE  UnitOf(project.commands[i]) \in run'.merged
      BY DEF MappedUpTo
    <3>3. CASE i = run.i
      BY <3>1, <3>3 DEF update
    <3>4. CASE i # run.i
      <4>1. i \in 1..run.i - 1 /\ run.i \in i+1..run.i
        BY <2>1, <3>4
      <4>2. UnitOf(project.commands[i]) \in run.merged
        BY <2>1, <3>2, <4>1 DEF MappedUpTo
      <4>3. UnitOf(project.commands[i]).file # UnitOf(project.commands[run.i]).file
        BY <4>1 DEF UnitOf
      <4> QED
        BY <3>1, <4>2, <4>3 DEF update
    <3> QED
      BY <3>3, <3>4
  <2>4. run'.i - 1 = run.i
    BY <2>1
  <2> QED
    BY <1>n, <1>0, <1>s1, <2>1, <2>2, <2>3, <2>4 DEF CInv, Complete, Same
<1>8. CASE WriteMapping
  <2>1. /\ run.at = "phase2" /\ run'.at = "phase3" /\ run'.i = 1 /\ run'.bc_files = run.bc_files
        /\ disk'.ast_mapping.files = run.merged /\ disk'.config_map = disk.config_map
        /\ disk'.compile_commands = disk.compile_commands
        /\ UNCHANGED <<failed, edited>> /\ Same /\ run.i > Len(disk.compile_commands)
    BY <1>0, <1>8 DEF WriteMapping, LoopIsOver, Same, Shapes, RunFields, DiskFields
  <2>2. ASSUME Intact PROVE MappedUpTo(run.merged, Len(project.commands))
    <3>1. run.i - 1 = Len(project.commands)
      BY <1>0, <1>c, <2>1, <2>2 DEF Complete, CommandsCurrent, Intact, Shapes
    <3> QED
      BY <1>0, <2>1, <2>2, <3>1 DEF Complete
  <2>3. CompiledUpTo(run'.bc_files, disk'.bc, run'.i - 1)
    BY <1>0, <2>1 DEF Listed, CompiledUpTo
  <2> QED
    BY <1>n, <1>0, <1>c, <1>s1, <1>s3, <2>1, <2>2, <2>3 DEF CInv, Complete, Intact, Same
<1>9. CASE CompileSource
  <2> PICK out \in {UnitOf(entry), disk.bc[run.i], None} :
        /\ disk' = [disk EXCEPT !.bc[run.i] = out]
        /\ run' = [run EXCEPT !.i = @ + 1,
                              !.bc_files = IF out = None THEN @ ELSE @ \cup {run.i}]
        /\ NoteFailure(out)
    BY <1>9 DEF CompileSource
  <2>1. /\ run.at = "phase3" /\ run.i \in 1..Len(disk.compile_commands) /\ Same
        /\ run'.at = run.at /\ run'.i = run.i + 1
        /\ run'.bc_files = IF out = None THEN run.bc_files ELSE run.bc_files \cup {run.i}
        /\ disk'.bc = [disk.bc EXCEPT ![run.i] = out] /\ disk'.ast_mapping = disk.ast_mapping
        /\ disk'.compile_commands = disk.compile_commands /\ disk'.config_map = disk.config_map
        /\ UNCHANGED edited
    BY <1>0, <1>9 DEF CompileSource, InLoop, Same, Shapes, RunFields, DiskFields
  <2>2. ASSUME Intact'
        PROVE  /\ Intact /\ run.i \in 1..Len(project.commands)
               /\ out = UnitOf(project.commands[run.i]) /\ out # None
               /\ Exists(project.commands[run.i].file)
    <3>1. Intact /\ out = UnitOf(entry)
      BY <2>1, <2>2 DEF Intact, NoteFailure
    <3>2. entry = project.commands[run.i] /\ run.i \in 1..Len(project.commands)
      BY <1>0, <2>1, <3>1 DEF CommandsCurrent, Intact, entry
    <3>3. out \in Unit /\ Exists(project.commands[run.i].file)
      BY <1>0, <1>9, <1>c, <3>1, <3>2, ProjectTyped, UnitTyped DEF Shapes, CompileSource
    <3> QED
      BY <3>1, <3>2, <3>3, NoneAssumption
  <2>3. ASSUME Intact' PROVE CompiledUpTo(run'.bc_files, disk'.bc, run.i)
    <3>1. CompiledUpTo(run.bc_files, disk.bc, run.i - 1)
      BY <1>0, <2>1, <2>2, <2>3 DEF Complete
    <3>2. run'.bc_files = run.bc_files \cup {run.i}
      BY <2>1, <2>2, <2>3
    <3>3. run'.bc_files = {i \in 1..run.i : Exists(project.commands[i].file)}
      BY <2>1, <2>2, <2>3, <3>1, <3>2 DEF CompiledUpTo
    <3>4. run.i \in DOMAIN disk.bc
      BY <1>0, <2>1, BoundsAssumption DEF Shapes, Index
    <3>5. ASSUME NEW i \in run'.bc_files PROVE disk'.bc[i] = UnitOf(project.commands[i])
      <4>1. CASE i = run.i
        BY <2>1, <2>2, <2>3, <3>4, <4>1
      <4>2. CASE i # run.i
        BY <2>1, <3>1, <3>2, <4>2 DEF CompiledUpTo
      <4> QED
        BY <4>1, <4>2
    <3> QED
      BY <3>3, <3>5 DEF CompiledUpTo
  <2>4. run'.i - 1 = run.i
    BY <2>1
  <2> QED
    BY <1>n, <1>0, <1>s1, <1>s3, <2>1, <2>2, <2>3, <2>4 DEF CInv, Complete, Same
<1>10. CASE GroupPrograms
  <2>0. run'.at \in {"link", "error"}
    BY <1>0, <1>10 DEF GroupPrograms, Shapes, RunFields
  <2>1. CASE run'.at = "link"
    <3>1. /\ run.at = "phase3" /\ run'.link_groups = link_groups(symbols, run.bc_files)
          /\ run'.bc_files = run.bc_files /\ UNCHANGED <<disk, failed, edited>> /\ Same
          /\ run.i > Len(disk.compile_commands)
      BY <1>0, <1>10, <2>1 DEF GroupPrograms, LoopIsOver, Same, Shapes, RunFields
    <3>2. symbols' = symbols
      BY <3>1 DEF symbols
    <3>3. ASSUME Intact PROVE CompiledUpTo(run.bc_files, disk.bc, Len(project.commands))
      <4>1. run.i - 1 = Len(project.commands)
        BY <1>0, <1>c, <3>1, <3>3 DEF Complete, CommandsCurrent, Intact, Shapes
      <4> QED
        BY <1>0, <3>1, <3>3, <4>1 DEF Complete
    <3>4. ASSUME Intact, NEW p, Buildable(p)
          PROVE  \E group \in run'.link_groups : Covers(group, p)'
      <4>1. \E group \in run'.link_groups : Covers(group, p)
        BY <1>0, <3>1, <3>3, <3>4, GroupsCoverPrograms
      <4> QED
        BY <3>2, <4>1 DEF Covers
    <3>5. ASSUME Intact, NEW p, Buildable(p)'
          PROVE  (\E group \in run.link_groups : Covers(group, p))'
      BY <3>1, <3>4, <3>5, <1>s2
    <3> QED
      BY <1>n, <1>0, <1>s1, <1>s3, <2>1, <3>1, <3>3, <3>5 DEF CInv, Complete, Intact, Same
  <2>2. CASE run'.at = "error"
    BY <1>n, <2>2 DEF CInv, Complete
  <2> QED
    BY <2>0, <2>1, <2>2
<1>11. CASE LinkAndAnalyze
  <2> PICK group \in run.link_groups :
        run' = IF ~Links(symbols, group) THEN [run EXCEPT !.at = "clash"]
               ELSE [run EXCEPT !.link_groups = @ \ {group}, !.lines = @ \cup LinesIn(group)]
    BY <1>11 DEF LinkAndAnalyze
  <2>1. CASE ~Links(symbols, group)
    <3>1. run'.at = "clash"
      BY <1>0, <2>1 DEF Shapes, RunFields
    <3> QED
      BY <1>n, <3>1 DEF CInv, Complete
  <2>2. CASE Links(symbols, group)
    <3>1. /\ run.at = "link" /\ run'.at = "link" /\ run'.bc_files = run.bc_files
          /\ run'.link_groups = run.link_groups \ {group}
          /\ run'.lines = run.lines \cup LinesIn(group)
          /\ UNCHANGED <<disk, failed, edited>> /\ Same
      BY <1>0, <1>11, <2>2 DEF LinkAndAnalyze, Same, Shapes, RunFields
    <3>2. symbols' = symbols
      BY <3>1 DEF symbols
    <3>3. ASSUME Intact, NEW p, Buildable(p)
          PROVE  \/ LiveLines(p) \subseteq run'.lines
                 \/ \E g \in run'.link_groups : Covers(g, p)
      <4>1. CASE LiveLines(p) \subseteq run.lines
        BY <3>1, <4>1
      <4>2. CASE \E g \in run.link_groups \ {group} : Covers(g, p)
        BY <3>1, <4>2
      <4>3. CASE Covers(group, p)
        <5>1. LiveLines(p) \subseteq LinesIn(group)
          BY <1>0, <3>1, <3>3, <4>3, CoveringFindsLines DEF Complete, Listed
        <5> QED
          BY <3>1, <5>1
      <4> QED
        BY <1>0, <3>1, <3>3, <4>1, <4>2, <4>3 DEF Complete
    <3>4. \A g, p : Covers(g, p)' <=> Covers(g, p)
      BY <3>2 DEF Covers
    <3>5. ASSUME Intact, NEW p, Buildable(p)'
          PROVE  (LiveLines(p) \subseteq run.lines \/ \E g \in run.link_groups : Covers(g, p))'
      BY <3>1, <3>3, <3>4, <3>5, <1>s2
    <3> QED
      BY <1>n, <1>0, <1>s1, <1>s3, <3>1, <3>5 DEF CInv, Complete, Intact, Same
  <2> QED
    BY <2>1, <2>2
<1>12. CASE WriteReachability
  <2>1. /\ run.at = "link" /\ run'.at = "report" /\ run.link_groups = {}
        /\ disk'.reachability.lines = run.lines /\ disk'.ast_mapping = disk.ast_mapping
        /\ disk'.config_map = disk.config_map /\ UNCHANGED <<failed, edited>> /\ Same
    BY <1>0, <1>12 DEF WriteReachability, Same, Shapes, RunFields, DiskFields
  <2>2. ASSUME Intact, NEW p, Buildable(p) PROVE LiveLines(p) \subseteq run.lines
    BY <1>0, <2>1, <2>2 DEF Complete
  <2> QED
    BY <1>n, <1>0, <1>s1, <1>s2, <2>1, <2>2 DEF CInv, Complete, Intact, Same
<1>13. CASE WriteReport
  <2>1. /\ run.at = "report" /\ run'.at = "findings" /\ disk'.reachability = disk.reachability
        /\ disk'.ast_mapping = disk.ast_mapping /\ disk'.config_map = disk.config_map
        /\ UNCHANGED <<failed, edited>> /\ Same
    BY <1>0, <1>13 DEF WriteReport, Same, Shapes, RunFields, DiskFields
  <2> QED
    BY <1>n, <1>0, <1>s1, <1>s2, <2>1 DEF CInv, Complete, Intact, Same
<1>14. CASE WriteFindings
  <2>1. /\ run.at = "findings" /\ run'.at = "done" /\ disk'.dead_features = Findings
        /\ UNCHANGED <<failed, edited>> /\ Same
    BY <1>0, <1>14 DEF WriteFindings, Same, Shapes, RunFields, DiskFields
  <2>2. ASSUME Intact
        PROVE  /\ MappedUpTo(disk.ast_mapping.files, Len(project.commands))
               /\ \A p : Buildable(p) => LiveLines(p) \subseteq disk.reachability.lines
               /\ disk.config_map.entries = ConfigMap(project.commands)
               /\ disk.ast_mapping.files \subseteq PresentUnits
    BY <1>0, <2>1, <2>2 DEF LInv, Complete, MadeOfThisProject, Undisturbed, Intact, Present
  <2>3. /\ disk'.dead_features.ast_mapping = disk.ast_mapping
        /\ disk'.dead_features.reachability = disk.reachability
        /\ disk'.dead_features.config_map = disk.config_map
    BY <2>1 DEF Findings
  <2>4. NothingForgotten'
    <3> SUFFICES ASSUME Intact' PROVE NothingForgotten'
      BY DEF Intact, NothingForgotten
    <3>1. Intact
      BY <2>1 DEF Intact
    <3>2. \A i \in DOMAIN project.commands :
            LET e == project.commands[i] IN
            /\ Exists(e.file)
            /\ \A j \in i+1..Len(project.commands) : project.commands[j].file # e.file
            => UnitOf(e) \in disk'.dead_features.ast_mapping.files
      BY <1>c, <2>2, <2>3, <3>1 DEF MappedUpTo
    <3>3. \A p \in project.programs :
            (\A i \in p : Exists(project.commands[i].file)) =>
              ProgramUnits(p) \X {MainOf(p)} \subseteq disk'.dead_features.reachability.lines
      BY <2>2, <2>3, <3>1 DEF Buildable, LiveLines
    <3> QED
      BY <2>1, <3>2, <3>3 DEF NothingForgotten, UnitOf, Exists, ProgramUnits, MainOf, Same
  <2>5. PhasesAgreeOnMacros'
    <3> SUFFICES ASSUME Intact', NEW u \in disk'.dead_features.ast_mapping.files,
                        \A i \in DOMAIN project.commands :
                          \A a \in DOMAIN project.commands[i].arguments :
                            project.commands[i].arguments[a].opt # "/D"
                 PROVE  \E e \in disk'.dead_features.config_map.entries :
                          e.source = u.file /\ e.defines = u.defines
      BY <2>1 DEF Intact, PhasesAgreeOnMacros, Same
    <3>1. u \in PresentUnits /\ disk'.dead_features.config_map.entries = ConfigMap(project.commands)
      BY <2>1, <2>2, <2>3 DEF Intact
    <3>2. PICK i \in DOMAIN project.commands : u = UnitOf(project.commands[i])
      BY <3>1 DEF PresentUnits
    <3>3. extract_defines(project.commands[i].arguments) = parse_entry_flags(project.commands[i])
      BY <1>0, ProjectTyped, PhasesReadAlike DEF Shapes
    <3> DEFINE e == [target |-> infer_target_name(project.commands[i]),
                     source |-> project.commands[i].file,
                     defines |-> extract_defines(project.commands[i].arguments)]
    <3>4. e \in disk'.dead_features.config_map.entries
      BY <3>1 DEF ConfigMap
    <3>5. e.source = u.file /\ e.defines = u.defines
      BY <3>2, <3>3 DEF UnitOf
    <3> QED
      BY <3>4, <3>5
  <2> QED
    BY <2>1, <2>4, <2>5 DEF CInv, Complete
<1>15. CASE UNCHANGED vars
  <2>1. UNCHANGED <<project, disk, run, failed, edited>> /\ Same
    BY <1>15 DEF vars, Same
  <2>2. symbols' = symbols
    BY <2>1 DEF symbols
  <2>3. NothingForgotten' /\ PhasesAgreeOnMacros'
    BY <2>1 DEF CInv, NothingForgotten, PhasesAgreeOnMacros, UnitOf, Exists, ProgramUnits, MainOf
  <2>4. Complete'
    BY <1>0, <1>s1, <1>s2, <1>s3, <2>1, <2>2 DEF Complete, Intact, Covers
  <2> QED
    BY <2>3, <2>4 DEF CInv
<1> QED
  BY <1>1, <1>2, <1>3, <1>4, <1>5, <1>6, <1>7, <1>8, <1>9, <1>10, <1>11, <1>12, <1>13, <1>14,
     <1>15 DEF Next, Step

LEMMA AlwaysWhole == Spec => [](IInv /\ LInv /\ TypedCommands /\ CInv)
<1>1. Init => IInv /\ LInv /\ TypedCommands /\ CInv
  BY InitIInv, InitLInv, InitTyped, InitCInv
<1>2. IInv /\ LInv /\ TypedCommands /\ CInv /\ [Next]_vars
        => IInv' /\ LInv' /\ TypedCommands' /\ CInv'
  BY NextIInv, NextLInv, NextTyped, NextCInv
<1> QED
  BY <1>1, <1>2, PTL DEF Spec

(* pipeline.py: types of the directory and of an analysis; src_i.bc files  *)
(* that are listed are there.                                              *)
THEOREM PipelineTyped == Spec => []TypeOK
BY AlwaysWhole, PTL DEF TypedCommands

(* pipeline.py: an analysis in which no compiler fails covers the last     *)
(* command of every source and every executable of the build.              *)
THEOREM AnalysesAreComplete == Spec => []NothingForgotten
BY AlwaysWhole, PTL DEF CInv

(* pipeline.py and extractor.py: the flags a file is mapped with are those *)
(* that the config map has for it.                                         *)
THEOREM ReadersAgree == Spec => []PhasesAgreeOnMacros
BY AlwaysWhole, PTL DEF CInv
=============================================================================
