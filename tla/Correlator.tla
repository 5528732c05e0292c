----------------------------- MODULE Correlator -----------------------------
(***************************************************************************)
(* correlator.py: Phase 4 joins the config map, the mapped conditionals    *)
(* and the reachable lines into the dead features it reports.              *)
(*                                                                         *)
(* correlate takes the branches one at a time.  The order shows nowhere,   *)
(* since the findings are sorted afterwards, so todo is a set here.        *)
(***************************************************************************)
EXTENDS BuildConfig, FiniteSetsExt

CONSTANT Worlds    \* the projects Phase 4 may be run on

(* A project: its compile_commands.json, which sources include which       *)
(* headers, the conditionals in the text of each file, and the lines that  *)
(* Phase 3 found reachable.                                                *)
World == [commands : Seq(Command),
          includes : SUBSET (File \X File),
          blocks   : [File -> Seq(Seq(Branch))],
          lines    : SUBSET (File \X Nat)]

(* A conditional as it stands in a text: #if, #elif, #else, one below the  *)
(* other.                                                                  *)
WellFormed(block) ==
  /\ block # <<>>
  /\ block[1].kind \in {"ifdef", "ifndef", "if"}
  /\ \A i \in 2..Len(block) : block[i].kind \in {"elif", "else"}
  /\ \A i \in 1..Len(block) : block[i].kind = "else" => i = Len(block)
  /\ \A i \in 1..Len(block) : block[i].start <= block[i].end
  /\ \A i, j \in 1..Len(block) : i < j => block[i].end < block[j].start

(* Of two conditionals of a text, one lies in a branch of the other, or    *)
(* before it.                                                              *)
Within(inner, outer) ==
  \E i \in 1..Len(outer) :
    outer[i].start < inner[1].start /\ Last(inner).end < outer[i].end

Apart(one, other) == Within(one, other) \/ Last(one).end < other[1].start

ASSUME WorldsAssumption ==
  /\ Worlds \subseteq World
  /\ \A w \in Worlds, f \in File :
       /\ \A k \in 1..Len(w.blocks[f]) : WellFormed(w.blocks[f][k])
       /\ \A k, m \in 1..Len(w.blocks[f]) :
            k # m => Apart(w.blocks[f][k], w.blocks[f][m]) \/ Apart(w.blocks[f][m], w.blocks[f][k])

VARIABLES
  world,   \* what the three input files are made from, never changed
  ast,     \* ast_mapping.json: the blocks of each file, as recorded
  todo,    \* branches <<file, block, index>> correlate has still to look at
  dead,    \* the list dead
  output   \* report.md and dead_features.json, NoOutput before

vars == <<world, ast, todo, dead, output>>

NoOutput == [total |-> 0, high |-> 0, loc |-> 0, highLoc |-> 0, written |-> FALSE]

(* Commands whose translation unit has the text of f in it.                *)
Reads(c, w, f) == c.file = f \/ <<c.file, f>> \in w.includes
Builders(w, f) == {c \in Range(w.commands) : Reads(c, w, f)}

(* run_phase2 merges with dict.update: of the commands that read a file    *)
(* the last one says what its blocks are.                                  *)
ast_mapping(w) ==
  [f \in File |->
     LET readers == {i \in DOMAIN w.commands : Reads(w.commands[i], w, f)}
     IN  [n \in 1..Len(w.blocks[f]) |->
            IF readers = {} THEN <<>>
            ELSE Recorded(w.blocks[f], w.blocks[f][n], InForce(w.commands[Max(readers)]))]]

Branches(map) ==
  UNION {UNION {{<<f, n, i>> : i \in 1..Len(map[f][n])} : n \in 1..Len(map[f])} : f \in File}

BranchAt(b) == ast[b[1]][b[2]][b[3]]
Lines(b) == {b[1]} \X Body(BranchAt(b))
(* Mutant: range(start + 1, end), the last line is not looked at.          *)
Covered_LastLost(b) ==
  \E l \in Lines(b) : l[2] # BranchAt(b).end /\ l \in world.lines

Covered(b) == Lines(b) \cap world.lines # {}

CompiledLine(w, l) ==
  \E c \in Builders(w, l[1]) : Compiled(w.blocks[l[1]], l[2], InForce(c))

NeverCompiled(b) == \A l \in Lines(b) : ~CompiledLine(world, l)

Init ==
  /\ world \in Worlds
  /\ ast = ast_mapping(world)
  /\ todo = Branches(ast)
  /\ dead = {}
  /\ output = NoOutput

-----------------------------------------------------------------------------
(* Mutant: an empty branch is analysed too.                                *)
Degenerate_Empty(branch) == branch.start > branch.end

(* Mutant: a branch of one line counts as empty.                           *)
Degenerate_OneLine(branch) == branch.start + 1 >= branch.end

Degenerate(branch) == branch.start >= branch.end

(* Mutant: the directive is counted.                                       *)
branch_body_loc_Inclusive(branch) == branch.end - branch.start + 1

branch_body_loc(branch) == branch.end - branch.start

configs_defining(macro, configs) == {t \in DOMAIN configs : macro \in configs[t]}
configs_not_defining(macro, configs) == DOMAIN configs \ configs_defining(macro, configs)

(* Mutant: the else of an ifndef is taken for that of an ifdef.            *)
ActiveConfigs_AnyElse(opening, branch, configs) ==
  CASE branch.kind \in {"ifdef", "if"} -> configs_defining(branch.condition, configs)
    [] branch.kind = "ifndef" -> configs_not_defining(branch.condition, configs)
    [] branch.kind \in {"else", "elif"} -> configs_not_defining(opening.condition, configs)

(* Mutant: an else goes by the condition of its block as the opening does. *)
ActiveConfigs_ElseAsOpening(opening, branch, configs) ==
  LET defining == configs_defining(opening.condition, configs)
  IN  IF opening.kind = "ifndef" THEN DOMAIN configs \ defining ELSE defining

(* The targets a branch is taken to be active in.  Of an else or elif the  *)
(* condition is the opposite of its block's, whatever comes between.       *)
ActiveConfigs(opening, branch, configs) ==
  CASE branch.kind \in {"ifdef", "if"} -> configs_defining(branch.condition, configs)
    [] branch.kind = "ifndef" -> configs_not_defining(branch.condition, configs)
    [] branch.kind \in {"else", "elif"} ->
         IF opening.kind = "ifndef" THEN configs_defining(opening.condition, configs)
         ELSE configs_not_defining(opening.condition, configs)

(* configs_with_macro: what a finding names are the active targets, except *)
(* that a HIGH finding names those that define the macro.                  *)
NamedConfigs(opening, branch, configs, active) ==
  IF active # {} THEN active
  ELSE CASE branch.kind \in {"ifdef", "if"} -> {}
         [] branch.kind = "ifndef" -> DOMAIN configs
         [] OTHER -> configs_defining(opening.condition, configs)

(* analyze_branch: no finding, or one.                                     *)
analyze_branch(b, configs) ==
  LET branch  == BranchAt(b)
      opening == BranchAt(<<b[1], b[2], 1>>)
      active  == ActiveConfigs(opening, branch, configs)
  IN  IF Degenerate(branch) \/ (active # {} /\ Covered(b)) THEN {}
      ELSE {[branch |-> b, loc |-> branch_body_loc(branch),
             confidence |-> IF active = {} THEN "HIGH" ELSE "MEDIUM",
             configs |-> NamedConfigs(opening, branch, configs, active)]}

(* One turn of the loops in correlate.                                     *)
Analyze ==
  \E b \in todo :
    /\ dead' = dead \cup analyze_branch(b, FileConfigs(world.commands, b[1]))
    /\ todo' = todo \ {b}
    /\ UNCHANGED <<world, ast, output>>

High(findings) == {d \in findings : d.confidence = "HIGH"}
LoC(findings) == MapThenSumSet(LAMBDA d : d.loc, findings)

(* write_markdown and write_json_output: the same figures in both.         *)
Write ==
  /\ todo = {} /\ ~output.written
  /\ output' = [total |-> Cardinality(dead), high |-> Cardinality(High(dead)),
                loc |-> LoC(dead), highLoc |-> LoC(High(dead)), written |-> TRUE]
  /\ UNCHANGED <<world, ast, todo, dead>>

Next == Analyze \/ Write

Spec == Init /\ [][Next]_vars
-----------------------------------------------------------------------------
(* Types of the findings and the output; a finding has lines to remove.    *)
TypeOK ==
  /\ world \in World
  /\ ast \in [File -> Seq(Seq(Branch))]
  /\ todo \subseteq Branches(ast)
  /\ \A d \in dead :
       d \in [branch : Branches(ast) \ todo, loc : Nat \ {0},
              confidence : {"HIGH", "MEDIUM"}, configs : SUBSET Target]
  /\ output \in [total : Nat, high : Nat, loc : Nat, highLoc : Nat, written : BOOLEAN]

(* The worlds in which a target's macro names stand for each of its        *)
(* commands, a condition is the presence of a macro, what is included is a *)
(* header that no command compiles by itself, and no header defines a      *)
(* macro that conditions test.                                             *)
UniformTargets ==
  \A c \in Range(world.commands) :
    Names(c.defines) = Names(TargetDefines(world.commands, c.target))

PresenceConditions ==
  /\ \A b \in Branches(world.blocks) : world.blocks[b[1]][b[2]][b[3]].condition \notin Expr
  /\ \A c \in Range(world.commands) : Names(c.defines) = Nonzero(c.defines)

OnlyHeadersIncluded ==
  \A c \in Range(world.commands), f \in File : <<f, c.file>> \notin world.includes

MacrosFromCommands == \A c \in Range(world.commands) : c.headerDefines = {}

PlainWorld ==
  UniformTargets /\ PresenceConditions /\ OnlyHeadersIncluded /\ MacrosFromCommands

(* What Phase 3 reports has been compiled.  It is so in files whose        *)
(* functions have no text of another file in their bodies (see             *)
(* LinesAreOfLiveCode in Reachability).                                    *)
LinesAreCompiled == \A l \in world.lines : CompiledLine(world, l)

(* HIGH means safe to remove: in a plain world no command compiles a line  *)
(* that a HIGH finding spans, in elif chains whose later branches the      *)
(* mapping swallowed, nested blocks and shared headers as well.            *)
HighIsSafe ==
  PlainWorld => \A d \in High(dead) : NeverCompiled(d.branch)

(* Code with a reachable line is never called dead.                        *)
CoveredIsAlive ==
  PlainWorld /\ LinesAreCompiled => \A d \in dead : Lines(d.branch) \cap world.lines = {}

(* Nothing that was mapped and is never compiled escapes, unless a line of *)
(* it was misfiled as reachable: in any world the report has every such    *)
(* branch with a line in it, HIGH or MEDIUM.                               *)
DeadIsReported ==
  output.written /\ LinesAreCompiled =>
    \A b \in Branches(ast) :
      NeverCompiled(b) /\ Lines(b) # {} => \E d \in dead : d.branch = b

TextLines(b) == {b[1]} \X Body(world.blocks[b[1]][b[2]][b[3]])

(* Dead text does not hide: in a file that one command reads, every line   *)
(* of a branch of the text that is not compiled lies in a finding, though  *)
(* blocks nested in dead text and the arms after a taken one reach no hook *)
(* and have no branch of their own.                                        *)
DeadTextIsReported ==
  output.written /\ LinesAreCompiled =>
    \A b \in Branches(world.blocks) :
      /\ Cardinality({i \in DOMAIN world.commands : Reads(world.commands[i], world, b[1])}) = 1
      /\ \A l \in TextLines(b) : ~CompiledLine(world, l)
      => TextLines(b) \subseteq UNION {Lines(d.branch) : d \in dead}

(* A file's findings come from the targets that compile it: a branch of a  *)
(* source file, in no other block and not in an elif chain, that no        *)
(* command compiles is HIGH, whatever other targets define.                *)
TopLevel(b) ==
  \A n \in 1..Len(world.blocks[b[1]]) :
    BranchAt(b).start \notin world.blocks[b[1]][n][1].start + 1 .. Last(world.blocks[b[1]][n]).end
      \/ n = b[2]

PlainlyDeadIsHigh ==
  output.written /\ PlainWorld =>
    \A b \in Branches(ast) :
      /\ TopLevel(b)
      /\ \A i \in 1..Len(ast[b[1]][b[2]]) : ast[b[1]][b[2]][i].kind # "elif"
      /\ \E c \in Range(world.commands) : c.file = b[1]
      /\ NeverCompiled(b) /\ Lines(b) # {}
      => \E d \in High(dead) : d.branch = b

(* No line is promised twice: although blocks nest and the sums just add   *)
(* the findings up, HIGH findings do not overlap, because the mapper has   *)
(* seen an inner block only if its last command compiles the outer branch. *)
SavedLinesAreDistinct ==
  output.written /\ PlainWorld =>
    output.highLoc = Cardinality(UNION {Lines(d.branch) : d \in High(dead)})
-----------------------------------------------------------------------------
(* correlator.py:117 says of HIGH, for any project, that the branch can    *)
(* never be compiled in any known build config.                            *)
HighNeverCompiled == \A d \in High(dead) : NeverCompiled(d.branch)
=============================================================================
