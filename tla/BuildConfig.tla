---------------------------- MODULE BuildConfig -----------------------------
(***************************************************************************)
(* What Phase 4 joins: the compile commands CMake wrote, the config map    *)
(* extractor.py makes of them, the conditionals IfdefMapper records under  *)
(* a command; and what the compiler really does with a line under a        *)
(* command, against which Phase 4's answers are judged.                    *)
(***************************************************************************)
EXTENDS Naturals, Sequences, FiniteSets, SequencesExt

CONSTANTS
  Target,   \* build targets
  File,     \* source files and headers
  Macro,    \* macro names
  Expr,     \* conditions that are more than the name of a macro
  Meaning(_, _)   \* is an Expr true when a set of macros is nonzero?

ASSUME CondAssumption == Macro \cap Expr = {} /\ "" \notin Macro \cup Expr

(* -DM or -DM=1, and -DM=0.                                                *)
Define == Macro \X {"on", "zero"}

(* A command's own flags, and what the headers it reads define.            *)
Command == [target : Target, file : File,
            defines : SUBSET Define, headerDefines : SUBSET Define]

(* A branch: its directive, the line of it and the last line before the    *)
(* next directive of its block.  A block is the sequence of its branches.  *)
Branch == [kind : {"ifdef", "ifndef", "if", "elif", "else"},
           condition : Macro \cup Expr \cup {""}, start : Nat, end : Nat]

-----------------------------------------------------------------------------
(* analyze_compile_commands: a target defines what any of its commands do. *)
CommandsOf(commands, t) == {c \in Range(commands) : c.target = t}

TargetsOf(commands) == {c.target : c \in Range(commands)}

TargetDefines(commands, t) == UNION {c.defines : c \in CommandsOf(commands, t)}

TargetFiles(commands, t) == {c.file : c \in CommandsOf(commands, t)}

strip_value(define) == define[1]

Names(defines) == {strip_value(d) : d \in defines}

(* build_config_macro_sets                                                 *)
ConfigSets(commands) ==
  [t \in TargetsOf(commands) |-> Names(TargetDefines(commands, t))]

(* Mutant: every target counts for every file.                             *)
FileConfigs_AllTargets(commands, f) == ConfigSets(commands)

(* build_file_config_sets and the look-up in correlate: the targets that   *)
(* compile the file, all targets for a file no command names.              *)
FileConfigs(commands, f) ==
  LET own == {t \in TargetsOf(commands) : f \in TargetFiles(commands, t)}
      all == ConfigSets(commands)
  IN  IF own = {} THEN all ELSE [t \in own |-> all[t]]

-----------------------------------------------------------------------------
(* What the preprocessor does.                                             *)
InForce(command) == command.defines \cup command.headerDefines

Nonzero(defines) == Names(defines \cap (Macro \X {"on"}))

Holds(branch, defines) ==
  \/ branch.kind = "else"
  \/ branch.kind = "ifdef"  /\ branch.condition \in Names(defines)
  \/ branch.kind = "ifndef" /\ branch.condition \notin Names(defines)
  \/ /\ branch.kind \in {"if", "elif"}
     /\ \/ branch.condition \in Nonzero(defines)
        \/ branch.condition \in Expr /\ Meaning(branch.condition, Nonzero(defines))

Taken(block, i, defines) ==
  /\ Holds(block[i], defines)
  /\ \A j \in 1..i-1 : ~Holds(block[j], defines)

(* body_lines: the lines of a branch after its directive.                  *)
Body(branch) == branch.start + 1 .. branch.end

(* A line is compiled if it is in the taken branch of every block it is in.*)
Compiled(blocks, line, defines) ==
  \A n \in 1..Len(blocks) :
    line \in blocks[n][1].start + 1 .. Last(blocks[n]).end =>
      \E i \in 1..Len(blocks[n]) : Taken(blocks[n], i, defines) /\ line \in Body(blocks[n][i])

(* Mutant: the last branch recorded keeps the end it has in the text.      *)
Recorded_OwnEnd(blocks, block, defines) ==
  LET heard == {i \in 1..Len(block) : \A j \in 1..i-2 : ~Taken(block, j, defines)}
  IN  IF ~Compiled(blocks, block[1].start, defines) THEN <<>>
      ELSE SubSeq(block, 1, Cardinality(heard))

(* What IfdefMapper records of a block (see IfdefMapper.tla): nothing if   *)
(* the block is in skipped text, and no directive later than the one after *)
(* the taken branch, so that the last branch recorded ends with the block. *)
Recorded(blocks, block, defines) ==
  LET heard == {i \in 1..Len(block) : \A j \in 1..i-2 : ~Taken(block, j, defines)}
      n     == Cardinality(heard)
  IN  IF ~Compiled(blocks, block[1].start, defines) THEN <<>>
      ELSE [SubSeq(block, 1, n) EXCEPT ![n].end = Last(block).end]
=============================================================================
