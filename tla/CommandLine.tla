---------------------------- MODULE CommandLine -----------------------------
(***************************************************************************)
(* How the two readers of compile_commands.json take a command apart:      *)
(* extractor.py for the config map, pipeline.py for the flags it hands to  *)
(* the compiler.  An argument is a record of its option and what is glued  *)
(* to it: -DX, -D alone, or a plain word.  A define stands for its macro.  *)
(***************************************************************************)
EXTENDS Naturals, Sequences

CONSTANTS
  Source,   \* source files
  Macro,    \* macro names
  Target,   \* build targets
  None

ASSUME MacroAssumption == "" \notin Macro

Argument == [opt : {"-D", "/D", "-U", "-o", ""}, arg : Macro \cup Target \cup {""}]

(* An entry; output is the target in the path of the field of that name.   *)
Entry == [file : Source, output : Target \cup {None}, arguments : Seq(Argument)]

(* An option that takes the next argument, which exists.                   *)
Alone(args, i) == args[i].arg = "" /\ i < Len(args)

(* As in every command that compiles, an option that defines a macro has   *)
(* one, glued to it or in the next argument.                               *)
NamesMacros(args) ==
  \A i \in DOMAIN args : args[i].opt \in {"-D", "/D"} =>
    \/ args[i].arg \in Macro
    \/ Alone(args, i) /\ args[i + 1].opt = "" /\ args[i + 1].arg \in Macro

extract_defines(args) ==
  LET from[i \in 1..Len(args) + 1] ==
        IF i > Len(args) THEN {}
        ELSE IF args[i].opt \notin {"-D", "/D"} THEN from[i + 1]
        ELSE IF Alone(args, i) THEN ({args[i + 1].arg} \ {""}) \cup from[i + 2]
        ELSE ({args[i].arg} \ {""}) \cup from[i + 1]
  IN  from[1]

(* Mutant: only -DX is known, -D X is not.                                 *)
parse_entry_flags_Glued(entry) ==
  {a.arg : a \in {b \in {entry.arguments[i] : i \in DOMAIN entry.arguments} : b.opt = "-D"}}

(* Of the flags kept, -D -I -std, the ones that define macros.  -U is not  *)
(* kept, and /D is no option to clang.                                     *)
parse_entry_flags(entry) ==
  LET args == entry.arguments
      from[i \in 1..Len(args) + 1] ==
        IF i > Len(args) THEN {}
        ELSE IF args[i].opt # "-D" THEN from[i + 1]
        ELSE IF Alone(args, i) THEN {args[i + 1].arg} \cup from[i + 2]
        ELSE {args[i].arg} \cup from[i + 1]
  IN  from[1]

(* The target in the output field, in the argument of -o, or a made-up one.*)
infer_target_name(entry) ==
  LET args    == entry.arguments
      objects == {i \in DOMAIN args : args[i].opt = "-o" /\ Alone(args, i)
                                        /\ args[i + 1].arg \in Target}
  IN  IF entry.output # None THEN entry.output
      ELSE IF objects = {} THEN <<"unknown", entry.file>>
      ELSE args[(CHOOSE i \in objects : \A j \in objects : i <= j) + 1].arg

(* analyze_compile_commands and write_output.                              *)
ConfigMap(entries) ==
  {[target |-> infer_target_name(entries[i]), source |-> entries[i].file,
    defines |-> extract_defines(entries[i].arguments)] : i \in DOMAIN entries}
=============================================================================
