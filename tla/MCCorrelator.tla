--------------------------- MODULE MCCorrelator -----------------------------
(***************************************************************************)
(* Projects for Correlator: one source file and one header.  The source    *)
(* has a block with another one in its first branch:                       *)
(*    1 #K A   2 code   3 #k B   4 code   5 #endif                         *)
(*    then nothing, an else, or an elif with code and an else without      *)
(* and the header has a conditional of its own.                            *)
(***************************************************************************)
EXTENDS Testcases

CONSTANTS t, u,            \* targets
          src, other, hdr, \* two sources and a header
          A, B, AisOn,     \* macros, and a condition on the value of A
          Kinds,           \* what the outer block may open with
          Conditions       \* and on what condition

At(kind, cond, first, last) ==
  [kind |-> kind, condition |-> cond, start |-> first, end |-> last]

AllFiles == {src, other, hdr} \cup SuiteFile

Tails == {<<>>,
          <<At("else", "", 6, 7)>>,
          <<At("elif", B, 6, 7), At("else", "", 8, 8)>>}

InHeader == <<<<At("ifndef", A, 1, 2), At("else", "", 3, 4)>>>>

Layouts ==
  {[f \in AllFiles |->
      CASE f = src -> <<<<At(kind, cond, 1, 5)>> \o tail, <<At(inner, B, 3, 4)>>>>
        [] f = hdr -> InHeader
        [] OTHER   -> <<>>] :
     kind \in Kinds, cond \in Conditions, tail \in Tails, inner \in {"ifdef", "ifndef"}}

On(macros) == macros \X {"on"}
Compile(target, file, macros) ==
  [target |-> target, file |-> file, defines |-> On(macros), headerDefines |-> {}]

(* t compiles the source; u compiles it too, or another one before or      *)
(* after it (whose only conditional is the header's), or is not there.     *)
(* Each target has one set of defines.                                     *)
UniformCommands ==
  {<<Compile(t, src, x)>> : x \in SUBSET {A, B}} \cup
  {<<Compile(t, src, x), Compile(u, src, y)>> : x, y \in SUBSET {A, B}} \cup
  {<<Compile(t, src, x), Compile(u, other, y)>> : x \in SUBSET {A, B}, y \in SUBSET {A}} \cup
  {<<Compile(u, other, y), Compile(t, src, x)>> : x \in SUBSET {A, B}, y \in SUBSET {A}}

(* The same with defines that differ between the files of target t.        *)
MixedCommands ==
  {<<Compile(t, src, x), Compile(t, other, y)>> : x, y \in SUBSET {A, B}}

(* A header defines the macro.                                             *)
HeaderCommands ==
  {<<[Compile(t, src, x) EXCEPT !.headerDefines = On({A})]>> : x \in SUBSET {B}}

WorldsWith(commands) ==
  [commands : commands,
   includes : {{<<src, hdr>>}, {<<src, hdr>>, <<other, hdr>>}},
   blocks   : Layouts,
   lines    : SUBSET {<<src, 2>>, <<src, 4>>, <<src, 7>>, <<hdr, 2>>}]

(* Projects of each kind, and the test projects.                           *)
AllWorlds     == WorldsWith(UniformCommands \cup HeaderCommands) \cup SuiteWorlds
MixedWorlds   == WorldsWith(MixedCommands)

AllMacros  == {A, B} \cup SuiteMacro
AllExpr    == {AisOn} \cup SuiteExpr
AllTargets == {t, u} \cup SuiteTarget
Truth(condition, nonzero) ==
  (condition = AisOn /\ A \in nonzero) \/ SuiteMeaning(condition, nonzero)
=============================================================================
