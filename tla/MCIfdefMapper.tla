--------------------------- MODULE MCIfdefMapper ----------------------------
(***************************************************************************)
(* Translation units for IfdefMapper: every main file of MaxLen lines over *)
(* the directives below, with a user header and a system header that have  *)
(* conditionals of their own.                                              *)
(***************************************************************************)
EXTENDS IfdefMapper

CONSTANTS
  MaxLen,     \* lines of the main file
  MainWords   \* the directives it is made of

Files == {"main.cpp", "user.h", "sys.h"}
UserHeaders == {<<"ifndef", "ifdef", "else", "endif", "endif">>,
                <<"code", "if", "sys.h", "endif">>}
SystemHeader == <<"if", "ifdef", "elif", "endif", "endif">>

MainTexts == {t \in [1..MaxLen -> MainWords] : WellNested(t)}

AllTexts ==
  {[f \in Files |-> CASE f = "main.cpp" -> m [] f = "user.h" -> u
                      [] f = "sys.h" -> SystemHeader] :
     m \in MainTexts, u \in UserHeaders}


(* The conditional opened on line s of text t as Phase 4 has it: the       *)
(* condition of each branch is the macro named like its line.              *)
P4 == INSTANCE BuildConfig WITH
        Target <- {}, Macro <- Nat, Expr <- {}, Meaning <- LAMBDA expr, on : FALSE

TextBlock(t, s) ==
  LET lines == SetToSortSeq({s} \cup ArmsOf(t, s), <)
  IN  [i \in 1..Len(lines) |->
         [kind |-> t[lines[i]], condition |-> lines[i], start |-> lines[i],
          end |-> IF i = Len(lines) THEN EndifOf(t, s) - 1 ELSE lines[i + 1] - 1]]

(* The -D flags under which the branch on line took is the first that is   *)
(* true.                                                                   *)
FlagsFor(t, took) ==
  {<<line, "on">> : line \in {l \in 1..Len(t) : (t[l] = "ifndef") # (l = took)}}

(* Phase 4 works on the branches Phase 2 files: a block that is filed,     *)
(* without the arms whose hooks the plugin inherits, has the branches that *)
(* Phase 4's Recorded says, from the same lines to the same lines.         *)
FiledAsPhase4Reads ==
  [][\A f \in File : fileBlocks'[f] # fileBlocks[f] =>
       LET c     == Last(conds)
           block == TextBlock(text[f], c.line)
           read  == P4!Recorded(<<>>, block, FlagsFor(text[f], c.took))
           filed == Last(fileBlocks'[f]).branches
       IN  (\A k \in ArmsOf(text[f], c.line) : text[f][k] # "elifdef") =>
             filed = [i \in 1..Len(read) |->
                        [kind |-> read[i].kind, start |-> read[i].start, end |-> read[i].end]]]_vars
=============================================================================
