---------------------------- MODULE Preprocessor ----------------------------
(***************************************************************************)
(* Clang's preprocessor, as far as IfdefMapper.cpp depends on it: which    *)
(* conditional directives of a translation unit reach a PPCallbacks hook,  *)
(* and where.  Clang is not part of the repository; this is the behaviour  *)
(* the plugin is written against.                                          *)
(*                                                                         *)
(*   - A directive inside skipped text reaches no hook.                    *)
(*   - #elif and #else reach a hook while no arm of their conditional has  *)
(*     been taken, and when they end the taken arm; the later ones are     *)
(*     thrown away unread.                                                 *)
(*   - Truth of a condition is left open, so that one model stands for     *)
(*     every set of -D flags and every #define.                            *)
(***************************************************************************)
EXTENDS Naturals, Sequences, FiniteSets, SequencesExt

CONSTANTS
  File,     \* names of files
  Main,     \* the file a translation unit starts from
  System,   \* the files SourceManager calls system headers
  Texts     \* the file contents to check: functions from File to directives

Openers == {"ifdef", "ifndef", "if"}
Arms    == {"elif", "elifdef", "else"}
Plain   == {"endif", "code"}

(* A directive is the word of it, or the name of the file an #include      *)
(* names.  A line of text that is no directive is "code".                  *)
Directive == Openers \cup Arms \cup Plain \cup File

(* No file is named like the word of a directive.                          *)
ASSUME FileAssumption ==
  Main \in File /\ File \cap (Openers \cup Arms \cup Plain) = {}

Count(t, k, S) == Cardinality({i \in 1..k : t[i] \in S})
Depth(t, k) == Count(t, k, Openers) - Count(t, k, {"endif"})

(* The line of the #endif that ends the conditional opened on line i, and  *)
(* the lines of its other arms.                                            *)
EndifOf(t, i) ==
  CHOOSE j \in i+1..Len(t) :
    /\ Depth(t, j) < Depth(t, i)
    /\ \A k \in i+1..j-1 : Depth(t, k) >= Depth(t, i)
ArmsOf(t, i) ==
  {k \in i+1..EndifOf(t, i) : t[k] \in Arms /\ Depth(t, k) = Depth(t, i)}

(* What a compiler accepts: conditionals balanced within each file, no arm *)
(* outside one or after its #else.                                         *)
WellNested(t) ==
  /\ \A k \in 1..Len(t) : Count(t, k, {"endif"}) <= Count(t, k, Openers)
  /\ Count(t, Len(t), {"endif"}) = Count(t, Len(t), Openers)
  /\ \A k \in 1..Len(t) : t[k] \in Arms => Depth(t, k) > 0
  /\ \A i \in 1..Len(t) : t[i] \in Openers =>
       \A k, l \in ArmsOf(t, i) : k < l => t[k] # "else"

ASSUME TextsAssumption ==
  \A text \in Texts : \A f \in File :
    text[f] \in Seq(Directive) /\ WellNested(text[f])

VARIABLES
  text,     \* the contents of the files, fixed
  inc,      \* the include stack: file and the line about to be read
  conds,    \* the conditional stack: took is the line of the arm that is
            \* compiled, 0 while there is none
  entered   \* history: lines of the conditionals a hook was called for

ppVars == <<text, inc, conds, entered>>

PPInit ==
  /\ text \in Texts
  /\ inc = <<[file |-> Main, line |-> 1]>>
  /\ conds = <<>>
  /\ entered = [f \in File |-> <<>>]

Reading == inc # <<>>
Here == Last(inc)
AtEnd == Here.line > Len(text[Here.file])
Word == text[Here.file][Here.line]
Skipping == conds # <<>> /\ ~Last(conds).live

Advance == inc' = [inc EXCEPT ![Len(inc)].line = @ + 1]
SetTop(s, e) == Append(Front(s), e)

OnDirective(S) == Reading /\ ~AtEnd /\ Word \in S

(* #if, #ifdef, #ifndef in text that is compiled: the hook is called.      *)
Enter ==
  /\ OnDirective(Openers) /\ ~Skipping
  /\ \E v \in BOOLEAN :
       conds' = Append(conds, [file |-> Here.file, line |-> Here.line,
                               skipped |-> FALSE, live |-> v,
                               took |-> IF v THEN Here.line ELSE 0])
  /\ entered' = [entered EXCEPT ![Here.file] = Append(@, Here.line)]
  /\ Advance /\ UNCHANGED text

EnterSkipped ==
  /\ OnDirective(Openers) /\ Skipping
  /\ conds' = Append(conds, [file |-> Here.file, line |-> Here.line,
                             skipped |-> TRUE, live |-> FALSE, took |-> 0])
  /\ Advance /\ UNCHANGED <<text, entered>>

(* An arm reaches its hook unless it is in skipped text or comes after the *)
(* end of the taken arm.                                                   *)
ArmIsRead ==
  LET top == Last(conds) IN ~top.skipped /\ (top.took # 0 => top.live)

NextArm ==
  /\ OnDirective(Arms) /\ ArmIsRead
  /\ \E v \in BOOLEAN :
       /\ Last(conds).took # 0 => ~v
       /\ Last(conds).took = 0 /\ Word = "else" => v
       /\ conds' = SetTop(conds, [Last(conds) EXCEPT !.live = v,
                                                     !.took = IF v THEN Here.line ELSE @])
  /\ Advance /\ UNCHANGED <<text, entered>>

PassArm ==
  /\ OnDirective(Arms) /\ ~ArmIsRead
  /\ Advance /\ UNCHANGED <<text, conds, entered>>

Leave ==
  /\ OnDirective({"endif"}) /\ ~Last(conds).skipped
  /\ conds' = Front(conds)
  /\ Advance /\ UNCHANGED <<text, entered>>

LeaveSkipped ==
  /\ OnDirective({"endif"}) /\ Last(conds).skipped
  /\ conds' = Front(conds)
  /\ Advance /\ UNCHANGED <<text, entered>>

Include ==
  /\ OnDirective(File) /\ ~Skipping
  /\ inc' = Append([inc EXCEPT ![Len(inc)].line = @ + 1],
                   [file |-> Word, line |-> 1])
  /\ UNCHANGED <<text, conds, entered>>

SkipLine ==
  /\ OnDirective({"code"} \cup File) /\ (Word = "code" \/ Skipping)
  /\ Advance /\ UNCHANGED <<text, conds, entered>>

EndOfFile ==
  /\ Reading /\ AtEnd
  /\ inc' = Front(inc)
  /\ UNCHANGED <<text, conds, entered>>

PPTypeOK ==
  /\ \A f \in File : text[f] \in Seq(Directive)
  /\ inc \in Seq([file : File, line : Nat \ {0}])
  /\ conds \in Seq([file : File, line : Nat \ {0}, skipped : BOOLEAN,
                    live : BOOLEAN, took : Nat])
  /\ entered \in [File -> Seq(Nat \ {0})]
=============================================================================
