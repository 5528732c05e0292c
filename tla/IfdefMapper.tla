---------------------------- MODULE IfdefMapper -----------------------------
(***************************************************************************)
(* IfdefMapper.cpp: the stack machine that turns the preprocessor's        *)
(* callbacks of one translation unit into the blocks of ast_mapping.json.  *)
(* Each hook of the plugin is one action, taken together with the step of  *)
(* the preprocessor that calls it.                                         *)
(*                                                                         *)
(* A condition's text is not kept: it is the text of the directive on the  *)
(* line a branch starts at.                                                *)
(***************************************************************************)
EXTENDS Preprocessor

VARIABLES
  stack,       \* std::stack<StackFrame> stack
  fileBlocks,  \* std::map file -> std::vector<Block> fileBlocks
  flushed      \* writeJSON has written fileBlocks out

vars == <<text, inc, conds, entered, stack, fileBlocks, flushed>>

Sentinel == [sentinel |-> TRUE, file |-> "", kind |-> "", start |-> 0,
             branches |-> <<>>, cur |-> [kind |-> "", start |-> 0, end |-> 0]]

Init ==
  /\ PPInit
  /\ stack = <<>>
  /\ fileBlocks = [f \in File |-> <<>>]
  /\ flushed = FALSE

(* Mutant: every header is skipped.                                        *)
shouldSkip_Headers(loc) == loc.file # Main

shouldSkip(loc) == loc.file \in System

(* Mutant: the kind is left empty.                                         *)
OpenBranch_NoKind(kind, line) == [kind |-> "", start |-> line, end |-> 0]

OpenBranch(kind, line) == [kind |-> kind, start |-> line, end |-> 0]

pushBlock(kind, loc) ==
  Append(stack, [sentinel |-> FALSE, file |-> loc.file, kind |-> kind,
                 start |-> loc.line, branches |-> <<>>,
                 cur |-> OpenBranch(kind, loc.line)])

(* Mutant: the branch ends on the directive.                               *)
closeTopBranch_Inclusive(frame, line) ==
  [frame EXCEPT !.branches = Append(@, [frame.cur EXCEPT !.end = line])]

(* closeTopBranch: the branch ends on the line before the directive.       *)
closeTopBranch(frame, line) ==
  [frame EXCEPT !.branches = Append(@, [frame.cur EXCEPT !.end = line - 1])]

(* popBlock: what is filed of a frame at its #endif.                       *)
popBlock(frame, line) ==
  [kind |-> frame.kind, start |-> frame.start, end |-> line, branches |-> frame.branches]

Unread == UNCHANGED <<stack, fileBlocks, flushed>>

(* Mutant: a skipped header pushes no sentinel.                            *)
Opening_NoSentinel ==
  /\ Enter
  /\ stack' = IF shouldSkip(Here) THEN stack ELSE pushBlock(Word, Here)
  /\ UNCHANGED <<fileBlocks, flushed>>

(* Ifdef, Ifndef and If differ in the kind they record and in how they     *)
(* take the text of the condition.                                         *)
Opening ==
  /\ Enter
  /\ stack' = IF shouldSkip(Here) THEN Append(stack, Sentinel)
                                  ELSE pushBlock(Word, Here)
  /\ UNCHANGED <<fileBlocks, flushed>>

(* Mutant: Else is not overridden.                                         *)
NextBranch_NoElse ==
  /\ NextArm /\ Word \in {"elif", "else"}
  /\ stack' = IF stack = <<>> \/ Last(stack).sentinel \/ Word = "else" THEN stack
              ELSE SetTop(stack, [closeTopBranch(Last(stack), Here.line)
                                    EXCEPT !.cur = OpenBranch(Word, Here.line)])
  /\ UNCHANGED <<fileBlocks, flushed>>

(* Elif and Else.                                                          *)
NextBranch ==
  /\ NextArm /\ Word \in {"elif", "else"}
  /\ stack' = IF stack = <<>> \/ Last(stack).sentinel THEN stack
              ELSE SetTop(stack, [closeTopBranch(Last(stack), Here.line)
                                    EXCEPT !.cur = OpenBranch(Word, Here.line)])
  /\ UNCHANGED <<fileBlocks, flushed>>

(* The hooks Elifdef and Elifndef are inherited and do nothing.            *)
ElifdefIgnored == NextArm /\ Word = "elifdef" /\ Unread

EndifOfSentinel ==
  /\ Leave
  /\ stack # <<>> /\ Last(stack).sentinel
  /\ stack' = Front(stack)
  /\ UNCHANGED <<fileBlocks, flushed>>

(* closeTopBranch, then popBlock.                                          *)
EndifOfBlock ==
  /\ Leave
  /\ stack # <<>> /\ ~Last(stack).sentinel
  /\ fileBlocks' = [fileBlocks EXCEPT ![Last(stack).file] =
                      Append(@, popBlock(closeTopBranch(Last(stack), Here.line), Here.line))]
  /\ stack' = Front(stack)
  /\ UNCHANGED flushed

(* Directives the plugin never hears of.                                   *)
Unheard ==
  /\ EnterSkipped \/ PassArm \/ LeaveSkipped \/ Include \/ SkipLine \/ EndOfFile
  /\ Unread

(* HandleTranslationUnit flushes when the whole unit has been read.        *)
Flush ==
  /\ ~Reading /\ ~flushed
  /\ flushed' = TRUE
  /\ UNCHANGED <<text, inc, conds, entered, stack, fileBlocks>>

Next ==
  \/ Opening
  \/ NextBranch
  \/ ElifdefIgnored
  \/ EndifOfSentinel
  \/ EndifOfBlock
  \/ Unheard
  \/ Flush

Spec == Init /\ [][Next]_vars
-----------------------------------------------------------------------------
Branch == [kind : Openers \cup Arms, start : Nat, end : Nat]
Block  == [kind : Openers, start : Nat, end : Nat, branches : Seq(Branch)]
Frame  == {Sentinel} \cup
          [sentinel : {FALSE}, file : File, kind : Openers, start : Nat,
           branches : Seq(Branch), cur : Branch]

(* Types of the preprocessor's and the plugin's state.                     *)
TypeOK ==
  /\ PPTypeOK
  /\ stack \in Seq(Frame)
  /\ fileBlocks \in [File -> Seq(Block)]
  /\ flushed \in BOOLEAN

(* The plugin's stack and the preprocessor's never drift apart, whatever   *)
(* is skipped and whatever system headers are read in between: the         *)
(* conditionals the plugin never heard of are the last of those open,      *)
(* frame i belongs to the i-th one, and it is a sentinel exactly when that *)
(* one is in a system header (the promise of IMPLEMENTATION.md's section   *)
(* on system header skipping).                                             *)
Aligned ==
  /\ Len(stack) <= Len(conds)
  /\ \A i \in 1..Len(conds) : conds[i].skipped <=> i > Len(stack)
  /\ \A i \in 1..Len(stack) :
       IF stack[i].sentinel THEN conds[i].file \in System
       ELSE /\ conds[i].file \notin System
            /\ stack[i].file = conds[i].file
            /\ stack[i].start = conds[i].line

Recorded(f) == {fileBlocks[f][i] : i \in 1..Len(fileBlocks[f])}

(* A recorded block spans a conditional of the file it is filed under,     *)
(* from its opening directive to its own #endif, and its branches start at *)
(* directives of that conditional and no other.                            *)
BlocksMatchText ==
  \A f \in File : \A b \in Recorded(f) :
    /\ text[f][b.start] = b.kind
    /\ b.end = EndifOf(text[f], b.start)
    /\ \A i \in 1..Len(b.branches) :
         /\ b.branches[i].start \in {b.start} \cup ArmsOf(text[f], b.start)
         /\ b.branches[i].kind = text[f][b.branches[i].start]

(* The branches of a block cover it without gap or overlap, so a line is   *)
(* in one branch of it only and Phase 4 counts no line twice.              *)
BranchesTile ==
  \A f \in File : \A b \in Recorded(f) :
    /\ b.branches # <<>>
    /\ b.branches[1].start = b.start
    /\ Last(b.branches).end = b.end - 1
    /\ \A i \in 1..Len(b.branches)-1 :
         b.branches[i].end + 1 = b.branches[i+1].start

(* So the lines of a block are shared out to branches that the text has:   *)
(* each is in one branch, that of the last recorded directive at or before *)
(* it.  Lines of an arm that is not recorded, of an #elifdef or of an arm  *)
(* later than the one after the taken arm, go to the branch before it.     *)
BlocksAreExact == BlocksMatchText /\ BranchesTile

(* The arms of a conditional of text t that reach a hook, whatever is      *)
(* nested in them: those up to the taken one and the one after it.         *)
HeardArms(t, c) ==
  {k \in ArmsOf(t, c.line) :
     c.took # 0 => ArmsOf(t, c.line) \cap c.took+1..k-1 = {}}

(* What Clang calls a hook for is filed, no more and no less: a block has  *)
(* the branches up to the one after the taken one, but for the arms of the *)
(* hooks that the plugin inherits.  (EVALUATION.md:404 has each arm filed, *)
(* the later ones too: Evaluation shows that they are not.)                *)
FiledAsHeard ==
  [][\A f \in File : fileBlocks'[f] # fileBlocks[f] =>
       {b.start : b \in Range(Last(fileBlocks'[f]).branches)} =
         {Last(conds).line} \cup {k \in HeardArms(text[f], Last(conds)) : text[f][k] # "elifdef"}]_vars

(* Every conditional outside system headers that the preprocessor looked   *)
(* at is in the mapping in the end, once for each time it was looked at,   *)
(* and nothing else is.                                                    *)
Times(seq, line) == Cardinality({i \in 1..Len(seq) : seq[i] = line})

NothingLost ==
  flushed =>
    \A f \in File : \A line \in 1..Len(text[f]) :
      Cardinality({i \in 1..Len(fileBlocks[f]) : fileBlocks[f][i].start = line})
        = IF f \in System THEN 0 ELSE Times(entered[f], line)
=============================================================================
