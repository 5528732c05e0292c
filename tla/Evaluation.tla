----------------------------- MODULE Evaluation -----------------------------
(***************************************************************************)
(* EVALUATION.md: the tool is run on one test project after the other, and *)
(* what it reports of each is put down beside what is expected.            *)
(***************************************************************************)
EXTENDS Testcases

VARIABLES
  rest,      \* the projects still to be evaluated, one of them right now
  reports    \* what has been found in the others

evars == <<vars, rest, reports>>

(* Counts of a project's findings, and of the elif arms that ast_mapping.  *)
(* json has as branches of their own.                                      *)
Report(high, medium, elifs) ==
  [made |-> TRUE, high |-> high, medium |-> medium, elifs |-> elifs]

(* Phase 3 raises when llvm-link fails, and there is no Phase 4.           *)
NoReport == [Report(0, 0, 0) EXCEPT !.made = FALSE]

Elifs(blocks) ==
  Cardinality({b \in Branches(blocks) : blocks[b[1]][b[2]][b[3]].kind = "elif"})

(* In which order makes no difference.                                     *)
Current(projects) == CHOOSE n \in projects : TRUE

EvaluationInit ==
  /\ rest = Linkable
  /\ reports = [n \in DOMAIN Suite \ Linkable |-> NoReport]
  /\ Init /\ world = WorldOf[Current(rest)]

(* A project's report is there, and the tool is run on the next.           *)
PutDown ==
  /\ rest # {} /\ output.written
  /\ reports' = reports @@
       (Current(rest) :> Report(output.high, output.total - output.high, Elifs(ast)))
  /\ rest' = rest \ {Current(rest)}
  /\ IF rest' = {} THEN UNCHANGED vars
     ELSE /\ world' = WorldOf[Current(rest')] /\ ast' = ast_mapping(world')
          /\ todo' = Branches(ast') /\ dead' = {} /\ output' = NoOutput

EvaluationNext == PutDown \/ (Next /\ UNCHANGED <<rest, reports>>)

EvaluationSpec == EvaluationInit /\ [][EvaluationNext]_evars
-----------------------------------------------------------------------------
(* EVALUATION.md states for each test project how many findings the tool   *)
(* reports of either confidence, and of elif chains that each arm is a     *)
(* branch of its own in ast_mapping.json.                                  *)
AsDocumented ==
  rest = {} =>
    \A n \in DOMAIN Suite :
      LET text == [f \in File |-> Text(Suite[n], f)]
      IN  reports[n] = Report(Documented(n)[1], Documented(n)[2], Elifs(text))
=============================================================================
