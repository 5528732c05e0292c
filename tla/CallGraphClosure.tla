-------------------------- MODULE CallGraphClosure --------------------------
(***************************************************************************)
(* What the reachability pass promises, without its worklist and its two   *)
(* searches: functions become live only for a reason, and the answer is    *)
(* announced only when no further function has one.                        *)
(***************************************************************************)
EXTENDS LLVMModule

VARIABLES
  ir,     \* the module under analysis
  live,   \* the functions found to be live so far
  done    \* the answer has been announced

vars == <<ir, live, done>>

Init ==
  /\ ir \in IRModule /\ WellFormed(ir)
  /\ live = {}
  /\ done = FALSE

(* Any functions that have a reason may join, in any number and order.     *)
Grow ==
  /\ ~done
  /\ \E T \in SUBSET Reasons(ir, live) : live' = live \cup T
  /\ UNCHANGED <<ir, done>>

Announce ==
  /\ ~done
  /\ Closed(ir, live)
  /\ done' = TRUE
  /\ UNCHANGED <<ir, live>>

Next == Grow \/ Announce

Spec == Init /\ [][Next]_vars
=============================================================================
