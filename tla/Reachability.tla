---------------------------- MODULE Reachability ----------------------------
(***************************************************************************)
(* DeadFeaturePass.cpp: computeReachable as a worklist algorithm and run,  *)
(* which turns the reachable set into reachability.json.                   *)
(*                                                                         *)
(* The std::queue is a set here: which waiting function is visited next is *)
(* left open, so the results hold for every visiting order.  One Visit is  *)
(* one turn of a while loop; the loops that only read are one step.        *)
(***************************************************************************)
EXTENDS LLVMModule

VARIABLES
  ir,         \* the module, never changed by the pass
  pc,         \* where computeReachable is
  reachable,  \* std::set reachable
  worklist,   \* std::queue worklist
  json        \* what writeJSON wrote, NoJson before

vars == <<ir, pc, reachable, worklist, json>>

NoJson == [entryPoints |-> {}, reachable |-> {}, unreachable |-> {}, lines |-> {}]

Init ==
  /\ ir \in Modules
  /\ pc = "seed"
  /\ reachable = {}
  /\ worklist = {}
  /\ json = NoJson

(* Mutant: declarations are enqueued too.                                  *)
Fresh_Declarations(S) == S \ reachable

(* Mutant: functions already reached are enqueued again.                   *)
Fresh_Again(S) == S \cap ir.defined

(* The lambda enqueue, applied to every function of S: declarations and    *)
(* functions already reached are dropped.                                  *)
Fresh(S) == (S \cap ir.defined) \ reachable

Enqueue(S, rest) ==
  /\ reachable' = reachable \cup Fresh(S)
  /\ worklist' = rest \cup Fresh(S)

(* Mutant: every definition is a seed.                                     *)
Seed_Everything ==
  /\ pc = "seed"
  /\ Enqueue(ir.defined, {})
  /\ pc' = "bfs"
  /\ UNCHANGED <<ir, json>>

(* main and every external-linkage definition.                             *)
Seed ==
  /\ pc = "seed"
  /\ Enqueue(ir.entry, {})
  /\ pc' = "bfs"
  /\ UNCHANGED <<ir, json>>

(* Pop a function, enqueue the callee of each direct call in its body.     *)
Visit ==
  /\ pc \in {"bfs", "again"}
  /\ \E f \in worklist : Enqueue(ir.calls[f], worklist \ {f})
  /\ UNCHANGED <<ir, pc, json>>

(* Mutant: dead functions are scanned for indirect calls as well.          *)
HasIndirectCall_Anywhere == ir.indirect # {}

(* The first search is over: does any reachable body call indirectly?      *)
HasIndirectCall == reachable \cap ir.indirect # {}

(* Mutant: what the address-taken functions call is not searched.          *)
AddAddressTaken_Unsearched ==
  /\ pc = "bfs" /\ worklist = {}
  /\ HasIndirectCall
  /\ reachable' = reachable \cup Fresh(ir.addressTaken)
  /\ worklist' = {}
  /\ pc' = "again"
  /\ UNCHANGED <<ir, json>>

AddAddressTaken ==
  /\ pc = "bfs" /\ worklist = {}
  /\ HasIndirectCall
  /\ Enqueue(ir.addressTaken, {})
  /\ pc' = "again"
  /\ UNCHANGED <<ir, json>>

NoIndirectCall ==
  /\ pc = "bfs" /\ worklist = {}
  /\ ~HasIndirectCall
  /\ pc' = "emit"
  /\ UNCHANGED <<ir, reachable, worklist, json>>

(* Mutant: the second search may stop with functions waiting.              *)
SecondSearchOver_Early ==
  /\ pc = "again"
  /\ pc' = "emit"
  /\ UNCHANGED <<ir, reachable, worklist, json>>

SecondSearchOver ==
  /\ pc = "again" /\ worklist = {}
  /\ pc' = "emit"
  /\ UNCHANGED <<ir, reachable, worklist, json>>

(* extractFunctionInfo: every line of the body goes to the file of the     *)
(* function's own subprogram, whichever file the location names, and if it *)
(* has none, to the file of the first one.                                 *)
FunctionLines(f) ==
  FileOf(ir, f) \X {loc[2] : loc \in {l \in ir.locs[f] : l[2] # 0}}

(* Mutant: the lines of every definition are collected.                    *)
Emit_AllLines ==
  /\ pc = "emit"
  /\ json' = [entryPoints |-> ir.entry,
              reachable   |-> ir.defined \cap reachable,
              unreachable |-> ir.defined \ reachable,
              lines       |-> UNION {FunctionLines(f) : f \in ir.defined}]
  /\ pc' = "done"
  /\ UNCHANGED <<ir, reachable, worklist>>

(* The rest of run: partition the definitions, collect lines, write.       *)
Emit ==
  /\ pc = "emit"
  /\ json' = [entryPoints |-> ir.entry,
              reachable   |-> ir.defined \cap reachable,
              unreachable |-> ir.defined \ reachable,
              lines       |-> UNION {FunctionLines(f) : f \in ir.defined \cap reachable}]
  /\ pc' = "done"
  /\ UNCHANGED <<ir, reachable, worklist>>

Next ==
  \/ Seed
  \/ Visit
  \/ AddAddressTaken
  \/ NoIndirectCall
  \/ SecondSearchOver
  \/ Emit

Spec == Init /\ [][Next]_vars

(* The pass is one thread that never blocks: it keeps taking steps.        *)
FairSpec == Spec /\ WF_vars(Next)
-----------------------------------------------------------------------------
(* Types, and the shape of the worklist: only reached definitions wait.    *)
TypeOK ==
  /\ ir \in IRModule /\ WellFormed(ir)
  /\ pc \in {"seed", "bfs", "again", "emit", "done"}
  /\ reachable \subseteq ir.defined
  /\ worklist \subseteq reachable
  /\ json \in [entryPoints : SUBSET Function, reachable : SUBSET Function,
               unreachable : SUBSET Function, lines : SUBSET (File \X Nat)]

(* No over-approximation beyond the documented rule: whatever has been     *)
(* reached so far is in every closed set, so a function the rule does not  *)
(* justify is never reached.                                               *)
OnlyJustified == reachable \subseteq Live(ir)

(* Scanning for indirect calls once, between the two searches, is enough:  *)
(* when the answer is out no function is missing, in particular none that  *)
(* only the second search found and that itself calls indirectly.          *)
NothingMissed == pc \in {"emit", "done"} => Live(ir) \subseteq reachable

(* A function reported dead is not called, directly or through a pointer,  *)
(* by any function reported live, and every entry point is reported live.  *)
DeadIsIsolated ==
  pc = "done" =>
    /\ json.entryPoints \cap json.unreachable = {}
    /\ Callees(ir, json.reachable) \cap json.unreachable = {}
    /\ json.reachable \cap ir.indirect # {} =>
         ir.addressTaken \cap json.unreachable = {}

(* Every line of a live function that lies in the function's own file is   *)
(* reported: Phase 4 takes a line that is missing here as dead code.       *)
LinesOfLiveFunctions ==
  pc = "done" =>
    \A f \in Live(ir) : \A loc \in ir.locs[f] :
      loc[1] \in FileOf(ir, f) /\ loc[2] # 0 => loc \in json.lines

(* A function's text comes from its own file, none is included into it.    *)
OwnText(f) == \A loc \in ir.locs[f] : loc[1] \in FileOf(ir, f)

(* And the damage that misfiled lines do is confined: in a file none of    *)
(* whose live functions has text of another file in it, only lines of live *)
(* code are reported, so that Phase 4 takes no dead line for a live one.   *)
LinesAreOfLiveCode ==
  pc = "done" =>
    \A line \in json.lines :
      (\A f \in Live(ir) : line[1] \in FileOf(ir, f) => OwnText(f))
        => line[2] # 0 /\ \E f \in Live(ir) : line \in ir.locs[f]

(* What Phase 4 is told: all lines of live code, and in such files no more.*)
LinesAreThoseOfLiveCode == LinesOfLiveFunctions /\ LinesAreOfLiveCode

(* The worklist runs dry: the pass always writes its result.               *)
Terminates == <>(pc = "done")

(* The pass implements the closure it stands for.                          *)
Closure == INSTANCE CallGraphClosure
             WITH live <- reachable, done <- (pc = "done")
ImplementsClosure == Closure!Spec
-----------------------------------------------------------------------------
(* What IMPLEMENTATION.md:280 claims of explicit function pointers: a      *)
(* function whose address a live function hands out is not reported dead.  *)
CallbacksAreLive ==
  pc = "done" =>
    \A f \in json.reachable : ir.registers[f] \cap json.unreachable = {}
=============================================================================
