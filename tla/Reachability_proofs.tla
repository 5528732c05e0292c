------------------------ MODULE Reachability_proofs -------------------------
(***************************************************************************)
(* Proofs about Reachability for every set of functions, files and modules.*)
(* The inductive invariant IInv says of each phase what has been settled:  *)
(* a visited function's callees are reached, the entry points are reached  *)
(* once seeded, and the second search starts with every address-taken      *)
(* definition reached.                                                     *)
(***************************************************************************)
EXTENDS Reachability, TLAPS

(* The callees of a visited function are reached or are declarations.      *)
VisitedDone ==
  \A f \in reachable \ worklist : ir.calls[f] \cap ir.defined \subseteq reachable

Phases ==
  /\ pc = "seed" => reachable = {} /\ worklist = {}
  /\ pc # "seed" => ir.entry \subseteq reachable
  /\ pc = "again" =>
       HasIndirectCall /\ ir.addressTaken \cap ir.defined \subseteq reachable
  /\ pc \in {"emit", "done"} => worklist = {} /\ Closed(ir, reachable)

JsonIsPartition ==
  pc = "done" =>
    /\ json.entryPoints = ir.entry
    /\ json.reachable = reachable
    /\ json.unreachable = ir.defined \ reachable

IInv == TypeOK /\ VisitedDone /\ Phases /\ JsonIsPartition /\ OnlyJustified

-----------------------------------------------------------------------------
(* What a closed set contains, in the terms the actions use.               *)
LEMMA ClosedContains ==
  ASSUME NEW m, NEW S, Closed(m, S), m.entry \subseteq m.defined
  PROVE  /\ m.entry \subseteq S
         /\ \A f \in S : m.calls[f] \cap m.defined \subseteq S
         /\ S \cap m.indirect # {} => m.addressTaken \cap m.defined \subseteq S
  BY DEF Closed, Reasons, Callees

(* The converse: the three clauses make a set closed.                      *)
LEMMA ContainsIsClosed ==
  ASSUME NEW m, NEW S,
         m.entry \subseteq S,
         \A f \in S : m.calls[f] \cap m.defined \subseteq S,
         S \cap m.indirect # {} => m.addressTaken \cap m.defined \subseteq S
  PROVE  Closed(m, S)
  BY DEF Closed, Reasons, Callees

(* Live is the least closed set: it is below every one.                    *)
LEMMA LiveIsLeast ==
  ASSUME NEW m, NEW S \in SUBSET m.defined, Closed(m, S)
  PROVE  Live(m) \subseteq S
  BY DEF Live

(* A definition that has a reason relative to live functions is live.      *)
LEMMA LiveIsClosed ==
  ASSUME NEW m, NEW S, S \subseteq Live(m)
  PROVE  Reasons(m, S) \subseteq Live(m)
<1> SUFFICES ASSUME NEW f \in Reasons(m, S),
                    NEW C \in SUBSET m.defined, Closed(m, C)
             PROVE  f \in C
  BY DEF Live, Reasons
<1>1. S \subseteq C
  BY LiveIsLeast
<1>2. f \in Reasons(m, C)
  BY <1>1 DEF Reasons, Callees
<1> QED
  BY <1>2 DEF Closed

-----------------------------------------------------------------------------
(* The types of the state, and that only reached definitions are queued,   *)
(* hold in every reachable state of the pass.                              *)
THEOREM TypeCorrect == Spec => []TypeOK
<1>1. Init => TypeOK
  BY ModulesAssumption DEF Init, TypeOK, NoJson
<1>2. TypeOK /\ [Next]_vars => TypeOK'
  <2> SUFFICES ASSUME TypeOK, [Next]_vars
               PROVE  TypeOK'
    OBVIOUS
  <2>1. CASE Seed
    BY <2>1 DEF Seed, Enqueue, Fresh, TypeOK
  <2>2. CASE Visit
    BY <2>2 DEF Visit, Enqueue, Fresh, TypeOK
  <2>3. CASE AddAddressTaken
    BY <2>3 DEF AddAddressTaken, Enqueue, Fresh, TypeOK
  <2>4. CASE NoIndirectCall
    BY <2>4 DEF NoIndirectCall, TypeOK
  <2>5. CASE SecondSearchOver
    BY <2>5 DEF SecondSearchOver, TypeOK
  <2>6. CASE Emit
    <3>1. ir.entry \subseteq Function /\ ir.defined \subseteq Function
      BY DEF TypeOK, IRModule
    <3>2. ASSUME NEW f \in ir.defined PROVE FunctionLines(f) \subseteq File \X Nat
      <4>1. FileOf(ir, f) \subseteq File /\ ir.locs[f] \subseteq File \X Nat
        BY <3>1 DEF TypeOK, IRModule, FileOf
      <4> QED
        BY <4>1 DEF FunctionLines
    <3>3. UNION {FunctionLines(f) : f \in ir.defined \cap reachable}
            \subseteq File \X Nat
      BY <3>2
    <3>4. json' \in [entryPoints : SUBSET Function, reachable : SUBSET Function,
                     unreachable : SUBSET Function, lines : SUBSET (File \X Nat)]
      BY <2>6, <3>1, <3>3 DEF Emit
    <3> QED
      BY <2>6, <3>4 DEF Emit, TypeOK
  <2>7. CASE UNCHANGED vars
    BY <2>7 DEF vars, TypeOK
  <2> QED
    BY <2>1, <2>2, <2>3, <2>4, <2>5, <2>6, <2>7 DEF Next
<1> QED
  BY <1>1, <1>2, PTL DEF Spec

-----------------------------------------------------------------------------
(* The invariant holds in every initial state.                             *)
LEMMA InitIInv == Init => IInv
<1> SUFFICES ASSUME Init PROVE IInv
  OBVIOUS
<1>1. TypeOK
  BY ModulesAssumption DEF Init, TypeOK, NoJson
<1>2. VisitedDone /\ Phases /\ JsonIsPartition /\ OnlyJustified
  BY DEF Init, VisitedDone, Phases, JsonIsPartition, OnlyJustified
<1> QED
  BY <1>1, <1>2 DEF IInv

(* Enqueueing functions that have a reason keeps every reached function    *)
(* justified.                                                              *)
LEMMA EnqueueJustified ==
  ASSUME IInv, NEW T, NEW rest, Enqueue(T, rest), ir' = ir,
         T \cap ir.defined \subseteq Reasons(ir, reachable)
  PROVE  OnlyJustified'
<1>1. Reasons(ir, reachable) \subseteq Live(ir)
  BY LiveIsClosed DEF IInv, OnlyJustified
<1> QED
  BY <1>1 DEF IInv, OnlyJustified, Enqueue, Fresh

(* One action at a time, each step of the pass preserves the invariant.    *)
LEMMA NextIInv == IInv /\ TypeOK' /\ [Next]_vars => IInv'
<1> SUFFICES ASSUME IInv, TypeOK', [Next]_vars
             PROVE  VisitedDone' /\ Phases' /\ JsonIsPartition' /\ OnlyJustified'
  BY DEF IInv
<1> USE DEF IInv
<1>0. WellFormed(ir) /\ ir.entry \subseteq ir.defined
  BY DEF TypeOK, WellFormed
<1>1. CASE Seed
  <2>1. VisitedDone'
    BY <1>1 DEF Seed, Enqueue, Fresh, VisitedDone, Phases
  <2>2. Phases' /\ JsonIsPartition'
    BY <1>0, <1>1 DEF Seed, Enqueue, Fresh, Phases, JsonIsPartition
  <2>3. ir.entry \cap ir.defined \subseteq Reasons(ir, reachable)
    BY DEF Reasons
  <2>4. OnlyJustified'
    BY <1>1, <2>3, EnqueueJustified DEF Seed
  <2> QED
    BY <2>1, <2>2, <2>4
<1>2. CASE Visit
  <2>1. PICK f \in worklist : Enqueue(ir.calls[f], worklist \ {f})
    BY <1>2 DEF Visit
  <2>2. f \in reachable /\ ir' = ir /\ pc' = pc /\ json' = json
    BY <1>2 DEF Visit, TypeOK
  <2>3. VisitedDone'
    BY <2>1, <2>2 DEF Enqueue, Fresh, VisitedDone
  <2>4. Phases'
    BY <1>2, <2>1, <2>2 DEF Visit, Enqueue, Fresh, Phases, HasIndirectCall
  <2>5. JsonIsPartition'
    BY <1>2, <2>2 DEF Visit, JsonIsPartition
  <2>6. ir.calls[f] \cap ir.defined \subseteq Reasons(ir, reachable)
    BY <2>2 DEF Reasons, Callees
  <2>7. OnlyJustified'
    BY <2>1, <2>2, <2>6, EnqueueJustified
  <2> QED
    BY <2>3, <2>4, <2>5, <2>7
<1>3. CASE AddAddressTaken
  <2>1. VisitedDone'
    BY <1>3 DEF AddAddressTaken, Enqueue, Fresh, VisitedDone
  <2>2. Phases' /\ JsonIsPartition'
    BY <1>3 DEF AddAddressTaken, Enqueue, Fresh, Phases, HasIndirectCall,
                JsonIsPartition
  <2>3. ir.addressTaken \cap ir.defined \subseteq Reasons(ir, reachable)
    BY <1>3 DEF AddAddressTaken, HasIndirectCall, Reasons
  <2>4. OnlyJustified'
    BY <1>3, <2>3, EnqueueJustified DEF AddAddressTaken
  <2> QED
    BY <2>1, <2>2, <2>4
<1>4. CASE NoIndirectCall
  <2>1. Closed(ir, reachable)
    BY <1>4, ContainsIsClosed
       DEF NoIndirectCall, HasIndirectCall, VisitedDone, Phases
  <2> QED
    BY <1>4, <2>1
       DEF NoIndirectCall, VisitedDone, Phases, JsonIsPartition, OnlyJustified
<1>5. CASE SecondSearchOver
  <2>1. Closed(ir, reachable)
    BY <1>5, ContainsIsClosed DEF SecondSearchOver, VisitedDone, Phases
  <2> QED
    BY <1>5, <2>1
       DEF SecondSearchOver, VisitedDone, Phases, JsonIsPartition, OnlyJustified
<1>6. CASE Emit
  <2>1. VisitedDone' /\ Phases' /\ OnlyJustified'
    BY <1>6 DEF Emit, VisitedDone, Phases, OnlyJustified
  <2>2. JsonIsPartition'
    BY <1>6 DEF Emit, JsonIsPartition, TypeOK
  <2> QED
    BY <2>1, <2>2
<1>7. CASE UNCHANGED vars
  BY <1>7 DEF vars, VisitedDone, Phases, JsonIsPartition, OnlyJustified, HasIndirectCall
<1> QED
  BY <1>1, <1>2, <1>3, <1>4, <1>5, <1>6, <1>7 DEF Next

LEMMA Invariance == Spec => []IInv
<1>1. Spec => []TypeOK
  BY TypeCorrect
<1> QED
  BY <1>1, InitIInv, NextIInv, PTL DEF Spec

-----------------------------------------------------------------------------
(* computeReachable never reaches a function without a reason, whatever    *)
(* the call graph and whatever order the queue is worked off in.           *)
THEOREM Precise == Spec => []OnlyJustified
<1>1. IInv => OnlyJustified
  BY DEF IInv
<1> QED
  BY <1>1, Invariance, PTL

(* When computeReachable returns, every function with a reason has been    *)
(* reached: one scan for indirect calls between two searches is enough.    *)
THEOREM Complete == Spec => []NothingMissed
<1>1. IInv => NothingMissed
  <2> SUFFICES ASSUME IInv, pc \in {"emit", "done"}
               PROVE  Live(ir) \subseteq reachable
    BY DEF NothingMissed
  <2>1. Closed(ir, reachable) /\ reachable \in SUBSET ir.defined
    BY DEF IInv, Phases, TypeOK
  <2> QED
    BY <2>1, LiveIsLeast
<1> QED
  BY <1>1, Invariance, PTL

(* No function that reachability.json calls unreachable is an entry point, *)
(* called by a reachable one, or open to an indirect call of one.          *)
THEOREM DeadSeparated == Spec => []DeadIsIsolated
<1>1. IInv => DeadIsIsolated
  <2> SUFFICES ASSUME IInv, pc = "done"
               PROVE  /\ json.entryPoints \cap json.unreachable = {}
                      /\ Callees(ir, json.reachable) \cap json.unreachable = {}
                      /\ json.reachable \cap ir.indirect # {} =>
                           ir.addressTaken \cap json.unreachable = {}
    BY DEF DeadIsIsolated
  <2>1. /\ json.entryPoints = ir.entry
        /\ json.reachable = reachable
        /\ json.unreachable = ir.defined \ reachable
    BY DEF IInv, JsonIsPartition
  <2>2. ir.entry \subseteq ir.defined /\ Closed(ir, reachable)
    BY DEF IInv, TypeOK, WellFormed, Phases
  <2>3. /\ ir.entry \subseteq reachable
        /\ \A f \in reachable : ir.calls[f] \cap ir.defined \subseteq reachable
        /\ reachable \cap ir.indirect # {} =>
             ir.addressTaken \cap ir.defined \subseteq reachable
    BY <2>2, ClosedContains
  <2> QED
    BY <2>1, <2>3 DEF Callees
<1> QED
  BY <1>1, Invariance, PTL

(* The lines in the output are those of the functions that were reached,   *)
(* each under the file its function is taken to be from.                   *)
LinesAreCollected ==
  pc = "done" => json.lines = UNION {FunctionLines(f) : f \in ir.defined \cap reachable}

LEMMA LinesCollected == Spec => []LinesAreCollected
<1>1. Init => LinesAreCollected
  BY DEF Init, LinesAreCollected
<1>2. LinesAreCollected /\ [Next]_vars => LinesAreCollected'
  <2> SUFFICES ASSUME LinesAreCollected, [Next]_vars, pc' = "done"
               PROVE  json'.lines =
                        UNION {FunctionLines(f)' : f \in ir'.defined \cap reachable'}
    BY DEF LinesAreCollected
  <2>1. CASE Emit
    BY <2>1 DEF Emit, FunctionLines, FileOf
  <2>2. CASE Seed \/ AddAddressTaken \/ NoIndirectCall \/ SecondSearchOver
    BY <2>2 DEF Seed, AddAddressTaken, NoIndirectCall, SecondSearchOver
  <2>3. CASE Visit
    BY <2>3 DEF Visit
  <2>4. CASE UNCHANGED vars
    BY <2>4 DEF vars, LinesAreCollected, FunctionLines, FileOf
  <2> QED
    BY <2>1, <2>2, <2>3, <2>4 DEF Next
<1> QED
  BY <1>1, <1>2, PTL DEF Spec

(* extractFunctionInfo misses no line of a live function that lies in the  *)
(* function's own file, whichever search found the function, so that Phase *)
(* 4 does not take it for dead.                                            *)
THEOREM LiveLinesAreReported == Spec => []LinesOfLiveFunctions
<1>1. TypeOK /\ NothingMissed /\ LinesAreCollected => LinesOfLiveFunctions
  <2> SUFFICES ASSUME TypeOK, NothingMissed, LinesAreCollected, pc = "done",
                      NEW f \in Live(ir), NEW loc \in ir.locs[f],
                      loc[1] \in FileOf(ir, f), loc[2] # 0
               PROVE  loc \in json.lines
    BY DEF LinesOfLiveFunctions
  <2>1. f \in ir.defined \cap reachable /\ f \in Function
    BY DEF NothingMissed, Live, TypeOK, IRModule
  <2>2. loc \in File \X Nat
    BY <2>1 DEF TypeOK, IRModule
  <2>3. loc \in FunctionLines(f)
    BY <2>2 DEF FunctionLines
  <2> QED
    BY <2>1, <2>3 DEF LinesAreCollected
<1> QED
  BY <1>1, TypeCorrect, Complete, LinesCollected, PTL

(* And no line is reported that live code is not on, in the files whose    *)
(* live functions have no text of another file in them.                    *)
THEOREM ReportedLinesAreLive == Spec => []LinesAreOfLiveCode
<1>1. TypeOK /\ OnlyJustified /\ LinesAreCollected => LinesAreOfLiveCode
  <2> SUFFICES ASSUME TypeOK, OnlyJustified, LinesAreCollected, pc = "done",
                      NEW line \in json.lines,
                      \A f \in Live(ir) : line[1] \in FileOf(ir, f) => OwnText(f)
               PROVE  line[2] # 0 /\ \E f \in Live(ir) : line \in ir.locs[f]
    BY DEF LinesAreOfLiveCode
  <2>1. PICK f \in ir.defined \cap reachable : line \in FunctionLines(f)
    BY DEF LinesAreCollected
  <2>2. f \in Live(ir) /\ f \in Function
    BY <2>1 DEF OnlyJustified, TypeOK, IRModule
  <2>3. PICK loc \in ir.locs[f] : loc[2] # 0 /\ line[1] \in FileOf(ir, f) /\ line[2] = loc[2]
                                  /\ line = <<line[1], line[2]>>
    BY <2>1 DEF FunctionLines
  <2>4. loc = <<loc[1], loc[2]>> /\ loc[1] \in FileOf(ir, f)
    BY <2>2, <2>3 DEF OwnText, TypeOK, IRModule
  <2>5. loc[1] = line[1]
    BY <2>2, <2>3, <2>4 DEF TypeOK, WellFormed, FileOf
  <2> QED
    BY <2>2, <2>3, <2>4, <2>5
<1> QED
  BY <1>1, TypeCorrect, Precise, LinesCollected, PTL

(* Both together: Phase 4 is told all lines of live code and, where no text *)
(* is foreign, no others.                                                  *)
THEOREM LinesStayThoseOfLiveCode == Spec => []LinesAreThoseOfLiveCode
<1>1. LinesOfLiveFunctions /\ LinesAreOfLiveCode => LinesAreThoseOfLiveCode
  BY DEF LinesAreThoseOfLiveCode
<1> QED
  BY <1>1, LiveLinesAreReported, ReportedLinesAreLive, PTL

(* The closure reads LLVMModule through INSTANCE: its operators are those  *)
(* of this module.                                                         *)
LEMMA SameOperators ==
  ASSUME NEW m, NEW S
  PROVE  /\ Closure!Reasons(m, S) = Reasons(m, S)
         /\ Closure!Closed(m, S) = Closed(m, S)
         /\ m \in IRModule /\ WellFormed(m) =>
              m \in Closure!IRModule /\ Closure!WellFormed(m)
<1>1. Closure!Reasons(m, S) = Reasons(m, S)
  BY DEF Closure!Reasons, Reasons, Closure!Callees, Callees
<1>2. Closure!Closed(m, S) = Closed(m, S)
  BY <1>1 DEF Closure!Closed, Closed
<1>3. m \in IRModule => m \in Closure!IRModule
  BY DEF IRModule, Closure!IRModule
<1>4. WellFormed(m) => Closure!WellFormed(m)
  BY DEF WellFormed, Closure!WellFormed
<1> QED
  BY <1>1, <1>2, <1>3, <1>4

(* The worklist algorithm implements the closure: every step adds only     *)
(* justified functions, and it stops exactly when none is left.            *)
THEOREM Refinement == Spec => ImplementsClosure
<1>1. Init => Closure!Init
  BY ModulesAssumption, SameOperators DEF Init, Closure!Init
<1>2. IInv /\ [Next]_vars => [Closure!Next]_Closure!vars
  <2> SUFFICES ASSUME IInv, [Next]_vars
               PROVE  [Closure!Next]_Closure!vars
    OBVIOUS
  <2> USE DEF IInv, Closure!Next, Closure!vars
  <2>1. ASSUME NEW T, NEW rest, Enqueue(T, rest), ir' = ir,
               pc # "done", pc' # "done",
               T \cap ir.defined \subseteq Reasons(ir, reachable)
        PROVE  Closure!Grow
    <3>1. Fresh(T) \in SUBSET Closure!Reasons(ir, reachable)
      BY <2>1, SameOperators DEF Fresh
    <3>2. reachable' = reachable \cup Fresh(T)
      BY <2>1 DEF Enqueue
    <3>3. (pc = "done")' = (pc = "done")
      BY <2>1
    <3> QED
      BY <2>1, <3>1, <3>2, <3>3 DEF Closure!Grow
  <2>2. CASE Seed
    <3>1. ir.entry \cap ir.defined \subseteq Reasons(ir, reachable)
      BY DEF Reasons
    <3> QED
      BY <2>1, <2>2, <3>1 DEF Seed
  <2>3. CASE Visit
    <3>1. PICK f \in worklist : Enqueue(ir.calls[f], worklist \ {f})
      BY <2>3 DEF Visit
    <3>2. ir.calls[f] \cap ir.defined \subseteq Reasons(ir, reachable)
      BY <3>1 DEF Reasons, Callees, TypeOK
    <3> QED
      BY <2>1, <2>3, <3>1, <3>2 DEF Visit
  <2>4. CASE AddAddressTaken
    <3>1. ir.addressTaken \cap ir.defined \subseteq Reasons(ir, reachable)
      BY <2>4 DEF AddAddressTaken, HasIndirectCall, Reasons
    <3> QED
      BY <2>1, <2>4, <3>1 DEF AddAddressTaken
  <2>5. CASE NoIndirectCall \/ SecondSearchOver
    BY <2>5 DEF NoIndirectCall, SecondSearchOver
  <2>6. CASE Emit
    <3>1. Closure!Closed(ir, reachable)
      BY <2>6, SameOperators DEF Emit, Phases
    <3> QED
      BY <2>6, <3>1 DEF Emit, Closure!Announce
  <2>7. CASE UNCHANGED vars
    BY <2>7 DEF vars
  <2> QED
    BY <2>2, <2>3, <2>4, <2>5, <2>6, <2>7 DEF Next
<1> QED
  BY <1>1, <1>2, Invariance, PTL DEF Spec, ImplementsClosure, Closure!Spec
=============================================================================
