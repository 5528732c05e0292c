----------------------------- MODULE LLVMModule -----------------------------
(***************************************************************************)
(* The whole-program LLVM module that Phase 3 analyses, as far as          *)
(* DeadFeaturePass.cpp looks at it, and the set of functions the pass is   *)
(* meant to find.                                                          *)
(***************************************************************************)
EXTENDS Naturals, FiniteSets

CONSTANTS
  Function,   \* the functions named in the module
  File,       \* source files that debug info can name
  Modules     \* the modules the pass may be run on

(***************************************************************************)
(*   defined      functions with a body (the rest are declarations)        *)
(*   entry        definitions named main or with external linkage          *)
(*   calls[f]     functions f's body calls by name (getCalledFunction)     *)
(*   indirect     functions whose body has a call without a known callee   *)
(*   addressTaken functions whose address is used other than to call them  *)
(*   registers[f] functions whose address f's body hands to a declaration  *)
(*                (qsort, atexit, pthread_create): the pass does not look  *)
(*   source[f]    {} or the one file of f's DISubprogram                   *)
(*   locs[f]      file and line of the debug locations in f's body; line 0 *)
(*                is the line of code the compiler made up                 *)
(*   first[f]     {} or the file of the first of them with a line          *)
(***************************************************************************)
IRModule ==
  [defined      : SUBSET Function,
   entry        : SUBSET Function,
   calls        : [Function -> SUBSET Function],
   indirect     : SUBSET Function,
   addressTaken : SUBSET Function,
   registers    : [Function -> SUBSET Function],
   source       : [Function -> SUBSET File],
   locs         : [Function -> SUBSET (File \X Nat)],
   first        : [Function -> SUBSET File]]

WellFormed(m) ==
  /\ m.entry \subseteq m.defined
  /\ \A f \in Function :
       /\ m.registers[f] \subseteq m.addressTaken
       /\ \A x, y \in m.source[f] : x = y
       /\ \A x, y \in m.first[f] : x = y
       /\ m.first[f] = {} <=> \A loc \in m.locs[f] : loc[2] = 0
       /\ \A x \in m.first[f] : \E loc \in m.locs[f] : loc[1] = x /\ loc[2] # 0

ASSUME ModulesAssumption == \A m \in Modules : m \in IRModule /\ WellFormed(m)

(* The file a function is taken to be from, if any.                        *)
FileOf(m, f) == IF m.source[f] # {} THEN m.source[f] ELSE m.first[f]

(* The callees that one or all functions of S have a direct call to.       *)
Callees(m, S) == UNION {m.calls[f] : f \in S}

(* The definitions that have a reason to be live once those of S are.      *)
Reasons(m, S) ==
  m.defined \cap
    (m.entry \cup Callees(m, S)
       \cup (IF S \cap m.indirect # {} THEN m.addressTaken ELSE {}))

Closed(m, S) == Reasons(m, S) \subseteq S

(* The reference answer: the functions that are in every closed set.       *)
Live(m) ==
  {f \in m.defined : \A S \in SUBSET m.defined : Closed(m, S) => f \in S}
=============================================================================
