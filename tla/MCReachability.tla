--------------------------- MODULE MCReachability ---------------------------
(***************************************************************************)
(* Instances of Reachability: modules of four functions.                   *)
(***************************************************************************)
EXTENDS Reachability

CONSTANTS a, b, c, d,    \* functions
          src, inc       \* a source file and a file it includes

FourFunctions == {a, b, c, d}
Files == {src, inc}

(* b's body includes text from inc, c has no subprogram but text of inc in *)
(* it, and some code made by the compiler is on line 0.                    *)
Sources == [f \in FourFunctions |-> IF f = c THEN {} ELSE {src}]
Locations ==
  [f \in FourFunctions |->
     CASE f = a -> {<<src, 0>>, <<src, 1>>, <<src, 2>>}
       [] f = b -> {<<src, 0>>, <<src, 2>>, <<src, 3>>, <<inc, 5>>}
       [] f = c -> {<<inc, 7>>}
       [] f = d -> {<<src, 4>>}]
FirstFiles == [f \in FourFunctions |-> IF f = c THEN {inc} ELSE {src}]
NoCallbacks == [f \in FourFunctions |-> {}]

(* Libraries, programs entered at a, and modules without an entry point;   *)
(* d may be a declaration; a function calls none, one or two others.       *)
AllModules ==
  [defined      : {FourFunctions, {a, b, c}},
   entry        : {{}, {a}, {a, b}},
   calls        : [FourFunctions -> {{}, {a}, {b}, {c}, {d}, {b, c}}],
   indirect     : {{}, {a}, {b}, {c}},
   addressTaken : {{}, {c}, {b, d}},
   registers    : {NoCallbacks},
   source       : {Sources},
   locs         : {Locations},
   first        : {FirstFiles}]

(* a calls a library function with b's address; b may call c.              *)
CallbackModules ==
  [defined      : {{a, b, c}},
   entry        : {{a}},
   calls        : {[NoCallbacks EXCEPT ![a] = {d}, ![b] = cb] : cb \in SUBSET {c}},
   indirect     : SUBSET {c},
   addressTaken : {{b}, {b, c}},
   registers    : {[NoCallbacks EXCEPT ![a] = {b}]},
   source       : {Sources},
   locs         : {Locations},
   first        : {FirstFiles}]
=============================================================================
