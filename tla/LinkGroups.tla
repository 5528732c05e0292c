----------------------------- MODULE LinkGroups -----------------------------
(***************************************************************************)
(* run_phase3: which bitcode files are linked into which whole program.    *)
(* A bitcode file is what its command is called by (the i of src_i.bc) and *)
(* symbols[i], the functions with external linkage that it defines.        *)
(***************************************************************************)
EXTENDS Naturals

(* _bc_defines_main *)
_bc_defines_main(symbols, i) == "main" \in symbols[i]

main_bcs(symbols, bcs) == {i \in bcs : _bc_defines_main(symbols, i)}
lib_bcs(symbols, bcs)  == bcs \ main_bcs(symbols, bcs)

(* link_groups: one program per main, with every file that has none.       *)
link_groups(symbols, bcs) ==
  IF main_bcs(symbols, bcs) = {} THEN {lib_bcs(symbols, bcs)}
  ELSE {lib_bcs(symbols, bcs) \cup {m} : m \in main_bcs(symbols, bcs)}

(* llvm-link: two files of a program may not define one symbol.            *)
Links(symbols, group) ==
  \A i, j \in group : i # j => symbols[i] \cap symbols[j] = {}
=============================================================================
