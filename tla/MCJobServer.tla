---------------------------- MODULE MCJobServer -----------------------------
(***************************************************************************)
(* Instances of JobServer: projects whose paths end in the same name and   *)
(* that share an output directory, and the default directory beside it.    *)
(***************************************************************************)
EXTENDS JobServer, TLC

CONSTANTS p, q, shared

SharedDir == [x \in Project |-> shared]

(* Requests, threads and the projects of one directory may be swapped.     *)
Interchangeable ==
  {r @@ w @@ x : r \in Permutations(Request), w \in Permutations(Worker),
                 x \in Permutations(Project)}
=============================================================================
