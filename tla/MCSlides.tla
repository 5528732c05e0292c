------------------------------ MODULE MCSlides ------------------------------
(***************************************************************************)
(* Two projects, and loads enough to overlap.                              *)
(***************************************************************************)
EXTENDS Slides, TLC

CONSTANTS p, q, k1, k2

Interchangeable ==
  {x @@ k : x \in Permutations(Project), k \in Permutations(Load)}

(* Once the job has a project's directory nobody reads Seed again: states  *)
(* that differ in it alone need not be told apart.                         *)
WhatMatters ==
  <<[disk EXCEPT ![Seed] = IF job.dir = Seed THEN @ ELSE Nothing], job, page, load, shows>>
=============================================================================
