---------------------------- MODULE MCWebClient -----------------------------
(***************************************************************************)
(* One page on a server with one project, for two analyses.                *)
(***************************************************************************)
EXTENDS WebClient

CONSTANTS p, r1, r2, w1, w2, k1, k2
=============================================================================
