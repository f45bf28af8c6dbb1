------------------------------ MODULE MCServer ------------------------------
(***************************************************************************)
(* Server on two threads. They are interchangeable, so a run that checks   *)
(* only invariants may collapse them with Symmetry; one that checks        *)
(* liveness may not.                                                       *)
(***************************************************************************)
EXTENDS Server, TLC

Symmetry == Permutations(Requests)
=============================================================================
