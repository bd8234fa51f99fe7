----------------------------- MODULE MCPoolsApp -----------------------------
(***************************************************************************)
(* TLC instances of PoolsApp.                                              *)
(***************************************************************************)
EXTENDS PoolsApp, TLC

Symmetry == Permutations(Guest)
=============================================================================
