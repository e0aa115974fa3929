------------------------------- MODULE MCTaskRpc -------------------------------
(***************************************************************************)
(* TLC instances of TaskRpc, and the mutated operations that show what     *)
(* each property would catch.                                              *)
(***************************************************************************)
EXTENDS TaskRpc, TLC

Symmetry == Permutations(Sessions)
=============================================================================
