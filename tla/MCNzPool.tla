------------------------------ MODULE MCNzPool ------------------------------
(* NzPool for TLC: callers are interchangeable. Clients are not, because new *)
(* objects are named by CHOOSE.                                              *)
EXTENDS NzPool

CallerSymmetry == Permutations(Callers)
=============================================================================
