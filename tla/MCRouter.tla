------------------------------ MODULE MCRouter ------------------------------
(* Router for TLC.                                                         *)
EXTENDS Router, TLC

NodeSymmetry == Permutations(Nodes)
=============================================================================
