------------------------------ MODULE MCTimer ------------------------------
(***************************************************************************)
(* Instances of Timer for TLC.                                             *)
(***************************************************************************)
EXTENDS Timer, TLC

\* Freed memory is used again in any order, and connections are alike.
Symmetric == Permutations(Conns) \cup Permutations(Nodes)
=============================================================================
