------------------------------- MODULE MCGate -------------------------------
(* Few calls and requests of one client, over two windows.  They are alike, *)
(* so that any may stand for any other.                                     *)
EXTENDS Gate, TLC

Symmetry == Permutations(Issues) \cup Permutations(Requests)
=============================================================================
