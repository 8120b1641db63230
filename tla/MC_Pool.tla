------------------------------ MODULE MC_Pool ------------------------------
(* Pool with a handful of circuits and threads as model values.            *)
EXTENDS Pool, TLC

CONSTANTS k1, k2, k3, q1, q2, w1

Symmetry == Permutations(Circuits) \cup Permutations(Requesters) \cup Permutations(Workers)
=============================================================================
