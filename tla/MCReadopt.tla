------------------------------ MODULE MCReadopt ------------------------------
(* Re-adoption on a node with a few pods, for TLC.                           *)
EXTENDS Readopt, TLC

Symmetry == Permutations(Spawns)

=============================================================================
