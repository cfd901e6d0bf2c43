----------------------------- MODULE MCSpawnFork -----------------------------
(* Forks of one source spawn, for TLC.                                       *)
EXTENDS SpawnFork, TLC

Symmetry == Permutations(Forks)

=============================================================================
