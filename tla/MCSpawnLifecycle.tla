-------------------------- MODULE MCSpawnLifecycle --------------------------
(* One spawn with its drivers and nodes, for TLC.  Driver and node ids are   *)
(* interchangeable; the liveness runs do not use the symmetry.               *)
EXTENDS SpawnLifecycle, TLC

Symmetry == Permutations(Drivers) \cup Permutations(Nodes)

=============================================================================
