----------------------------- MODULE MCGitHubLink -----------------------------
(* The link of one account, for TLC.                                         *)
EXTENDS GitHubLink, TLC

Symmetry == Permutations(Mints) \cup Permutations(Flows)

=============================================================================
