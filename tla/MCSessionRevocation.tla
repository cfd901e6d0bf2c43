------------------------ MODULE MCSessionRevocation ------------------------
(* SessionRevocation for TLC: two families of one account, so that a login  *)
(* can follow a sign-out everywhere.                                        *)
EXTENDS SessionRevocation, TLC

FamilySymmetry == Permutations(Families)
============================================================================
