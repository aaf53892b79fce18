------------------------ MODULE MCNetEmissionsToken ------------------------
(* NetEmissionsToken with the deployer and two accounts that begin without a role. *)
EXTENDS NetEmissionsToken, TLC

CONSTANTS admin, alice, bob

Symmetry == Permutations({alice, bob})
=============================================================================
