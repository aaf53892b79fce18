------------------------------ MODULE MCAccounts ------------------------------
(* Two calls at a time on two wallets. *)
EXTENDS Accounts, TLC

Symmetry == Permutations(Call) \cup Permutations(Address) \cup Permutations(Email) \cup Permutations(Password)
=============================================================================
