----------------------------- MODULE MCAccounts -----------------------------
(* Instances of Accounts for TLC. *)
EXTENDS Accounts, TLC

Symmetry == Permutations(Login) \cup Permutations(Flow) \cup Permutations(Callback)
=============================================================================
