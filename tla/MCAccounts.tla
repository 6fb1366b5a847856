----------------------------- MODULE MCAccounts -----------------------------
(* A small instance of Accounts for TLC. *)
EXTENDS Accounts, TLC

Symmetry == Permutations(Requests) \union Permutations(Names \ {AdminName})
=============================================================================
