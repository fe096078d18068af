----------------------------- MODULE MCAccounts -----------------------------
(* Small instances of Accounts for TLC; requests are interchangeable.      *)
EXTENDS Accounts, TLC

Symmetry == Permutations(Requests) \cup Permutations(Links)
=============================================================================
