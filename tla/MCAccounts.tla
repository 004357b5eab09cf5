----------------------------- MODULE MCAccounts -----------------------------
(* Instances of Accounts for TLC. *)
EXTENDS Accounts, TLC

\* Names and passwords are interchangeable.
Symmetry == Permutations(Name) \cup Permutations(Password)
=============================================================================
