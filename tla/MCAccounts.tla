------------------------------ MODULE MCAccounts ------------------------------
(* Instances of Accounts for TLC. *)
EXTENDS Accounts, TLC

Symmetric == Permutations(Proc) \cup Permutations(Name)

\* Past such a mishap the properties say nothing more.
Sound == upset = {}
=============================================================================
