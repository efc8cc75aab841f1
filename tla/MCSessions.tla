------------------------------ MODULE MCSessions ------------------------------
(* Instances of Sessions for TLC. *)
EXTENDS Sessions, TLC

CONSTANTS alice, sysop, guest

LimitOne == [u \in User |-> 1]
LimitTwo == [u \in User |-> 2]
Symmetric == Permutations(Proc)

\* Past such a step the properties of these runs say nothing more.
Settled == ~hasty
=============================================================================
