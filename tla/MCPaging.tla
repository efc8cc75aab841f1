------------------------------- MODULE MCPaging -------------------------------
(* Instances of Paging for TLC. *)
EXTENDS Paging

\* Slots 1 and 3 are two lines of one account.
TwoLines == <<1, 2, 1>>
=============================================================================
