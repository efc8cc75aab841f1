------------------------------- MODULE MCBoards -------------------------------
(* Instances of Boards for TLC. *)
EXTENDS Boards

CONSTANTS test, linux

OneBoard == <<test>>
=============================================================================
