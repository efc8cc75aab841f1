---------------------------- MODULE MCChatServer ----------------------------
(* Accounts for ChatServer.  PERM_CHAT ("op") is in the level of everybody *)
(* the menu lets into the chat; a client from another host is left with    *)
(* PERM_DENYPOST ("outsider") alone.                                       *)
EXTENDS ChatServer, TLC

CONSTANTS ann, root, far

Member == [u \in User |-> IF u = far THEN {"outsider"} ELSE {"basic", "op"}]
WithBoth == [Member EXCEPT ![root] = {"basic", "op", "sysop", "cloak"}]

Symmetric == Permutations(Id) \cup Permutations(Name \ {Main})
=============================================================================
