------------------------------ MODULE ChatRooms ------------------------------
(***************************************************************************)
(* What the chat server promises its clients, with no table, counter or    *)
(* index in sight.  A room is its name and exists while somebody is in it; *)
(* the main room always exists.  Whoever opens a room is its operator, and *)
(* a locked room admits the people its operator asked in, and sysops.      *)
(* Nothing of a room, its lock and its invitations included, outlives it;  *)
(* nothing of a client outlives its connection.                            *)
(***************************************************************************)
CONSTANTS Client, Name, Main, Out      \* Main is a name, Out is none

VARIABLES
    where,      \* the room each client is in, or Out
    locked,     \* the locked rooms
    asked,      \* who is asked into each room
    ops,        \* the clients who are operators of the room they are in
    boss        \* the clients with sysop rights

vars == <<where, locked, asked, ops, boss>>

Members(n) == {c \in Client : where[c] = n}
Rules(c) == where[c] # Out /\ c \in ops \cup boss

Init ==
    /\ where = [c \in Client |-> Out]
    /\ locked = {}
    /\ asked = [n \in Name |-> {}]
    /\ ops = {}
    /\ boss = {}

\* The room c leaves behind when it goes to n and nobody else is there.
Vanishing(c, n) == {m \in Name \ {Main, n} : Members(m) = {c}}

\* c is now at n: the room it leaves may vanish, an invitation is used up.
Relocate(c, n) ==
    /\ where' = [where EXCEPT ![c] = n]
    /\ locked' = locked \ Vanishing(c, n)
    /\ asked' = [m \in Name |-> IF m \in Vanishing(c, n) THEN {}
                                ELSE IF m = n THEN asked[m] \ {c} ELSE asked[m]]

Admitted(c, n, bosses) == n \in locked => c \in asked[n] \cup bosses

\* Of its own will, or thrown out into the main room.
Move(c, n) ==
    /\ Admitted(c, n, boss)
    /\ Relocate(c, n)
    /\ ops' = IF n # Main /\ Members(n) = {} THEN ops \cup {c} ELSE ops \ {c}
    /\ UNCHANGED boss

\* A client logs in and is let into the main room, or stays outside.
LogIn(c, isboss) ==
    /\ where[c] = Out
    /\ boss' = IF isboss THEN boss \cup {c} ELSE boss \ {c}
    /\ \/ Admitted(c, Main, boss') /\ Relocate(c, Main)
       \/ UNCHANGED <<where, locked, asked>>
    /\ UNCHANGED ops

Leave(c) ==
    /\ Relocate(c, Out)
    /\ ops' = ops \ {c}
    /\ UNCHANGED boss

\* The connection ends: nothing of it remains.
Disconnect(c) ==
    /\ where' = [where EXCEPT ![c] = Out]
    /\ locked' = locked \ Vanishing(c, Out)
    /\ asked' = [m \in Name |-> IF m \in Vanishing(c, Out) THEN {} ELSE asked[m] \ {c}]
    /\ ops' = ops \ {c}
    /\ boss' = boss \ {c}

Lock(c) ==
    /\ Rules(c)
    /\ \/ locked' = locked \cup {where[c]}
       \/ locked' = locked \ {where[c]}
    /\ UNCHANGED <<where, asked, ops, boss>>

Invite(c, d) ==
    /\ Rules(c)
    /\ asked' = [asked EXCEPT ![where[c]] = @ \cup {d}]
    /\ UNCHANGED <<where, locked, ops, boss>>

HandOver(c, d) ==
    /\ Rules(c) /\ where[d] = where[c]
    /\ ops' = (ops \ {c}) \cup {d}
    /\ UNCHANGED <<where, locked, asked, boss>>

Next ==
    \E c \in Client :
       \/ \E n \in Name : Move(c, n)
       \/ \E b \in BOOLEAN : LogIn(c, b)
       \/ Leave(c) \/ Disconnect(c) \/ Lock(c)
       \/ \E d \in Client : Invite(c, d) \/ HandOver(c, d)

Spec == Init /\ [][Next]_vars
=============================================================================
