----------------------------- MODULE ChatServer -----------------------------
(***************************************************************************)
(* The chat server, src/station.c: one process around a select loop, a     *)
(* table of connections and a table of rooms.  Between two calls of select *)
(* it reads once from each client that has sent something, and one read    *)
(* may carry several lines.                                                *)
(*                                                                         *)
(* The client is chat.c: it sends its login line first and waits for the   *)
(* answer, and gives up the connection when it is refused.                 *)
(***************************************************************************)
EXTENDS Integers, FiniteSets

CONSTANTS
    MaxActive, MaxRoom,     \* the sizes of the two tables
    User, NoUser,           \* accounts (the uid chat.c sends as "utent")
    Level,                  \* the permissions each account logs in with
    Id, NoId,               \* chat ids
    Name, Main, NoName,     \* names of rooms
    Lines                   \* bound: lines in one read

Slot == 0 .. MaxActive - 1
Room == 0 .. MaxRoom - 1
None == -1

\* "op" is the bit PERM_CHAT: the permission to enter the chat, in the level
\* an account arrives with, and the operator's mark, once it is in a room;
\* "basic" stands for all the others of an account.
Perms == {"basic", "op", "sysop", "cloak", "outsider"}

ASSUME SizeAssumption ==
    MaxActive \in Nat \ {0} /\ MaxRoom \in Nat \ {0} /\ Lines \in Nat \ {0}
ASSUME UserAssumption == NoUser \notin User /\ NoId \notin Id
ASSUME LevelAssumption == Level \in [User -> SUBSET Perms]
ASSUME NameAssumption == Main \in Name /\ NoName \notin Name

VARIABLES
    users, rooms,           \* the two tables
    num_conns,
    allfds,                 \* the slots whose socket select watches
    burst                   \* the read being worked on: its slot, lines left

vars == <<users, rooms, num_conns, allfds, burst>>

ChatUser == [conn : BOOLEAN, utent : User \cup {NoUser}, room : Room \cup {None},
             perms : SUBSET Perms, cloak : BOOLEAN, chatid : Id \cup {NoId}]
ChatRoom == [name : Name \cup {NoName}, occupants : Int, locked : BOOLEAN,
             invites : SUBSET Slot]

Blank == [conn |-> FALSE, utent |-> NoUser, room |-> None, perms |-> {},
          cloak |-> FALSE, chatid |-> NoId]
Fresh(n) == [name |-> n, occupants |-> 0, locked |-> FALSE, invites |-> {}]
Quiet == [slot |-> 0, left |-> 0]

First(S) == IF S = {} THEN None ELSE CHOOSE i \in S : \A j \in S : i <= j

Has(s, perm) == perm \in users[s].perms

\* The first connection called id that v can see: cloaked ones are hidden from
\* those who may cloak, and from nobody else.
chatid_to_indx(v, id) ==
    First({i \in Slot : /\ users[i].conn /\ users[i].chatid = id
                        /\ ~users[i].cloak \/ ~Has(v, "cloak")})

roomid_to_indx(rs, n) ==
    First({r \in Room : rs[r].name = n /\ (r = 0 \/ rs[r].occupants # 0)})

-----------------------------------------------------------------------------
(* The handlers call each other: w is a pair of tables on its way through. *)

Tables == [u |-> users, r |-> rooms]
Become(w) == users' = w.u /\ rooms' = w.r

\* Variant: the occupants are not counted down.
exit_room_uncounted(w, s) ==
    [u |-> [w.u EXCEPT ![s].room = None, ![s].perms = @ \ {"op"}],
     r |-> w.r]

exit_room(w, s) ==
    LET r == w.u[s].room
    IN [u |-> [w.u EXCEPT ![s].room = None, ![s].perms = @ \ {"op"}],
        r |-> IF r = None THEN w.r ELSE [w.r EXCEPT ![r].occupants = @ - 1]]

\* The room is looked up, or opened, before the old one is left.
enter_room(w, s, n) ==
    LET old == roomid_to_indx(w.r, n)
        opens == old = None
        rnum == IF opens THEN First({r \in Room \ {0} : w.r[r].occupants = 0}) ELSE old
        rs == IF opens THEN [w.r EXCEPT ![rnum] = Fresh(n)] ELSE w.r
        refused == \/ opens /\ ("outsider" \in w.u[s].perms \/ rnum = None)
                   \/ /\ "sysop" \notin w.u[s].perms
                      /\ rs[rnum].locked /\ s \notin rs[rnum].invites
        out == exit_room([u |-> w.u, r |-> rs], s)
    IN IF refused THEN w
       ELSE [u |-> [out.u EXCEPT ![s].room = rnum,
                                 ![s].perms = IF opens THEN @ \cup {"op"} ELSE @],
             r |-> [out.r EXCEPT ![rnum].occupants = @ + 1,
                                 ![rnum].invites = @ \ {s}]]

\* Variant: the invitations stay for whoever gets the slot next.
logout_user_invited(w, s) == [u |-> [w.u EXCEPT ![s] = Blank], r |-> w.r]

logout_user(w, s) ==
    [u |-> [w.u EXCEPT ![s] = Blank],
     r |-> [r \in Room |-> [w.r[r] EXCEPT !.invites = @ \ {s}]]]

\* logout_user's other half.  Of a slot already closed it clears bit -1 of
\* allfds: the bit of some other client's socket, or of none.
Unwatch(s) ==
    /\ num_conns' = num_conns - 1
    /\ IF users[s].conn THEN allfds' = allfds \ {s}
       ELSE \E hit \in {{}} \cup {{t} : t \in allfds} : allfds' = allfds \ hit

-----------------------------------------------------------------------------
Init ==
    /\ users = [s \in Slot |-> [Blank EXCEPT !.room = 0]]
    /\ rooms = [r \in Room |-> Fresh(IF r = 0 THEN Main ELSE NoName)]
    /\ num_conns = 0
    /\ allfds = {}
    /\ burst = Quiet

Selecting == burst.left = 0

\* s has a line to be worked on: the next of the current read, or a new read.
Line(s) == IF Selecting THEN s \in allfds ELSE burst.slot = s

\* Variant: one line too many is read.
Done_over(s) ==
    \E k \in IF Selecting THEN 0 .. Lines ELSE {burst.left - 1} :
       burst' = IF k = 0 THEN Quiet ELSE [slot |-> s, left |-> k]

\* The line is done; a new read may hold more of them.
Done(s) ==
    \E k \in IF Selecting THEN 0 .. Lines - 1 ELSE {burst.left - 1} :
       burst' = IF k = 0 THEN Quiet ELSE [slot |-> s, left |-> k]

\* main: a connection gets the first free slot; a full table closes it.
Accept ==
    LET s == First({i \in Slot : ~users[i].conn})
    IN /\ Selecting /\ s # None
       /\ users' = [users EXCEPT ![s].conn = TRUE, ![s].room = None]
       /\ num_conns' = num_conns + 1
       /\ allfds' = allfds \cup {s}
       /\ UNCHANGED <<rooms, burst>>

Await(s) == Selecting /\ s \in allfds /\ users[s].utent = NoUser

\* Another window of the same account is here already.
Bogus(s, u) ==
    /\ Await(s)
    /\ \E i \in Slot : users[i].conn /\ users[i].utent = u
    /\ Become(logout_user(Tables, s)) /\ Unwatch(s)
    /\ UNCHANGED burst

login_user(s, u, id, cloak) ==
    LET logged == [users EXCEPT ![s].utent = u, ![s].chatid = id,
                                ![s].perms = Level[u], ![s].cloak = cloak]
    IN /\ Await(s)
       /\ \A i \in Slot : users[i].conn => users[i].utent # u
       /\ chatid_to_indx(0, id) = None
       /\ Become(enter_room([u |-> logged, r |-> rooms], s, Main))
       /\ UNCHANGED <<num_conns, allfds, burst>>

Login(s) ==
    \E u \in User, id \in Id, cloak \in BOOLEAN :
       (cloak => "cloak" \in Level[u]) /\ login_user(s, u, id, cloak)

\* The read says the client is gone.
LostConn(s) ==
    /\ Selecting /\ s \in allfds
    /\ Become(logout_user(exit_room(Tables, s), s)) /\ Unwatch(s)
    /\ UNCHANGED burst

\* Any line but a login from outside the rooms ends the connection.
Stray(s) ==
    /\ Line(s) /\ users[s].room = None
    /\ users[s].conn => users[s].utent # NoUser
    /\ Become(logout_user(Tables, s)) /\ Unwatch(s)
    /\ burst' = Quiet

-----------------------------------------------------------------------------
(* The commands of somebody in a room. *)

InRoom(s) == Line(s) /\ users[s].room # None
Rules(s) == Has(s, "op") \/ Has(s, "sysop")

chat_join(s) ==
    /\ InRoom(s) /\ users[s].perms # {}
    /\ \E n \in Name : Become(enter_room(Tables, s, n))
    /\ Done(s)
    /\ UNCHANGED <<num_conns, allfds>>

chat_goodbye(s) ==
    /\ InRoom(s)
    /\ Become(exit_room(Tables, s))
    /\ Done(s)
    /\ UNCHANGED <<num_conns, allfds>>

\* "/flags +l" and "/flags -l".
chat_setroom(s) ==
    /\ InRoom(s) /\ Rules(s)
    /\ \E on \in BOOLEAN :
          rooms' = [rooms EXCEPT ![users[s].room].locked = on]
    /\ Done(s)
    /\ UNCHANGED <<users, num_conns, allfds>>

chat_nick(s) ==
    /\ InRoom(s)
    /\ \E id \in Id :
          /\ chatid_to_indx(0, id) \in {None, s}
          /\ users' = [users EXCEPT ![s].chatid = id]
    /\ Done(s)
    /\ UNCHANGED <<rooms, num_conns, allfds>>

chat_cloak(s) ==
    /\ InRoom(s) /\ Has(s, "cloak")
    /\ users' = [users EXCEPT ![s].cloak = ~@]
    /\ Done(s)
    /\ UNCHANGED <<rooms, num_conns, allfds>>

\* The members are told of a new name; strncpy copies IDLE characters of it, a
\* user mode whose value is 0, where IDLEN was meant: the table stays as it is.
chat_rename(s) ==
    /\ InRoom(s) /\ Rules(s)
    /\ Done(s)
    /\ UNCHANGED <<users, rooms, num_conns, allfds>>

\* An operator may name itself, and a command without a name finds whoever has
\* connected and not logged in yet.
Target(s, t) ==
    /\ InRoom(s) /\ Rules(s)
    /\ \E id \in Id \cup {NoId} : chatid_to_indx(s, id) = t
    /\ t # None

\* Variant: the connection kicked off the server is still counted.
chat_kick_counted(s, t) ==
    LET out == exit_room(Tables, t)
    IN /\ Target(s, t) /\ users[t].room = users[s].room
       /\ IF users[s].room = 0
          THEN Become(logout_user(out, t))
          ELSE Become(enter_room(out, t, Main))
       /\ UNCHANGED <<num_conns, allfds>>
       /\ Done(s)

\* Out of the main room means off the server.
chat_kick(s, t) ==
    LET out == exit_room(Tables, t)
    IN /\ Target(s, t) /\ users[t].room = users[s].room
       /\ IF users[s].room = 0
          THEN Become(logout_user(out, t)) /\ Unwatch(t)
          ELSE Become(enter_room(out, t, Main)) /\ UNCHANGED <<num_conns, allfds>>
       /\ Done(s)

chat_makeop(s, t) ==
    /\ Target(s, t) /\ s # t /\ users[t].room = users[s].room
    /\ users' = [users EXCEPT ![s].perms = @ \ {"op"}, ![t].perms = @ \cup {"op"}]
    /\ Done(s)
    /\ UNCHANGED <<rooms, num_conns, allfds>>

chat_invite(s, t) ==
    /\ Target(s, t)
    /\ rooms' = [rooms EXCEPT ![users[s].room].invites = @ \cup {t}]
    /\ Done(s)
    /\ UNCHANGED <<users, num_conns, allfds>>

command_execute(s) ==
    \/ chat_join(s) \/ chat_goodbye(s) \/ chat_setroom(s) \/ chat_nick(s)
    \/ chat_cloak(s) \/ chat_rename(s) \/ Stray(s)
    \/ \E t \in Slot : chat_kick(s, t) \/ chat_makeop(s, t) \/ chat_invite(s, t)

Next ==
    \/ Accept
    \/ \E s \in Slot : \/ Login(s) \/ (\E u \in User : Bogus(s, u))
                       \/ LostConn(s) \/ command_execute(s)

Spec == Init /\ [][Next]_vars

-----------------------------------------------------------------------------
(* Properties. *)

TypeOK ==
    /\ users \in [Slot -> ChatUser]
    /\ rooms \in [Room -> ChatRoom]
    /\ num_conns \in Int
    /\ allfds \in SUBSET Slot
    /\ burst \in [slot : Slot, left : 0 .. Lines - 1]

Members(r) == {s \in Slot : users[s].conn /\ users[s].room = r}

\* The counter exit_room and enter_room keep is the number of people in the
\* room: a count too low gives an occupied room to the next one opened, a
\* count too high keeps an empty room, its lock and its name, for ever.
Occupancy == \A r \in Room : rooms[r].occupants = Cardinality(Members(r))

\* num_conns is the "current number of connections" (station.c:113), and
\* select watches each of them.  This holds when every read is one line: of two
\* lines, one a sysop's kick of himself out of the main room, the second logs
\* out a slot that is closed already.
ConnectionsCounted ==
    /\ num_conns = Cardinality({s \in Slot : users[s].conn})
    /\ allfds = {s \in Slot : users[s].conn}

\* What the clients can tell of a pair of tables.
Where(w) == [s \in Slot |-> IF w.u[s].conn /\ w.u[s].room # None
                            THEN w.r[w.u[s].room].name ELSE NoName]
Locked(w) == {w.r[r].name : r \in {q \in Room : /\ q = 0 \/ w.r[q].occupants > 0
                                                /\ w.r[q].locked}}
Asked(w) == [n \in Name |-> LET r == roomid_to_indx(w.r, n)
                            IN IF r = None THEN {} ELSE w.r[r].invites]
Ops(w) == {s \in Slot : w.u[s].conn /\ w.u[s].room # None /\ "op" \in w.u[s].perms}
Boss(w) == {s \in Slot : "sysop" \in w.u[s].perms}

Promise == INSTANCE ChatRooms WITH
    Client <- Slot, Out <- NoName,
    where <- Where(Tables), locked <- Locked(Tables), asked <- Asked(Tables),
    ops <- Ops(Tables), boss <- Boss(Tables)

\* The tables, the counters and the room numbers keep the rooms' promises.
KeepsPromise == Promise!Spec
=============================================================================
