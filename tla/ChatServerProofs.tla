--------------------------- MODULE ChatServerProofs ---------------------------
(* The chat server's counters and rooms, for any sizes of its tables. *)
EXTENDS ChatServer, FiniteSetTheorems, WellFoundedInduction, TLAPS

(***************************************************************************)
(* The handlers of station.c pass the two tables on, so the facts about    *)
(* them are stated for any pair w of tables.                               *)
(***************************************************************************)
Typed(w) == w = [u |-> w.u, r |-> w.r] /\ w.u \in [Slot -> ChatUser] /\ w.r \in [Room -> ChatRoom]
In(w, r) == {s \in Slot : w.u[s].conn /\ w.u[s].room = r}
Counted(w) == \A r \in Room : w.r[r].occupants = Cardinality(In(w, r))

\* Whoever has not logged in is in no room, who is not connected has no rights.
Known(w) == \A s \in Slot :
    /\ w.u[s].conn /\ w.u[s].utent = NoUser => w.u[s].room = None
    /\ ~w.u[s].conn => w.u[s].perms = {}

\* The rooms people are in, and the main room, have names, and one each.
Live(w, r) == r = 0 \/ w.r[r].occupants # 0
Distinct(w) ==
    /\ w.r[0].name = Main
    /\ \A r \in Room : Live(w, r) => w.r[r].name \in Name
    /\ \A q, r \in Room : Live(w, q) /\ Live(w, r) /\ w.r[q].name = w.r[r].name => q = r

Sound(w) == Typed(w) /\ Counted(w) /\ Known(w) /\ Distinct(w)

\* Whom exit_room may be called for: nobody closed is in a room.
Here(w, s) == w.u[s].conn \/ w.u[s].room = None

LEMMA Sizes ==
    /\ Slot \subseteq Nat /\ Room \subseteq Nat /\ IsFiniteSet(Slot)
    /\ None \notin Slot /\ None \notin Room /\ 0 \in Slot /\ 0 \in Room
<1>1. IsFiniteSet(Slot)
    BY SizeAssumption, FS_Interval DEF Slot
<1> QED
    BY <1>1, SizeAssumption DEF Slot, Room, None

LEMMA InFinite ==
    ASSUME NEW w, NEW r
    PROVE  IsFiniteSet(In(w, r))
BY Sizes, FS_Subset DEF In

(* The search of a table ends at an entry that fits, or at none. *)
LEMMA FirstFits ==
    ASSUME NEW S \in SUBSET Nat
    PROVE  (S = {} => First(S) = None) /\ (S # {} => First(S) \in S)
<1> DEFINE R == OpToRel(<, Nat)
<1>1. \A x, y \in S : x < y => <<x, y>> \in R
    BY DEF OpToRel
<1> HIDE DEF R
<1>2. IsWellFoundedOn(R, Nat)
    BY NatLessThanWellFounded DEF R
<1>3. ASSUME S # {} PROVE \E x \in S : \A y \in S : x <= y
    <2>1. PICK x \in S : \A y \in S : <<y, x>> \notin R
        BY <1>2, <1>3, WFMin
    <2>2. \A y \in S : ~(y < x)
        BY <1>1, <2>1
    <2> QED
        BY <2>2
<1> QED
    BY <1>3 DEF First

-----------------------------------------------------------------------------
LEMMA FreshRoom ==
    ASSUME NEW n \in Name \cup {NoName}
    PROVE  /\ Fresh(n) \in ChatRoom /\ Fresh(n).name = n /\ Fresh(n).occupants = 0
           /\ ~Fresh(n).locked /\ Fresh(n).invites = {}
BY DEF Fresh, ChatRoom

LEMMA BlankUser ==
    /\ Blank \in ChatUser /\ ~Blank.conn /\ Blank.room = None
    /\ Blank.perms = {} /\ Blank.utent = NoUser
BY DEF Blank, ChatUser, Perms

(* exit_room *)
LEMMA ExitIs ==
    ASSUME NEW w, Typed(w), NEW s \in Slot
    PROVE  LET x == exit_room(w, s)  r == w.u[s].room
           IN  /\ Typed(x)
               /\ \A t \in Slot \ {s} : x.u[t] = w.u[t]
               /\ x.u[s].room = None /\ x.u[s].perms = w.u[s].perms \ {"op"}
               /\ x.u[s].conn = w.u[s].conn /\ x.u[s].utent = w.u[s].utent
               /\ \A q \in Room \ {r} : x.r[q] = w.r[q]
               /\ r # None => /\ x.r[r].occupants = w.r[r].occupants - 1
                              /\ x.r[r].name = w.r[r].name
                              /\ x.r[r].locked = w.r[r].locked
                              /\ x.r[r].invites = w.r[r].invites
<1> DEFINE x == exit_room(w, s)
           r == w.u[s].room
           f == [[w.u[s] EXCEPT !.room = None] EXCEPT !.perms = w.u[s].perms \ {"op"}]
           g == [w.r[r] EXCEPT !.occupants = w.r[r].occupants - 1]
<1>1. w.u[s] \in ChatUser /\ r \in Room \cup {None} /\ w.u[s].perms \in SUBSET Perms
    BY DEF Typed, ChatUser
<1>2. /\ f \in ChatUser /\ f.room = None /\ f.perms = w.u[s].perms \ {"op"}
      /\ f.conn = w.u[s].conn /\ f.utent = w.u[s].utent
    <2>1. w.u[s].perms \ {"op"} \in SUBSET Perms /\ None \in Room \cup {None}
        BY <1>1
    <2> QED
        BY <1>1, <2>1 DEF ChatUser
<1>3. x.u = [w.u EXCEPT ![s] = f]
    <2> DEFINE y == [w.u EXCEPT ![s] = [w.u[s] EXCEPT !.room = None]]
    <2>1. x.u = [y EXCEPT ![s] = [y[s] EXCEPT !.perms = y[s].perms \ {"op"}]]
        BY DEF exit_room
    <2>2. y[s] = [w.u[s] EXCEPT !.room = None]
        BY DEF Typed
    <2>3. y[s].perms = w.u[s].perms
        BY <1>1, <2>2 DEF ChatUser
    <2>4. DOMAIN y = Slot /\ \A t \in Slot \ {s} : y[t] = w.u[t]
        BY DEF Typed
    <2>5. DOMAIN x.u = Slot /\ x.u[s] = f /\ \A t \in Slot \ {s} : x.u[t] = w.u[t]
        <3> HIDE DEF y, x
        <3> QED
            BY <2>1, <2>2, <2>3, <2>4
    <2> HIDE DEF y, x, f
    <2> QED
        BY <2>1, <2>4, <2>5 DEF Typed
<1>4. x.r = IF r = None THEN w.r ELSE [w.r EXCEPT ![r] = g]
    BY DEF exit_room
<1>5. ASSUME r # None
      PROVE  /\ g \in ChatRoom /\ g.occupants = w.r[r].occupants - 1
             /\ g.name = w.r[r].name /\ g.locked = w.r[r].locked /\ g.invites = w.r[r].invites
    <2>1. w.r[r] \in ChatRoom
        BY <1>1, <1>5 DEF Typed
    <2> QED
        BY <2>1 DEF ChatRoom
<1>6. x = [u |-> x.u, r |-> x.r]
    BY DEF exit_room
<1> HIDE DEF x, f, g
<1>7. Typed(x)
    BY <1>1, <1>2, <1>3, <1>4, <1>5, <1>6 DEF Typed
<1>8. \A t \in Slot \ {s} : x.u[t] = w.u[t]
    BY <1>3 DEF Typed
<1>9. x.u[s] = f
    BY <1>3 DEF Typed
<1>10. \A q \in Room \ {r} : x.r[q] = w.r[q]
    BY <1>4 DEF Typed
<1>11. r # None => x.r[r] = g
    BY <1>1, <1>4 DEF Typed
<1> QED
    BY <1>2, <1>5, <1>7, <1>8, <1>9, <1>10, <1>11 DEF x

LEMMA ExitCounts ==
    ASSUME NEW w, Typed(w), Counted(w), NEW s \in Slot, Here(w, s)
    PROVE  Counted(exit_room(w, s))
<1> DEFINE x == exit_room(w, s)
           r == w.u[s].room
<1>0. /\ \A t \in Slot \ {s} : x.u[t] = w.u[t]
      /\ x.u[s].room = None /\ x.u[s].conn = w.u[s].conn
      /\ \A q \in Room \ {r} : x.r[q] = w.r[q]
      /\ r # None => x.r[r].occupants = w.r[r].occupants - 1
    BY ExitIs
<1> HIDE DEF x
<1>1. \A q \in Room \ {r} : In(x, q) = In(w, q) /\ x.r[q] = w.r[q]
    BY <1>0, Sizes DEF In
<1>2. ASSUME r # None PROVE x.r[r].occupants = Cardinality(In(x, r))
    <2>1. In(x, r) = In(w, r) \ {s} /\ s \in In(w, r)
        BY <1>0, <1>2 DEF In, Here
    <2>2. Cardinality(In(x, r)) = Cardinality(In(w, r)) - 1
        <3>1. IsFiniteSet(In(w, r))
            BY InFinite
        <3> QED
            BY <2>1, <3>1, FS_RemoveElement
    <2>3. r \in Room
        BY <1>2 DEF Typed, ChatUser
    <2> QED
        BY <1>0, <1>2, <2>2, <2>3 DEF Counted
<1> QED
    BY <1>1, <1>2, Sizes DEF Counted, x

LEMMA ExitSound ==
    ASSUME NEW w, Sound(w), NEW s \in Slot, Here(w, s)
    PROVE  Sound(exit_room(w, s))
<1> DEFINE x == exit_room(w, s)
           r == w.u[s].room
<1>1. Typed(w) /\ Counted(w) /\ Known(w) /\ Distinct(w)
    BY DEF Sound
<1>2. /\ Typed(x) /\ \A t \in Slot \ {s} : x.u[t] = w.u[t]
      /\ x.u[s].room = None /\ x.u[s].perms = w.u[s].perms \ {"op"}
      /\ x.u[s].conn = w.u[s].conn
      /\ \A q \in Room \ {r} : x.r[q] = w.r[q]
      /\ r # None => /\ x.r[r].occupants = w.r[r].occupants - 1
                     /\ x.r[r].name = w.r[r].name
    BY <1>1, ExitIs
<1>3. Counted(x)
    BY <1>1, ExitCounts
<1> HIDE DEF x
<1>4. Known(x)
    <2> SUFFICES ASSUME NEW t \in Slot
                 PROVE  /\ x.u[t].conn /\ x.u[t].utent = NoUser => x.u[t].room = None
                        /\ ~x.u[t].conn => x.u[t].perms = {}
        BY DEF Known
    <2> QED
        BY <1>1, <1>2 DEF Known
<1>5. \A q \in Room : x.r[q].name = w.r[q].name
    BY <1>2, Sizes
<1>6. \A q \in Room : Live(x, q) => Live(w, q)
    <2> SUFFICES ASSUME NEW q \in Room, q # 0, x.r[q].occupants # 0 PROVE Live(w, q)
        BY DEF Live
    <2>1. CASE q # r
        BY <1>2, <2>1 DEF Live
    <2>2. CASE q = r
        <3>1. s \in In(w, r)
            BY <2>2, Sizes DEF In, Here
        <3>2. Cardinality(In(w, r)) # 0
            BY <3>1, InFinite, FS_EmptySet
        <3> QED
            BY <1>1, <2>2, <3>2 DEF Live, Counted
    <2> QED
        BY <2>1, <2>2
<1>7. Distinct(x)
    BY <1>1, <1>5, <1>6, Sizes DEF Distinct
<1> QED
    BY <1>2, <1>3, <1>4, <1>7 DEF Sound, x

(***************************************************************************)
(* enter_room: s goes to room q of w, out of the room it was in.           *)
(***************************************************************************)
Entered(w, s, q, y) ==
    LET x == exit_room(w, s)
    IN  /\ Typed(y)
        /\ \A t \in Slot \ {s} : y.u[t] = w.u[t]
        /\ y.u[s].room = q /\ y.u[s].conn = w.u[s].conn /\ y.u[s].utent = w.u[s].utent
        /\ y.u[s].perms \ {"op"} = w.u[s].perms \ {"op"}
        /\ \A p \in Room \ {q} : y.r[p] = x.r[p]
        /\ y.r[q].occupants = x.r[q].occupants + 1
        /\ y.r[q].name = x.r[q].name /\ y.r[q].locked = x.r[q].locked
        /\ y.r[q].invites = x.r[q].invites \ {s}

Lets(w, s, q) == "sysop" \in w.u[s].perms \/ ~w.r[q].locked \/ s \in w.r[q].invites

Opened(w, q, n) == [u |-> w.u, r |-> [w.r EXCEPT ![q] = Fresh(n)]]

LEMMA OpenedIs ==
    ASSUME NEW w, Typed(w), NEW q \in Room, NEW n \in Name
    PROVE  /\ Typed(Opened(w, q, n)) /\ Opened(w, q, n).u = w.u
           /\ \A p \in Room \ {q} : Opened(w, q, n).r[p] = w.r[p]
           /\ Opened(w, q, n).r[q] = Fresh(n)
BY FreshRoom DEF Typed, Opened

LEMMA RoomidFits ==
    ASSUME NEW rs, NEW n
    PROVE  LET q == roomid_to_indx(rs, n)
           IN  \/ q = None /\ \A r \in Room : ~(rs[r].name = n /\ (r = 0 \/ rs[r].occupants # 0))
               \/ q \in Room /\ rs[q].name = n /\ (q = 0 \/ rs[q].occupants # 0)
<1> DEFINE S == {r \in Room : rs[r].name = n /\ (r = 0 \/ rs[r].occupants # 0)}
<1>1. S \in SUBSET Nat
    BY Sizes
<1>2. roomid_to_indx(rs, n) = First(S)
    BY DEF roomid_to_indx
<1> QED
    BY <1>1, <1>2, FirstFits

\* The exit, then the new room written into the tables.
Moved(w, s, q, op) ==
    LET out == exit_room(w, s)
    IN  [u |-> [out.u EXCEPT ![s].room = q, ![s].perms = IF op THEN @ \cup {"op"} ELSE @],
         r |-> [out.r EXCEPT ![q].occupants = @ + 1, ![q].invites = @ \ {s}]]

LEMMA MovedIs ==
    ASSUME NEW w, Typed(w), NEW s \in Slot, NEW q \in Room, NEW op \in BOOLEAN
    PROVE  LET y == Moved(w, s, q, op)
           IN  /\ Entered(w, s, q, y)
               /\ y.u[s].perms = IF op THEN w.u[s].perms \cup {"op"}
                                 ELSE w.u[s].perms \ {"op"}
<1> DEFINE y == Moved(w, s, q, op)
<1> DEFINE x == exit_room(w, s)
           p == w.u[s].perms \ {"op"}
           o == IF op THEN p \cup {"op"} ELSE p
           f == [[x.u[s] EXCEPT !.room = q] EXCEPT !.perms = o]
           g == [[x.r[q] EXCEPT !.occupants = x.r[q].occupants + 1]
                          EXCEPT !.invites = x.r[q].invites \ {s}]
<1>1. /\ Typed(x) /\ x.u[s].perms = p
      /\ x.u[s].conn = w.u[s].conn /\ x.u[s].utent = w.u[s].utent
      /\ \A t \in Slot \ {s} : x.u[t] = w.u[t]
    BY ExitIs
<1>2. /\ y.u = [x.u EXCEPT ![s].room = q, ![s].perms = IF op THEN @ \cup {"op"} ELSE @]
      /\ y.r = [x.r EXCEPT ![q].occupants = @ + 1, ![q].invites = @ \ {s}]
      /\ y = [u |-> y.u, r |-> y.r]
    BY DEF Moved
<1> HIDE DEF y
<1>3. x.u[s] \in ChatUser /\ x.r[q] \in ChatRoom /\ o \in SUBSET Perms
    BY <1>1 DEF Typed, ChatUser, Perms
<1> HIDE DEF x
<1>4. /\ f \in ChatUser /\ f.room = q /\ f.perms = o
      /\ f.conn = x.u[s].conn /\ f.utent = x.u[s].utent
    <2> HIDE DEF o
    <2> QED
        BY <1>3 DEF ChatUser
<1>5. /\ g \in ChatRoom /\ g.occupants = x.r[q].occupants + 1 /\ g.name = x.r[q].name
      /\ g.locked = x.r[q].locked /\ g.invites = x.r[q].invites \ {s}
    <2> DEFINE e == x.r[q]
               n == e.occupants + 1
               h == [e EXCEPT !.occupants = n]
               i == e.invites \ {s}
    <2>1. e \in ChatRoom /\ n \in Int /\ i \in SUBSET Slot
        BY <1>3 DEF ChatRoom
    <2>2. g = [h EXCEPT !.invites = i]
        OBVIOUS
    <2> HIDE DEF e, n, i
    <2>3. /\ h \in ChatRoom /\ h.occupants = n /\ h.name = e.name
          /\ h.locked = e.locked /\ h.invites = e.invites
        BY <2>1 DEF ChatRoom
    <2> HIDE DEF g, h
    <2>4. /\ g \in ChatRoom /\ g.occupants = h.occupants /\ g.name = h.name
          /\ g.locked = h.locked /\ g.invites = i
        BY <2>1, <2>2, <2>3 DEF ChatRoom
    <2> QED
        BY <2>3, <2>4 DEF e, n, i
<1>6. DOMAIN y.u = Slot /\ y.u[s] = f /\ \A t \in Slot \ {s} : y.u[t] = x.u[t]
    <2> DEFINE z == [x.u EXCEPT ![s] = [x.u[s] EXCEPT !.room = q]]
    <2>1. y.u = [z EXCEPT ![s] = [z[s] EXCEPT !.perms =
                     IF op THEN z[s].perms \cup {"op"} ELSE z[s].perms]]
        BY <1>2
    <2>2. DOMAIN z = Slot /\ z[s] = [x.u[s] EXCEPT !.room = q]
          /\ \A t \in Slot \ {s} : z[t] = x.u[t]
        BY <1>1 DEF Typed
    <2>3. z[s].perms = p
        BY <1>1, <1>3, <2>2 DEF ChatUser
    <2> HIDE DEF z
    <2> QED
        BY <2>1, <2>2, <2>3
<1>7. DOMAIN y.r = Room /\ y.r[q] = g /\ \A t \in Room \ {q} : y.r[t] = x.r[t]
    <2> DEFINE z == [x.r EXCEPT ![q] = [x.r[q] EXCEPT !.occupants = x.r[q].occupants + 1]]
    <2>1. y.r = [z EXCEPT ![q] = [z[q] EXCEPT !.invites = z[q].invites \ {s}]]
        BY <1>2
    <2>2. DOMAIN z = Room /\ z[q] = [x.r[q] EXCEPT !.occupants = x.r[q].occupants + 1]
          /\ \A t \in Room \ {q} : z[t] = x.r[t]
        BY <1>1 DEF Typed
    <2>3. z[q].invites = x.r[q].invites
        BY <1>3, <2>2 DEF ChatRoom
    <2> HIDE DEF z
    <2> QED
        BY <2>1, <2>2, <2>3
<1>8. y.u = [t \in Slot |-> y.u[t]] /\ y.r = [t \in Room |-> y.r[t]]
    BY <1>2, <1>6, <1>7
<1> HIDE DEF f, g
<1>9. Typed(y)
    <2>1. \A t \in Slot : y.u[t] \in ChatUser
        BY <1>1, <1>4, <1>6 DEF Typed
    <2>2. \A t \in Room : y.r[t] \in ChatRoom
        BY <1>1, <1>5, <1>7 DEF Typed
    <2>3. y.u \in [Slot -> ChatUser] /\ y.r \in [Room -> ChatRoom]
        BY <1>8, <2>1, <2>2
    <2> QED
        BY <1>2, <2>3 DEF Typed
<1>10. y.u[s].perms = o /\ o \ {"op"} = p
    BY <1>4, <1>6
<1>11. Entered(w, s, q, y)
    BY <1>1, <1>4, <1>5, <1>6, <1>7, <1>9, <1>10 DEF Entered, x
<1> QED
    BY <1>10, <1>11 DEF y

LEMMA MovedAsOperator ==
    ASSUME NEW w, Typed(w), NEW s \in Slot, NEW q \in Room, NEW y, y = Moved(w, s, q, TRUE)
    PROVE  Entered(w, s, q, y) /\ y.u[s].perms = w.u[s].perms \cup {"op"}
<1>1. TRUE \in BOOLEAN
    OBVIOUS
<1> QED
    BY <1>1, MovedIs

LEMMA EnterIs ==
    ASSUME NEW w, Typed(w), NEW s \in Slot, NEW n \in Name
    PROVE  LET y == enter_room(w, s, n)
           IN  \/ y = w
               \/ \E q \in Room :
                     /\ q = roomid_to_indx(w.r, n) /\ Lets(w, s, q)
                     /\ Entered(w, s, q, y)
                     /\ y.u[s].perms = w.u[s].perms \ {"op"}
               \/ \E q \in Room \ {0} :
                     /\ roomid_to_indx(w.r, n) = None /\ w.r[q].occupants = 0
                     /\ Entered(Opened(w, q, n), s, q, y)
                     /\ y.u[s].perms = w.u[s].perms \cup {"op"}
<1> DEFINE old == roomid_to_indx(w.r, n)
           opens == old = None
           rnum == IF opens THEN First({r \in Room \ {0} : w.r[r].occupants = 0}) ELSE old
           rs == IF opens THEN [w.r EXCEPT ![rnum] = Fresh(n)] ELSE w.r
           refused == \/ opens /\ ("outsider" \in w.u[s].perms \/ rnum = None)
                      \/ /\ "sysop" \notin w.u[s].perms
                         /\ rs[rnum].locked /\ s \notin rs[rnum].invites
           v == [u |-> w.u, r |-> rs]
           out == exit_room(v, s)
           y == enter_room(w, s, n)
           z == [u |-> [out.u EXCEPT ![s].room = rnum,
                                     ![s].perms = IF opens THEN @ \cup {"op"} ELSE @],
                 r |-> [out.r EXCEPT ![rnum].occupants = @ + 1,
                                     ![rnum].invites = @ \ {s}]]
<1>1. y = IF refused THEN w ELSE z
    BY DEF enter_room
<1>2. CASE refused
    BY <1>1, <1>2
<1>3. CASE ~refused /\ ~opens
    <2>1. old \in Room /\ rnum = old /\ rs = w.r
        BY <1>3, RoomidFits
    <2>2. v = w
        BY <2>1 DEF Typed
    <2>3. Lets(w, s, old)
        BY <1>3, <2>1 DEF Lets
    <2>4. y = Moved(w, s, old, FALSE)
        BY <1>1, <1>3, <2>1, <2>2 DEF Moved
    <2> HIDE DEF y, old
    <2>5. Entered(w, s, old, y) /\ y.u[s].perms = w.u[s].perms \ {"op"}
        BY <2>1, <2>4, MovedIs
    <2> QED
        BY <2>1, <2>3, <2>5 DEF y, old
<1>4. CASE ~refused /\ opens
    <2>1. rnum \in Room \ {0} /\ w.r[rnum].occupants = 0
        <3> DEFINE S == {r \in Room \ {0} : w.r[r].occupants = 0}
        <3>1. S \in SUBSET Nat
            BY Sizes
        <3>2. rnum = First(S) /\ rnum # None
            BY <1>4
        <3>3. rnum \in S
            BY <3>1, <3>2, FirstFits
        <3> QED
            BY <3>3
    <2>2. v = Opened(w, rnum, n)
        BY <1>4 DEF Opened
    <2>3. Typed(v) /\ v.u = w.u
        BY <2>1, <2>2, OpenedIs
    <2>4. y = Moved(v, s, rnum, TRUE)
        BY <1>1, <1>4 DEF Moved
    <2> HIDE DEF y, z, out, v, rs, refused, rnum, opens, old
    <2>5. Entered(v, s, rnum, y) /\ y.u[s].perms = v.u[s].perms \cup {"op"}
        <3>1. rnum \in Room
            BY <2>1
        <3> QED
            BY <2>3, <2>4, <3>1, MovedAsOperator
    <2> QED
        BY <1>4, <2>1, <2>2, <2>3, <2>5 DEF y, opens, old
<1> QED
    BY <1>2, <1>3, <1>4

LEMMA EnteredCounts ==
    ASSUME NEW w, Typed(w), Counted(w), NEW s \in Slot, w.u[s].conn, NEW q \in Room,
           NEW y, Entered(w, s, q, y)
    PROVE  Counted(y)
<1> DEFINE x == exit_room(w, s)
<1>1. Counted(x) /\ Typed(x)
    BY ExitIs, ExitCounts DEF Here
<1>2. x.u[s].room = None /\ \A t \in Slot \ {s} : x.u[t] = w.u[t]
    BY ExitIs
<1>3. /\ \A t \in Slot \ {s} : y.u[t] = x.u[t]
      /\ y.u[s].room = q /\ y.u[s].conn
      /\ \A p \in Room \ {q} : y.r[p] = x.r[p]
      /\ y.r[q].occupants = x.r[q].occupants + 1
    BY <1>2 DEF Entered
<1> HIDE DEF x
<1>4. ASSUME NEW p \in Room \ {q} PROVE In(y, p) = In(x, p) /\ y.r[p] = x.r[p]
    <2>1. p # None
        BY Sizes
    <2>2. \A t \in Slot : y.u[t].conn /\ y.u[t].room = p <=> x.u[t].conn /\ x.u[t].room = p
        BY <1>2, <1>3, <2>1
    <2> QED
        BY <1>3, <2>2 DEF In
<1>5. In(y, q) = In(x, q) \cup {s} /\ s \notin In(x, q)
    <2>1. x.u[s].room # q
        BY <1>2, Sizes
    <2>2. \A t \in Slot : y.u[t].conn /\ y.u[t].room = q <=>
                           t = s \/ (x.u[t].conn /\ x.u[t].room = q)
        BY <1>3
    <2> QED
        BY <2>1, <2>2 DEF In
<1>6. Cardinality(In(y, q)) = Cardinality(In(x, q)) + 1
    <2>1. IsFiniteSet(In(x, q))
        BY InFinite
    <2> QED
        BY <1>5, <2>1, FS_AddElement
<1> QED
    BY <1>1, <1>3, <1>4, <1>6 DEF Counted

LEMMA OpenedCounts ==
    ASSUME NEW w, Typed(w), Counted(w), NEW q \in Room, w.r[q].occupants = 0, NEW n \in Name
    PROVE  Counted(Opened(w, q, n))
<1> DEFINE v == Opened(w, q, n)
<1>1. v.u = w.u /\ v.r[q] = Fresh(n) /\ \A p \in Room \ {q} : v.r[p] = w.r[p]
    BY OpenedIs
<1> HIDE DEF v
<1>2. \A p \in Room : In(v, p) = In(w, p)
    BY <1>1 DEF In
<1>3. v.r[q].occupants = w.r[q].occupants
    BY <1>1, FreshRoom
<1> QED
    BY <1>1, <1>2, <1>3 DEF Counted, v

\* No live room but q has the name of q.
Free(w, q) == w.r[q].name \in Name /\ \A r \in Room \ {q} :
    Live(w, r) => w.r[r].name # w.r[q].name

LEMMA EnteredSound ==
    ASSUME NEW w, Typed(w), Counted(w), Known(w), Distinct(w),
           NEW s \in Slot, w.u[s].conn, w.u[s].utent # NoUser,
           NEW q \in Room, Free(w, q), NEW y, Entered(w, s, q, y)
    PROVE  Sound(y)
<1> DEFINE x == exit_room(w, s)
<1>1. Sound(x)
    BY ExitSound DEF Sound, Here
<1>2. /\ \A t \in Slot \ {s} : y.u[t] = w.u[t]
      /\ y.u[s].room = q /\ y.u[s].conn /\ y.u[s].utent # NoUser
      /\ \A p \in Room \ {q} : y.r[p] = x.r[p]
      /\ y.r[q].name = x.r[q].name /\ Typed(y)
    BY DEF Entered
<1>3. \A p \in Room : /\ x.r[p].name = w.r[p].name
                      /\ Live(x, p) => Live(w, p)
    <2> DEFINE r == w.u[s].room
    <2>1. /\ \A p \in Room \ {r} : x.r[p] = w.r[p]
          /\ r # None => x.r[r].name = w.r[r].name
        BY ExitIs
    <2> HIDE DEF x, r
    <2>2. \A p \in Room : x.r[p].name = w.r[p].name
        BY <2>1, Sizes
    <2>3. ASSUME NEW p \in Room, Live(x, p) PROVE Live(w, p)
        <3>1. CASE p # r
            BY <2>1, <2>3, <3>1 DEF Live
        <3>2. CASE p = r
            <4>1. s \in In(w, r)
                BY <3>2 DEF In, r
            <4>2. Cardinality(In(w, r)) # 0
                BY <4>1, InFinite, FS_EmptySet
            <4> QED
                BY <3>2, <4>2 DEF Live, Counted
        <3> QED
            BY <3>1, <3>2
    <2> QED
        BY <2>2, <2>3
<1>4. Counted(y)
    BY EnteredCounts
<1> HIDE DEF x
<1>5. Known(y)
    BY <1>2 DEF Known
<1>6. \A p \in Room : y.r[p].name = w.r[p].name /\ (p # q /\ Live(y, p) => Live(w, p))
    BY <1>2, <1>3 DEF Live
<1>7. Distinct(y)
    BY <1>6, Sizes DEF Distinct, Free
<1> QED
    BY <1>2, <1>4, <1>5, <1>7 DEF Sound

LEMMA OpenedSound ==
    ASSUME NEW w, Sound(w), NEW q \in Room \ {0}, w.r[q].occupants = 0, NEW n \in Name,
           roomid_to_indx(w.r, n) = None
    PROVE  Sound(Opened(w, q, n)) /\ Free(Opened(w, q, n), q)
<1> DEFINE v == Opened(w, q, n)
<1>1. /\ Typed(v) /\ v.u = w.u /\ v.r[q] = Fresh(n)
      /\ \A p \in Room \ {q} : v.r[p] = w.r[p]
    BY OpenedIs DEF Sound
<1>2. Counted(v)
    BY OpenedCounts DEF Sound
<1> HIDE DEF v
<1>3. ~Live(v, q) /\ ~Live(w, q) /\ v.r[q].name = n
    BY <1>1, FreshRoom DEF Live
<1>4. \A p \in Room : Live(v, p) => p # q /\ Live(w, p) /\ v.r[p] = w.r[p]
    BY <1>1, <1>3 DEF Live
<1>5. \A r \in Room : Live(w, r) => w.r[r].name # n
    BY RoomidFits, Sizes DEF Live
<1>6. Distinct(v)
    BY <1>1, <1>4, Sizes DEF Sound, Distinct
<1>7. Known(v)
    BY <1>1 DEF Sound, Known
<1> QED
    BY <1>1, <1>2, <1>3, <1>4, <1>5, <1>6, <1>7 DEF Sound, Free, v

LEMMA EnterSound ==
    ASSUME NEW w, Sound(w), NEW s \in Slot, w.u[s].conn, w.u[s].utent # NoUser, NEW n \in Name
    PROVE  Sound(enter_room(w, s, n)) /\ \A t \in Slot : enter_room(w, s, n).u[t].conn = w.u[t].conn
<1> DEFINE y == enter_room(w, s, n)
<1>1. CASE y = w
    BY <1>1
<1>2. CASE \E q \in Room : q = roomid_to_indx(w.r, n) /\ Entered(w, s, q, y)
    <2>1. PICK q \in Room : q = roomid_to_indx(w.r, n) /\ Entered(w, s, q, y)
        BY <1>2
    <2> HIDE DEF y
    <2>2. \A t \in Slot : y.u[t].conn = w.u[t].conn
        BY <2>1 DEF Entered
    <2>3. Live(w, q)
        BY <2>1, RoomidFits, Sizes DEF Live
    <2>4. Free(w, q)
        BY <2>3 DEF Sound, Distinct, Free
    <2>5. Sound(y)
        BY <2>1, <2>4, EnteredSound DEF Sound
    <2> QED
        BY <2>2, <2>5 DEF y
<1>3. CASE \E q \in Room \ {0} : /\ roomid_to_indx(w.r, n) = None /\ w.r[q].occupants = 0
                                 /\ Entered(Opened(w, q, n), s, q, y)
    <2>1. PICK q \in Room \ {0} : /\ roomid_to_indx(w.r, n) = None /\ w.r[q].occupants = 0
                                  /\ Entered(Opened(w, q, n), s, q, y)
        BY <1>3
    <2> DEFINE v == Opened(w, q, n)
    <2>2. v.u = w.u /\ Sound(v) /\ Free(v, q)
        BY <2>1, OpenedIs, OpenedSound DEF Sound
    <2> HIDE DEF y, v
    <2>3. Entered(v, s, q, y)
        BY <2>1 DEF v
    <2>4. \A t \in Slot : y.u[t].conn = w.u[t].conn
        BY <2>2, <2>3 DEF Entered
    <2>5. Sound(y)
        BY <2>2, <2>3, EnteredSound DEF Sound
    <2> QED
        BY <2>4, <2>5 DEF y
<1>4. Typed(w)
    BY DEF Sound
<1> QED
    BY <1>1, <1>2, <1>3, <1>4, EnterIs

(* logout_user, of somebody out of the rooms. *)
LEMMA LogoutIs ==
    ASSUME NEW w, Typed(w), NEW s \in Slot
    PROVE  LET x == logout_user(w, s)
           IN  /\ Typed(x) /\ x.u[s] = Blank
               /\ \A t \in Slot \ {s} : x.u[t] = w.u[t]
               /\ \A r \in Room : /\ x.r[r].occupants = w.r[r].occupants
                                  /\ x.r[r].name = w.r[r].name
                                  /\ x.r[r].locked = w.r[r].locked
                                  /\ x.r[r].invites = w.r[r].invites \ {s}
<1> DEFINE x == logout_user(w, s)
           g(r) == [w.r[r] EXCEPT !.invites = w.r[r].invites \ {s}]
<1>1. x = [u |-> x.u, r |-> x.r] /\ x.u = [w.u EXCEPT ![s] = Blank] /\ x.r = [r \in Room |-> g(r)]
    BY DEF logout_user
<1>2. ASSUME NEW r \in Room
      PROVE  /\ g(r) \in ChatRoom /\ g(r).occupants = w.r[r].occupants
             /\ g(r).name = w.r[r].name /\ g(r).locked = w.r[r].locked
             /\ g(r).invites = w.r[r].invites \ {s}
    <2>1. w.r[r] \in ChatRoom
        BY DEF Typed
    <2> QED
        BY <2>1 DEF ChatRoom
<1> HIDE DEF x, g
<1>3. Typed(x)
    BY <1>1, <1>2, BlankUser DEF Typed
<1>4. x.u[s] = Blank /\ \A t \in Slot \ {s} : x.u[t] = w.u[t]
    BY <1>1 DEF Typed
<1> QED
    BY <1>1, <1>2, <1>3, <1>4 DEF x

LEMMA LogoutCounts ==
    ASSUME NEW w, Typed(w), Counted(w), NEW s \in Slot, ~w.u[s].conn \/ w.u[s].room = None
    PROVE  Counted(logout_user(w, s))
<1> DEFINE x == logout_user(w, s)
<1>1. /\ \A t \in Slot \ {s} : x.u[t] = w.u[t]
      /\ ~x.u[s].conn
      /\ \A r \in Room : x.r[r].occupants = w.r[r].occupants
    BY LogoutIs, BlankUser
<1> HIDE DEF x
<1>2. \A r \in Room : In(x, r) = In(w, r)
    BY <1>1, Sizes DEF In
<1> QED
    BY <1>1, <1>2 DEF Counted, x

LEMMA LogoutSound ==
    ASSUME NEW w, Sound(w), NEW s \in Slot, ~w.u[s].conn \/ w.u[s].room = None
    PROVE  Sound(logout_user(w, s))
<1> DEFINE x == logout_user(w, s)
<1>1. Typed(w) /\ Counted(w) /\ Known(w) /\ Distinct(w)
    BY DEF Sound
<1>2. /\ Typed(x) /\ x.u[s] = Blank
      /\ \A t \in Slot \ {s} : x.u[t] = w.u[t]
      /\ \A r \in Room : x.r[r].occupants = w.r[r].occupants /\ x.r[r].name = w.r[r].name
    BY <1>1, LogoutIs
<1>3. Counted(x)
    BY <1>1, LogoutCounts
<1> HIDE DEF x
<1>4. Known(x)
    BY <1>1, <1>2, BlankUser DEF Known
<1>5. Distinct(x)
    BY <1>1, <1>2, Sizes DEF Distinct, Live
<1> QED
    BY <1>2, <1>3, <1>4, <1>5 DEF Sound, x

-----------------------------------------------------------------------------
(***************************************************************************)
(* The tables are sound as long as the three handlers are called for       *)
(* somebody connected, or out of the rooms.  That the server calls them    *)
(* for nobody else rests on what select watches (Watched) and on the read  *)
(* that is being worked on (Working): a sysop's kick of himself leaves     *)
(* lines of a closed slot, and a slot closed after use is in no room.      *)
(***************************************************************************)
Open == {s \in Slot : users[s].conn}
Watched == allfds \subseteq Open
Working == ~Selecting => Here(Tables, burst.slot)

Bookkeeping ==
    /\ num_conns \in Int
    /\ burst \in [slot : Slot, left : 0 .. Lines - 1]
    /\ Watched /\ Working

ChatInv == Sound(Tables) /\ Bookkeeping

\* What a step does to the connections: nothing, or it ends one.
SameConns ==
    /\ UNCHANGED <<num_conns, allfds>>
    /\ \A t \in Slot : users'[t].conn <=> users[t].conn
Gone(s) ==
    /\ Unwatch(s) /\ users'[s] = Blank
    /\ \A t \in Slot \ {s} : users'[t] = users[t]

LEMMA TablesAre ==
    /\ Tables = [u |-> users, r |-> rooms] /\ Tables.u = users /\ Tables.r = rooms
    /\ Tables' = [u |-> users', r |-> rooms'] /\ Tables'.u = users' /\ Tables'.r = rooms'
BY DEF Tables

(* The invariant, spelled out. *)
LEMMA InvIs ==
    ASSUME ChatInv
    PROVE  /\ Sound(Tables) /\ Typed(Tables) /\ Counted(Tables) /\ Known(Tables) /\ Distinct(Tables)
           /\ Watched /\ num_conns \in Int /\ burst \in [slot : Slot, left : 0 .. Lines - 1]
           /\ users \in [Slot -> ChatUser] /\ rooms \in [Room -> ChatRoom]
BY TablesAre DEF ChatInv, Bookkeeping, Sound, Typed

LEMMA Becomes ==
    ASSUME NEW w, Sound(w), Become(w)
    PROVE  Sound(Tables)'
<1>1. Tables' = w
    BY TablesAre DEF Become, Sound, Typed
<1> QED
    BY <1>1 DEF Sound, Typed, Counted, In, Known, Distinct, Live

LEMMA InitChatInv == Init => ChatInv
<1> SUFFICES ASSUME Init PROVE ChatInv
    OBVIOUS
<1> DEFINE b == [Blank EXCEPT !.room = 0]
<1>1. b \in ChatUser /\ ~b.conn /\ b.perms = {}
    BY Sizes DEF Blank, ChatUser, Perms
<1>2. users = [s \in Slot |-> b]
    BY DEF Init
<1> HIDE DEF b
<1>3. \A r \in Room : /\ rooms[r] \in ChatRoom /\ rooms[r].occupants = 0
                      /\ rooms[r].name = IF r = 0 THEN Main ELSE NoName
    BY NameAssumption, FreshRoom DEF Init
<1>4. Typed(Tables)
    BY <1>1, <1>2, <1>3, TablesAre DEF Typed, Init
<1>5. Counted(Tables)
    <2>1. \A r \in Room : In(Tables, r) = {}
        BY <1>1, <1>2, TablesAre DEF In
    <2> QED
        BY <1>3, <2>1, FS_EmptySet, TablesAre DEF Counted
<1>6. Known(Tables)
    BY <1>1, <1>2, TablesAre DEF Known
<1>7. Distinct(Tables)
    BY <1>3, NameAssumption, Sizes, TablesAre DEF Distinct, Live
<1>8. Bookkeeping
    BY SizeAssumption, Sizes DEF Init, Bookkeeping, Watched, Working, Selecting, Quiet
<1> QED
    BY <1>4, <1>5, <1>6, <1>7, <1>8 DEF ChatInv, Sound

(* Who has a line to be worked on is connected, or out of the rooms. *)
LEMMA LineIsHere ==
    ASSUME ChatInv, NEW s \in Slot, Line(s)
    PROVE  Here(Tables, s)
BY TablesAre DEF ChatInv, Bookkeeping, Watched, Working, Line, Here, Open

LEMMA InRoomIsOpen ==
    ASSUME ChatInv, NEW s \in Slot, InRoom(s)
    PROVE  users[s].conn /\ users[s].utent # NoUser
<1>1. users[s].conn
    BY LineIsHere, TablesAre DEF InRoom, Here
<1> QED
    BY <1>1, InvIs, TablesAre DEF InRoom, Known

LEMMA DoneKeeps ==
    ASSUME ChatInv, NEW s \in Slot, Done(s), Line(s)
    PROVE  burst' \in [slot : Slot, left : 0 .. Lines - 1] /\ (~Selecting' => burst'.slot = s)
<1>1. burst \in [slot : Slot, left : 0 .. Lines - 1]
    BY InvIs
<1>2. PICK k \in 0 .. Lines - 1 : burst' = IF k = 0 THEN Quiet ELSE [slot |-> s, left |-> k]
    BY <1>1, SizeAssumption DEF Done, Selecting
<1> QED
    BY <1>2, Sizes DEF Quiet, Selecting

(* A command that keeps the connections. *)
LEMMA CommandKeeps ==
    ASSUME ChatInv, NEW s \in Slot, InRoom(s), Done(s), Sound(Tables)', SameConns
    PROVE  ChatInv'
<1>1. burst' \in [slot : Slot, left : 0 .. Lines - 1] /\ (~Selecting' => burst'.slot = s)
    BY DoneKeeps DEF InRoom
<1>2. users'[s].conn
    BY InRoomIsOpen DEF SameConns
<1>3. Working'
    BY <1>1, <1>2, TablesAre DEF Working, Here
<1>4. Watched' /\ num_conns' \in Int
    BY InvIs DEF Watched, Open, SameConns
<1> QED
    BY <1>1, <1>3, <1>4 DEF ChatInv, Bookkeeping

(* A connection that ends. *)
LEMMA UnwatchKeeps ==
    ASSUME ChatInv, NEW s \in Slot, Unwatch(s), users'[s] = Blank,
           \A t \in Slot \ {s} : users'[t].conn = users[t].conn
    PROVE  num_conns' \in Int /\ Watched'
<1>1. num_conns' \in Int
    BY DEF Unwatch, ChatInv, Bookkeeping
<1>2. allfds' \subseteq allfds \ {s}
    BY DEF Unwatch, ChatInv, Bookkeeping, Watched, Open
<1> QED
    BY <1>1, <1>2, BlankUser DEF ChatInv, Bookkeeping, Watched, Open

LEMMA CutKeeps ==
    ASSUME ChatInv, NEW s \in Slot, NEW w, Sound(w), ~w.u[s].conn \/ w.u[s].room = None,
           \A t \in Slot \ {s} : w.u[t] = users[t],
           Become(logout_user(w, s)), Unwatch(s)
    PROVE  /\ Sound(Tables)' /\ num_conns' \in Int /\ Watched'
           /\ Gone(s)
<1> DEFINE x == logout_user(w, s)
<1>1. x.u[s] = Blank /\ \A t \in Slot \ {s} : x.u[t] = w.u[t]
    BY LogoutIs DEF Sound
<1>2. Sound(x)
    BY LogoutSound
<1>3. Become(x)
    OBVIOUS
<1> HIDE DEF x
<1>4. users'[s] = Blank /\ \A t \in Slot \ {s} : users'[t] = users[t]
    BY <1>1, <1>3 DEF Become
<1> QED
    BY <1>2, <1>3, <1>4, Becomes, UnwatchKeeps DEF Gone

(* Entries are rewritten, and everybody stays in the same room. *)
LEMMA SameRooms ==
    ASSUME ChatInv, users' \in [Slot -> ChatUser], rooms' \in [Room -> ChatRoom],
           \A t \in Slot : /\ users'[t].conn = users[t].conn /\ users'[t].room = users[t].room
                           /\ users'[t].utent = users[t].utent
                           /\ ~users[t].conn => users'[t].perms = users[t].perms,
           \A r \in Room : /\ rooms'[r].occupants = rooms[r].occupants
                           /\ rooms'[r].name = rooms[r].name
    PROVE  Sound(Tables)'
<1>1. Typed(Tables)'
    BY TablesAre DEF Typed
<1>2. \A r \in Room : In(Tables, r)' = In(Tables, r)
    BY TablesAre DEF In
<1>3. Counted(Tables)'
    BY <1>2, InvIs, TablesAre DEF Counted
<1>4. Known(Tables)'
    BY InvIs, TablesAre DEF Known
<1>5. Distinct(Tables)'
    BY InvIs, TablesAre, Sizes DEF Distinct, Live
<1> QED
    BY <1>1, <1>3, <1>4, <1>5 DEF Sound

LEMMA AcceptStep ==
    ASSUME ChatInv, Accept
    PROVE  /\ ChatInv' /\ UNCHANGED burst
           /\ \E t \in Slot : /\ ~users[t].conn /\ users'[t].conn /\ users'[t].room = None
                             /\ users'[t].perms = users[t].perms
                             /\ num_conns' = num_conns + 1 /\ allfds' = allfds \cup {t}
                             /\ \A v \in Slot \ {t} : users'[v] = users[v]
<1> DEFINE t == First({i \in Slot : ~users[i].conn})
           e == [[users[t] EXCEPT !.conn = TRUE] EXCEPT !.room = None]
<1>1. t \in Slot /\ ~users[t].conn
    <2> DEFINE S == {i \in Slot : ~users[i].conn}
    <2>1. S \in SUBSET Nat /\ First(S) # None
        BY Sizes DEF Accept
    <2>2. First(S) \in S
        BY <2>1, FirstFits
    <2> QED
        BY <2>2
<1>2. users' = [users EXCEPT ![t].conn = TRUE, ![t].room = None]
      /\ allfds' = allfds \cup {t} /\ num_conns' = num_conns + 1
      /\ UNCHANGED <<rooms, burst>> /\ Selecting
    BY DEF Accept
<1> HIDE DEF t
<1>3. e \in ChatUser /\ e.conn /\ e.room = None /\ e.perms = users[t].perms
    BY <1>1, InvIs DEF ChatUser
<1>4. users' = [users EXCEPT ![t] = e]
    BY <1>1, <1>2, InvIs
<1> HIDE DEF e
<1>5. Typed(Tables)'
    <2>1. users' \in [Slot -> ChatUser] /\ rooms' \in [Room -> ChatRoom]
        BY <1>2, <1>3, <1>4, InvIs
    <2> QED
        BY <2>1, TablesAre DEF Typed
<1>6. \A r \in Room : In(Tables, r)' = In(Tables, r)
    BY <1>1, <1>3, <1>4, InvIs, Sizes, TablesAre DEF In
<1>7. Counted(Tables)'
    BY <1>2, <1>6, InvIs, TablesAre DEF Counted
<1>8. Known(Tables)'
    BY <1>1, <1>3, <1>4, InvIs, TablesAre DEF Known
<1>9. Distinct(Tables)'
    BY <1>2, InvIs, TablesAre DEF Distinct, Live
<1>10. Bookkeeping'
    BY <1>1, <1>2, <1>3, <1>4, InvIs DEF Bookkeeping, Watched, Working, Selecting, Open
<1>11. users'[t] = e /\ \A v \in Slot \ {t} : users'[v] = users[v]
    BY <1>1, <1>4, InvIs
<1>12. ChatInv'
    BY <1>5, <1>7, <1>8, <1>9, <1>10 DEF ChatInv, Sound
<1> QED
    BY <1>1, <1>2, <1>3, <1>11, <1>12

\* The entry a login is written into, before its room.
Logged(s, u, id, cloak) ==
    [users EXCEPT ![s].utent = u, ![s].chatid = id, ![s].perms = Level[u], ![s].cloak = cloak]

LEMMA LoggedSound ==
    ASSUME ChatInv, NEW s \in Slot, users[s].conn, users[s].utent = NoUser,
           NEW u \in User, NEW id \in Id, NEW cloak \in BOOLEAN
    PROVE  LET w == [u |-> Logged(s, u, id, cloak), r |-> rooms]
           IN  /\ Sound(w) /\ w.r = rooms
               /\ \A t \in Slot \ {s} : w.u[t] = users[t]
               /\ w.u[s].conn /\ w.u[s].room = None
               /\ w.u[s].utent = u /\ w.u[s].perms = Level[u]
<1> DEFINE e == [users[s] EXCEPT !.utent = u, !.chatid = id, !.perms = Level[u], !.cloak = cloak]
           l == Logged(s, u, id, cloak)
           w == [u |-> l, r |-> rooms]
<1>1. users[s].room = None
    BY InvIs, TablesAre DEF Known
<1>2. e \in ChatUser /\ e.conn /\ e.room = None /\ e.utent = u /\ e.perms = Level[u]
    BY <1>1, InvIs, LevelAssumption DEF ChatUser
<1>3. l = [users EXCEPT ![s] = e]
    BY InvIs DEF Logged
<1> HIDE DEF e, l
<1>4. Typed(w) /\ w.u[s] = e /\ \A t \in Slot \ {s} : w.u[t] = users[t]
    BY <1>2, <1>3, InvIs DEF Typed
<1>5. \A r \in Room : In(w, r) = In(Tables, r)
    <2>1. \A t \in Slot : (w.u[t].conn <=> users[t].conn) /\ w.u[t].room = users[t].room
        BY <1>1, <1>2, <1>4
    <2> QED
        BY <2>1, TablesAre DEF In
<1>6. Counted(w)
    BY <1>5, InvIs, TablesAre DEF Counted
<1>7. Known(w)
    BY <1>2, <1>4, InvIs, TablesAre DEF Known
<1>8. Distinct(w)
    BY InvIs, TablesAre DEF Distinct, Live
<1> QED
    BY <1>2, <1>4, <1>6, <1>7, <1>8 DEF Sound, l

LEMMA LoginStep ==
    ASSUME ChatInv, NEW s \in Slot, Login(s)
    PROVE  ChatInv' /\ UNCHANGED burst /\ SameConns
<1>1. PICK u \in User, id \in Id, cloak \in BOOLEAN : login_user(s, u, id, cloak)
    BY DEF Login
<1> DEFINE w == [u |-> Logged(s, u, id, cloak), r |-> rooms]
           y == enter_room(w, s, Main)
<1>2. /\ users[s].conn /\ users[s].utent = NoUser /\ Selecting
      /\ Become(y) /\ UNCHANGED <<num_conns, allfds, burst>>
    BY <1>1, InvIs DEF login_user, Logged, Await, Watched, Open
<1>3. /\ Sound(w) /\ \A t \in Slot \ {s} : w.u[t] = users[t]
      /\ w.u[s].conn /\ w.u[s].utent # NoUser
    BY <1>2, LoggedSound, UserAssumption
<1> HIDE DEF w
<1>4. Sound(y) /\ \A t \in Slot : y.u[t].conn = w.u[t].conn
    BY <1>3, EnterSound, NameAssumption
<1> HIDE DEF y
<1>5. Sound(Tables)'
    BY <1>2, <1>4, Becomes
<1>6. \A t \in Slot : users'[t].conn <=> users[t].conn
    BY <1>2, <1>3, <1>4 DEF Become
<1> QED
    BY <1>2, <1>5, <1>6 DEF ChatInv, Bookkeeping, Watched, Working, Selecting, Open, SameConns

LEMMA EndStep ==
    ASSUME ChatInv, NEW s \in Slot, (\E u \in User : Bogus(s, u)) \/ Stray(s) \/ LostConn(s)
    PROVE  ChatInv' /\ Gone(s)
<1>1. Unwatch(s) /\ ((Selecting /\ UNCHANGED burst) \/ burst' = Quiet)
    BY DEF Bogus, Await, Stray, LostConn
<1>2. burst' \in [slot : Slot, left : 0 .. Lines - 1] /\ Working'
    BY <1>1, InvIs, Sizes, SizeAssumption DEF Working, Selecting, Quiet
<1>3. CASE LostConn(s)
    <2> DEFINE w == exit_room(Tables, s)
    <2>1. Here(Tables, s) /\ Become(logout_user(w, s))
        BY <1>3, InvIs, TablesAre DEF LostConn, Watched, Open, Here
    <2>2. Sound(w) /\ w.u[s].room = None /\ \A t \in Slot \ {s} : w.u[t] = users[t]
        <3>1. Sound(w)
            BY <2>1, InvIs, ExitSound
        <3>2. w.u[s].room = None /\ \A t \in Slot \ {s} : w.u[t] = Tables.u[t]
            BY InvIs, ExitIs
        <3> HIDE DEF w
        <3> QED
            BY <3>1, <3>2, TablesAre
    <2> HIDE DEF w
    <2> QED
        BY <1>1, <1>2, <2>1, <2>2, CutKeeps DEF ChatInv, Bookkeeping
<1>4. CASE (\E u \in User : Bogus(s, u)) \/ Stray(s)
    <2>1. ~users[s].conn \/ users[s].room = None
        BY <1>4, InvIs, TablesAre DEF Bogus, Await, Stray, Known
    <2>2. Become(logout_user(Tables, s))
        BY <1>4 DEF Bogus, Stray
    <2>3. Sound(Tables)
        BY InvIs
    <2> QED
        BY <1>1, <1>2, <2>1, <2>2, <2>3, CutKeeps, TablesAre DEF ChatInv, Bookkeeping
<1> QED
    BY <1>3, <1>4

-----------------------------------------------------------------------------
(* The commands. *)
LEMMA JoinStep ==
    ASSUME ChatInv, NEW s \in Slot, chat_join(s)
    PROVE  ChatInv' /\ SameConns
<1>1. PICK n \in Name : Become(enter_room(Tables, s, n))
    BY DEF chat_join
<1>2. InRoom(s) /\ Done(s) /\ UNCHANGED <<num_conns, allfds>>
    BY DEF chat_join
<1> DEFINE y == enter_room(Tables, s, n)
<1>3. Sound(y) /\ \A t \in Slot : y.u[t].conn = users[t].conn
    BY <1>2, InvIs, InRoomIsOpen, EnterSound, TablesAre
<1>4. Become(y)
    BY <1>1
<1> HIDE DEF y
<1>5. Sound(Tables)'
    BY <1>3, <1>4, Becomes
<1> QED
    BY <1>2, <1>3, <1>4, <1>5, CommandKeeps DEF Become, SameConns

LEMMA GoodbyeStep ==
    ASSUME ChatInv, NEW s \in Slot, chat_goodbye(s)
    PROVE  ChatInv' /\ SameConns
<1> DEFINE y == exit_room(Tables, s)
<1>1. InRoom(s) /\ Done(s) /\ UNCHANGED <<num_conns, allfds>> /\ Become(y)
    BY DEF chat_goodbye
<1>2. Sound(y) /\ \A t \in Slot : y.u[t].conn <=> users[t].conn
    <2>1. Sound(Tables) /\ Typed(Tables) /\ Here(Tables, s)
        BY <1>1, InvIs, LineIsHere DEF InRoom
    <2>2. Sound(y)
        BY <2>1, ExitSound
    <2>3. y.u[s].conn = users[s].conn /\ \A t \in Slot \ {s} : y.u[t] = users[t]
        BY <2>1, ExitIs, TablesAre
    <2> QED
        BY <2>2, <2>3
<1> HIDE DEF y
<1>3. Sound(Tables)'
    BY <1>1, <1>2, Becomes
<1> QED
    BY <1>1, <1>2, <1>3, CommandKeeps DEF Become, SameConns

LEMMA EntryStep ==
    ASSUME ChatInv, NEW s \in Slot,
           chat_setroom(s) \/ chat_nick(s) \/ chat_cloak(s) \/ chat_rename(s)
    PROVE  ChatInv' /\ SameConns
<1>1. InRoom(s) /\ Done(s) /\ UNCHANGED <<num_conns, allfds>>
    BY DEF chat_setroom, chat_nick, chat_cloak, chat_rename
<1>2. users[s] \in ChatUser /\ users[s].room \in Room /\ rooms[users[s].room] \in ChatRoom
    BY <1>1, InvIs DEF InRoom, ChatUser
<1>3. CASE chat_setroom(s)
    <2>1. PICK on \in BOOLEAN : rooms' = [rooms EXCEPT ![users[s].room].locked = on]
        BY <1>3 DEF chat_setroom
    <2> DEFINE r == users[s].room
               g == [rooms[r] EXCEPT !.locked = on]
    <2>2. g \in ChatRoom /\ g.occupants = rooms[r].occupants /\ g.name = rooms[r].name
        BY <1>2 DEF ChatRoom
    <2>3. rooms' = [rooms EXCEPT ![r] = g] /\ users' = users
        BY <1>3, <2>1 DEF chat_setroom
    <2> HIDE DEF g
    <2>4. Sound(Tables)'
        BY <1>2, <2>2, <2>3, InvIs, SameRooms
    <2> QED
        BY <1>1, <2>3, <2>4, CommandKeeps DEF SameConns
<1>4. CASE chat_nick(s)
    <2>1. PICK id \in Id : users' = [users EXCEPT ![s].chatid = id]
        BY <1>4 DEF chat_nick
    <2> DEFINE f == [users[s] EXCEPT !.chatid = id]
    <2>2. /\ f \in ChatUser /\ f.conn = users[s].conn /\ f.room = users[s].room
          /\ f.utent = users[s].utent /\ f.perms = users[s].perms
        BY <1>2 DEF ChatUser
    <2>3. users' = [users EXCEPT ![s] = f] /\ rooms' = rooms
        BY <1>4, <2>1 DEF chat_nick
    <2> HIDE DEF f
    <2>4. Sound(Tables)' /\ \A t \in Slot : users'[t].conn <=> users[t].conn
        BY <2>2, <2>3, InvIs, SameRooms
    <2> QED
        BY <1>1, <2>4, CommandKeeps DEF SameConns
<1>5. CASE chat_cloak(s)
    <2> DEFINE f == [users[s] EXCEPT !.cloak = ~users[s].cloak]
    <2>1. /\ f \in ChatUser /\ f.conn = users[s].conn /\ f.room = users[s].room
          /\ f.utent = users[s].utent /\ f.perms = users[s].perms
        BY <1>2 DEF ChatUser
    <2>2. users' = [users EXCEPT ![s] = f] /\ rooms' = rooms
        BY <1>5 DEF chat_cloak
    <2> HIDE DEF f
    <2>3. Sound(Tables)' /\ \A t \in Slot : users'[t].conn <=> users[t].conn
        BY <2>1, <2>2, InvIs, SameRooms
    <2> QED
        BY <1>1, <2>3, CommandKeeps DEF SameConns
<1>6. CASE chat_rename(s)
    <2>1. users' = users /\ rooms' = rooms
        BY <1>6 DEF chat_rename
    <2>2. Sound(Tables)'
        BY <2>1, InvIs, SameRooms
    <2> QED
        BY <1>1, <2>1, <2>2, CommandKeeps DEF SameConns
<1> QED
    BY <1>3, <1>4, <1>5, <1>6

(* A command finds only connections. *)
LEMMA TargetIsOpen ==
    ASSUME NEW s \in Slot, NEW t \in Slot, Target(s, t)
    PROVE  users[t].conn
<1>1. PICK id \in Id \cup {NoId} : chatid_to_indx(s, id) = t
    BY DEF Target
<1> DEFINE S == {i \in Slot : /\ users[i].conn /\ users[i].chatid = id
                              /\ ~users[i].cloak \/ ~Has(s, "cloak")}
<1>2. S \in SUBSET Nat /\ First(S) = t /\ t # None
    BY <1>1, Sizes DEF chatid_to_indx
<1>3. t \in S
    BY <1>2, FirstFits
<1> QED
    BY <1>3

LEMMA MakeopStep ==
    ASSUME ChatInv, NEW s \in Slot, NEW t \in Slot, chat_makeop(s, t)
    PROVE  /\ ChatInv' /\ SameConns /\ rooms' = rooms
           /\ \A v \in Slot \ {s, t} : users'[v] = users[v]
           /\ \A v \in Slot : users'[v].room = users[v].room
           /\ users'[s].perms = users[s].perms \ {"op"}
           /\ users'[t].perms = users[t].perms \cup {"op"}
<1> DEFINE p == users[s].perms \ {"op"}
           o == users[t].perms \cup {"op"}
           f == [users[s] EXCEPT !.perms = p]
           g == [users[t] EXCEPT !.perms = o]
<1>1. InRoom(s) /\ Done(s) /\ UNCHANGED <<num_conns, allfds>> /\ rooms' = rooms /\ s # t
      /\ Target(s, t)
    BY DEF chat_makeop, Target
<1>2. users[s].conn /\ users[t].conn
    BY <1>1, InRoomIsOpen, TargetIsOpen
<1>3. users[s] \in ChatUser /\ users[t] \in ChatUser /\ p \in SUBSET Perms /\ o \in SUBSET Perms
    BY InvIs DEF ChatUser, Perms
<1>4. users' = [[users EXCEPT ![s] = f] EXCEPT ![t] = g]
    <2>1. users' = [users EXCEPT ![s].perms = @ \ {"op"}, ![t].perms = @ \cup {"op"}]
        BY DEF chat_makeop
    <2> QED
        BY <1>1, <2>1, InvIs
<1> HIDE DEF p, o
<1>5. f \in ChatUser /\ f.conn = users[s].conn /\ f.room = users[s].room
      /\ f.utent = users[s].utent /\ f.perms = p
    BY <1>3 DEF ChatUser
<1>6. g \in ChatUser /\ g.conn = users[t].conn /\ g.room = users[t].room
      /\ g.utent = users[t].utent /\ g.perms = o
    BY <1>3 DEF ChatUser
<1> HIDE DEF f, g
<1>7. users' \in [Slot -> ChatUser] /\ users'[s] = f /\ users'[t] = g
      /\ \A v \in Slot \ {s, t} : users'[v] = users[v]
    BY <1>1, <1>4, <1>5, <1>6, InvIs
<1>8. \A v \in Slot : users'[v].conn = users[v].conn /\ users'[v].room = users[v].room
                      /\ users'[v].utent = users[v].utent
    BY <1>5, <1>6, <1>7
<1>9. \A v \in Slot : ~users[v].conn => users'[v].perms = users[v].perms
    BY <1>2, <1>7
<1>10. Sound(Tables)'
    BY <1>1, <1>7, <1>8, <1>9, InvIs, SameRooms
<1>11. ChatInv' /\ SameConns
    BY <1>1, <1>8, <1>10, CommandKeeps DEF SameConns
<1> QED
    BY <1>1, <1>5, <1>6, <1>7, <1>8, <1>11 DEF p, o

LEMMA InviteStep ==
    ASSUME ChatInv, NEW s \in Slot, NEW t \in Slot, chat_invite(s, t)
    PROVE  LET r == users[s].room
           IN  /\ ChatInv' /\ SameConns /\ users' = users /\ r \in Room
               /\ \A q \in Room \ {r} : rooms'[q] = rooms[q]
               /\ rooms'[r].occupants = rooms[r].occupants /\ rooms'[r].name = rooms[r].name
               /\ rooms'[r].locked = rooms[r].locked
               /\ rooms'[r].invites = rooms[r].invites \cup {t}
<1> DEFINE r == users[s].room
           i == rooms[r].invites \cup {t}
           g == [rooms[r] EXCEPT !.invites = i]
<1>1. InRoom(s) /\ Done(s) /\ UNCHANGED <<num_conns, allfds>> /\ users' = users
    BY DEF chat_invite, Target
<1>2. r \in Room /\ rooms[r] \in ChatRoom /\ i \in SUBSET Slot
    BY <1>1, InvIs DEF InRoom, ChatUser, ChatRoom
<1>3. rooms' = [rooms EXCEPT ![r] = g]
    BY DEF chat_invite
<1> HIDE DEF i
<1>4. /\ g \in ChatRoom /\ g.occupants = rooms[r].occupants /\ g.name = rooms[r].name
      /\ g.locked = rooms[r].locked /\ g.invites = i
    BY <1>2 DEF ChatRoom
<1> HIDE DEF g, r
<1>5. Sound(Tables)'
    BY <1>1, <1>2, <1>3, <1>4, InvIs, SameRooms
<1>6. ChatInv' /\ SameConns
    BY <1>1, <1>5, CommandKeeps DEF SameConns
<1>7. rooms'[r] = g /\ \A q \in Room \ {r} : rooms'[q] = rooms[q]
    BY <1>2, <1>3, InvIs
<1> QED
    BY <1>1, <1>2, <1>4, <1>6, <1>7 DEF r, i

LEMMA KickStep ==
    ASSUME ChatInv, NEW s \in Slot, NEW t \in Slot, chat_kick(s, t)
    PROVE  ChatInv' /\ (SameConns \/ Gone(t))
<1> DEFINE x == exit_room(Tables, t)
<1>1. InRoom(s) /\ Done(s) /\ Target(s, t) /\ users[t].room = users[s].room
    BY DEF chat_kick, Target
<1>2. users[t].conn /\ users[t].room # None /\ users[s].conn
    BY <1>1, InRoomIsOpen, TargetIsOpen DEF InRoom
<1>3. /\ Sound(x) /\ x.u[t].room = None /\ x.u[t].conn /\ x.u[t].utent = users[t].utent
      /\ \A v \in Slot \ {t} : x.u[v] = users[v]
    <2>1. Sound(Tables) /\ Typed(Tables) /\ Here(Tables, t)
        BY <1>2, InvIs, TablesAre DEF Here
    <2>2. Sound(x)
        BY <2>1, ExitSound
    <2>3. /\ x.u[t].room = None /\ x.u[t].conn = users[t].conn /\ x.u[t].utent = users[t].utent
          /\ \A v \in Slot \ {t} : x.u[v] = users[v]
        <3>1. /\ x.u[t].room = None /\ x.u[t].conn = Tables.u[t].conn
              /\ x.u[t].utent = Tables.u[t].utent
              /\ \A v \in Slot \ {t} : x.u[v] = Tables.u[v]
            BY <2>1, ExitIs
        <3> HIDE DEF x
        <3> QED
            BY <3>1, TablesAre
    <2> QED
        BY <1>2, <2>2, <2>3
<1>4. burst' \in [slot : Slot, left : 0 .. Lines - 1] /\ (~Selecting' => burst'.slot = s)
    BY <1>1, DoneKeeps DEF InRoom
<1>5. CASE users[s].room = 0
    <2>1. Become(logout_user(x, t)) /\ Unwatch(t)
        BY <1>5 DEF chat_kick
    <2> HIDE DEF x
    <2>2. /\ Sound(Tables)' /\ num_conns' \in Int /\ Watched'
          /\ Gone(t)
        BY <1>3, <2>1, CutKeeps
    <2>3. Here(Tables, s)'
        BY <1>2, <2>2, BlankUser, TablesAre DEF Here, Gone
    <2>4. Working'
        BY <1>4, <2>3, TablesAre DEF Working, Here
    <2> QED
        BY <1>4, <2>2, <2>4 DEF ChatInv, Bookkeeping
<1>6. CASE users[s].room # 0
    <2> DEFINE y == enter_room(x, t, Main)
    <2>1. Become(y) /\ UNCHANGED <<num_conns, allfds>>
        BY <1>6 DEF chat_kick
    <2>2. users[t].utent # NoUser
        BY <1>2, InvIs, TablesAre DEF Known
    <2> HIDE DEF x
    <2>3. Sound(y) /\ \A v \in Slot : y.u[v].conn = x.u[v].conn
        BY <1>3, <2>2, NameAssumption, EnterSound
    <2> HIDE DEF y
    <2>4. Sound(Tables)'
        BY <2>1, <2>3, Becomes
    <2>5. \A v \in Slot : users'[v].conn <=> users[v].conn
        BY <1>2, <1>3, <2>1, <2>3 DEF Become
    <2> QED
        BY <1>1, <2>1, <2>4, <2>5, CommandKeeps DEF SameConns
<1> QED
    BY <1>5, <1>6

LEMMA NextChatInv == ChatInv /\ [Next]_vars => ChatInv'
<1> SUFFICES ASSUME ChatInv, [Next]_vars PROVE ChatInv'
    OBVIOUS
<1>1. CASE Accept
    BY <1>1, AcceptStep
<1>2. ASSUME NEW s \in Slot,
             Login(s) \/ (\E u \in User : Bogus(s, u)) \/ LostConn(s) \/ command_execute(s)
      PROVE  ChatInv'
    BY <1>2, LoginStep, EndStep, JoinStep, GoodbyeStep, EntryStep, KickStep, MakeopStep,
       InviteStep DEF command_execute
<1>3. CASE UNCHANGED vars
    <2>1. Tables' = Tables /\ burst' = burst /\ UNCHANGED <<users, rooms, num_conns, allfds>>
        BY <1>3 DEF vars, Tables
    <2> QED
        BY <2>1 DEF ChatInv, Sound, Typed, Counted, In, Known, Distinct, Live, Bookkeeping,
                    Watched, Working, Open, Selecting, Here
<1> QED
    BY <1>1, <1>2, <1>3 DEF Next

\* The type invariant of the chat server: room numbers stay in the table or
\* are -1, the read at hand never has more lines than were read.
THEOREM TypesHold == Spec => []TypeOK
<1>1. ChatInv => TypeOK
    BY InvIs, Sizes DEF TypeOK, Watched, Open
<1> QED
    BY <1>1, InitChatInv, NextChatInv, PTL DEF Spec

\* The counter of a room (exit_room, enter_room) is the number of its members,
\* whatever the sizes of the tables and however many lines one read carries.
THEOREM OccupancyHolds == Spec => []Occupancy
<1>1. ChatInv => Occupancy
    <2>1. \A r \in Room : Members(r) = In(Tables, r)
        BY TablesAre DEF Members, In
    <2> QED
        BY <2>1, InvIs, TablesAre DEF Counted, Occupancy
<1> QED
    BY <1>1, InitChatInv, NextChatInv, PTL DEF Spec

(***************************************************************************)
(* Connections.  When a read is one line, every line comes from a socket   *)
(* that is watched, so that nothing is logged out that is closed already.  *)
(***************************************************************************)
ConnInv == Selecting /\ allfds = Open /\ num_conns = Cardinality(Open)

LEMMA GoneCounts ==
    ASSUME ConnInv, NEW s \in Slot, s \in allfds, Gone(s)
    PROVE  allfds' = Open' /\ num_conns' = Cardinality(Open)'
<1>1. users[s].conn /\ IsFiniteSet(Open)
    BY Sizes, FS_Subset DEF ConnInv, Open
<1>2. Open' = Open \ {s} /\ s \in Open
    BY <1>1, BlankUser DEF Open, Gone
<1>3. Cardinality(Open \ {s}) = Cardinality(Open) - 1
    BY <1>1, <1>2, FS_RemoveElement
<1> QED
    BY <1>1, <1>2, <1>3 DEF ConnInv, Gone, Unwatch

LEMMA NextConnInv ==
    ASSUME Lines = 1, ChatInv, ConnInv, [Next]_vars
    PROVE  ConnInv'
<1>1. Selecting'
    BY NextChatInv, InvIs DEF ChatInv, Bookkeeping, Selecting
<1>2. CASE Accept
    <2>1. PICK t \in Slot : /\ ~users[t].conn /\ users'[t].conn
                            /\ num_conns' = num_conns + 1 /\ allfds' = allfds \cup {t}
                            /\ \A v \in Slot \ {t} : users'[v] = users[v]
        BY <1>2, AcceptStep
    <2>2. Open' = Open \cup {t} /\ t \notin Open
        BY <2>1 DEF Open
    <2>3. IsFiniteSet(Open)
        BY Sizes, FS_Subset DEF Open
    <2>4. Cardinality(Open \cup {t}) = Cardinality(Open) + 1
        BY <2>2, <2>3, FS_AddElement
    <2> QED
        BY <1>1, <2>1, <2>2, <2>4 DEF ConnInv
<1>3. CASE SameConns
    BY <1>1, <1>3 DEF ConnInv, SameConns, Open
<1>4. ASSUME NEW s \in Slot, (\E u \in User : Bogus(s, u)) \/ Stray(s) \/ LostConn(s)
      PROVE  ConnInv'
    <2>1. s \in allfds
        BY <1>4 DEF ConnInv, Bogus, Await, Stray, LostConn, Line
    <2> QED
        BY <1>1, <1>4, <2>1, EndStep, GoneCounts DEF ConnInv
<1>5. ASSUME NEW s \in Slot, NEW t \in Slot, chat_kick(s, t)
      PROVE  ConnInv'
    <2>1. t \in allfds
        BY <1>5, TargetIsOpen DEF chat_kick, ConnInv, Open
    <2> QED
        BY <1>1, <1>3, <1>5, <2>1, KickStep, GoneCounts DEF ConnInv
<1>6. ASSUME NEW s \in Slot, Login(s) \/ command_execute(s)
      PROVE  ConnInv'
    BY <1>3, <1>4, <1>5, <1>6, LoginStep, JoinStep, GoodbyeStep, EntryStep, MakeopStep,
       InviteStep DEF command_execute
<1>7. CASE UNCHANGED vars
    BY <1>1, <1>7 DEF vars, ConnInv, Open
<1> QED
    BY <1>2, <1>4, <1>6, <1>7 DEF Next

\* When every read is one line, num_conns and the sockets select watches are
\* those of the open slots (station.c:113): the slots may be any number.
THEOREM ConnectionsCountedHolds ==
    ASSUME Lines = 1
    PROVE  Spec => []ConnectionsCounted
<1>1. Init => ConnInv
    <2> SUFFICES ASSUME Init PROVE ConnInv
        OBVIOUS
    <2>1. Open = {}
        BY DEF Init, Open, Blank
    <2> QED
        BY <2>1, FS_EmptySet DEF Init, ConnInv, Selecting, Quiet
<1>2. ConnInv => ConnectionsCounted
    BY DEF ConnInv, ConnectionsCounted, Open
<1>3. ChatInv /\ ConnInv /\ [Next]_vars => ConnInv'
    BY NextConnInv
<1> QED
    BY <1>1, <1>2, <1>3, InitChatInv, NextChatInv, PTL DEF Spec

-----------------------------------------------------------------------------
(***************************************************************************)
(* What clients can tell of the tables: a live room is seen under its name *)
(* and only there, and a name that no live room has is nobody's room.      *)
(***************************************************************************)
Nowhere(w, n) == \A r \in Room : Live(w, r) => w.r[r].name # n

LEMMA LiveIs ==
    ASSUME NEW w, Sound(w), NEW r \in Room
    PROVE  /\ Live(w, r) <=> r = 0 \/ In(w, r) # {}
           /\ Live(w, r) <=> r = 0 \/ w.r[r].occupants > 0
<1>1. w.r[r].occupants = Cardinality(In(w, r)) /\ IsFiniteSet(In(w, r))
    BY InFinite DEF Sound, Counted
<1>2. Cardinality(In(w, r)) \in Nat /\ (Cardinality(In(w, r)) = 0 <=> In(w, r) = {})
    BY <1>1, FS_CardinalityType, FS_EmptySet
<1> QED
    BY <1>1, <1>2 DEF Live

LEMMA MemberIsIn ==
    ASSUME NEW w, Sound(w), NEW s \in Slot, w.u[s].conn, w.u[s].room # None
    PROVE  w.u[s].room \in Room /\ s \in In(w, w.u[s].room) /\ Live(w, w.u[s].room)
<1>1. w.u[s].room \in Room /\ s \in In(w, w.u[s].room)
    BY DEF Sound, Typed, ChatUser, In
<1> QED
    BY <1>1, LiveIs

LEMMA RoomView ==
    ASSUME NEW w, Sound(w), NEW r \in Room, Live(w, r)
    PROVE  LET n == w.r[r].name
           IN  /\ n \in Name /\ (n = Main <=> r = 0)
               /\ n \in Locked(w) <=> w.r[r].locked
               /\ Asked(w)[n] = w.r[r].invites
               /\ \A s \in Slot : Where(w)[s] = n <=> s \in In(w, r)
               /\ {s \in Slot : Where(w)[s] = n} = In(w, r)
<1> DEFINE n == w.r[r].name
<1>1. /\ n \in Name /\ Live(w, 0) /\ w.r[0].name = Main
      /\ \A q \in Room : Live(w, q) /\ w.r[q].name = n => q = r
    BY DEF Sound, Distinct, Live
<1>2. n = Main <=> r = 0
    BY <1>1, Sizes
<1>3. n \in Locked(w) <=> w.r[r].locked
    BY <1>1, LiveIs DEF Locked
<1>4. Asked(w)[n] = w.r[r].invites
    <2>1. roomid_to_indx(w.r, n) = r
        BY <1>1, RoomidFits DEF Live
    <2> QED
        BY <1>1, <2>1, Sizes DEF Asked
<1>5. ASSUME NEW s \in Slot PROVE Where(w)[s] = n <=> s \in In(w, r)
    <2>1. Where(w)[s] = n => w.u[s].conn /\ w.u[s].room # None /\ w.r[w.u[s].room].name = n
        BY <1>1, NameAssumption DEF Where
    <2>2. s \in In(w, r) => Where(w)[s] = n
        BY Sizes DEF Where, In
    <2> QED
        BY <1>1, <2>1, <2>2, MemberIsIn
<1>6. {s \in Slot : Where(w)[s] = n} = In(w, r)
    BY <1>5 DEF In
<1> QED
    BY <1>1, <1>2, <1>3, <1>4, <1>5, <1>6

LEMMA NoRoomView ==
    ASSUME NEW w, Sound(w), NEW n \in Name, Nowhere(w, n)
    PROVE  /\ n \notin Locked(w) /\ Asked(w)[n] = {} /\ n # Main
           /\ \A s \in Slot : Where(w)[s] # n
<1>1. n \notin Locked(w)
    BY LiveIs DEF Nowhere, Locked
<1>2. Asked(w)[n] = {}
    <2>1. roomid_to_indx(w.r, n) = None
        BY RoomidFits DEF Live, Nowhere
    <2> QED
        BY <2>1 DEF Asked
<1>3. n # Main
    BY Sizes DEF Sound, Distinct, Nowhere, Live
<1>4. ASSUME NEW s \in Slot PROVE Where(w)[s] # n
    BY MemberIsIn, NameAssumption DEF Where, Nowhere
<1> QED
    BY <1>1, <1>2, <1>3, <1>4

LEMMA LockedNames ==
    ASSUME NEW w, Sound(w)
    PROVE  Locked(w) \subseteq Name
BY LiveIs DEF Locked, Sound, Distinct

(***************************************************************************)
(* s goes to the room named n, or out of the rooms: the room it leaves may *)
(* vanish, the one it enters may be new, the others keep what they were.   *)
(***************************************************************************)
Vanishing(w, s, n) == {m \in Name \ {Main, n} : {c \in Slot : Where(w)[c] = m} = {s}}

Goes(w, y, s, n) ==
    /\ Where(y) = [Where(w) EXCEPT ![s] = n]
    /\ Locked(y) = Locked(w) \ Vanishing(w, s, n)
    /\ Asked(y) = [m \in Name |-> IF m \in Vanishing(w, s, n) THEN {}
                                  ELSE IF m = n THEN Asked(w)[m] \ {s} ELSE Asked(w)[m]]

Emptied(w, r, s, n) == r # 0 /\ In(w, r) = {s} /\ w.r[r].name # n

LEMMA VanishingIs ==
    ASSUME NEW w, Sound(w), NEW s \in Slot, NEW n
    PROVE  /\ \A r \in Room : Live(w, r) =>
                  (w.r[r].name \in Vanishing(w, s, n) <=> Emptied(w, r, s, n))
           /\ \A m \in Name : Nowhere(w, m) => m \notin Vanishing(w, s, n)
<1>1. ASSUME NEW r \in Room, Live(w, r)
      PROVE  w.r[r].name \in Vanishing(w, s, n) <=> Emptied(w, r, s, n)
    BY <1>1, RoomView DEF Vanishing, Emptied
<1>2. ASSUME NEW m \in Name, Nowhere(w, m) PROVE m \notin Vanishing(w, s, n)
    <2>1. {c \in Slot : Where(w)[c] = m} = {}
        BY <1>2, NoRoomView
    <2> QED
        BY <2>1 DEF Vanishing
<1> QED
    BY <1>1, <1>2

LEMMA GoesWhen ==
    ASSUME NEW w, Sound(w), NEW y, Sound(y), NEW s \in Slot, NEW n \in Name \cup {NoName},
           Where(y) = [Where(w) EXCEPT ![s] = n],
           \A r \in Room : Live(w, r) /\ ~Emptied(w, r, s, n) =>
               /\ Live(y, r) /\ y.r[r].name = w.r[r].name /\ y.r[r].locked = w.r[r].locked
               /\ y.r[r].invites = IF w.r[r].name = n THEN w.r[r].invites \ {s}
                                   ELSE w.r[r].invites,
           \A r \in Room : Live(y, r) =>
               \/ Live(w, r) /\ ~Emptied(w, r, s, n)
               \/ /\ y.r[r].name = n /\ Nowhere(w, n)
                  /\ ~y.r[r].locked /\ y.r[r].invites = {}
    PROVE  Goes(w, y, s, n)
<1> DEFINE V == Vanishing(w, s, n)
           A == [m \in Name |-> IF m \in V THEN {}
                                ELSE IF m = n THEN Asked(w)[m] \ {s} ELSE Asked(w)[m]]
<1>1. ASSUME NEW m \in Name
      PROVE  /\ m \in Locked(y) <=> m \in Locked(w) \ V
             /\ Asked(y)[m] = A[m]
    <2>1. CASE \E r \in Room : Live(w, r) /\ w.r[r].name = m /\ ~Emptied(w, r, s, n)
        <3>1. PICK r \in Room : Live(w, r) /\ w.r[r].name = m /\ ~Emptied(w, r, s, n)
            BY <2>1
        <3>2. m \notin V
            BY <3>1, VanishingIs
        <3>3. /\ Live(y, r) /\ y.r[r].name = m /\ y.r[r].locked = w.r[r].locked
              /\ y.r[r].invites = IF m = n THEN w.r[r].invites \ {s} ELSE w.r[r].invites
            BY <3>1
        <3>4. /\ m \in Locked(w) <=> w.r[r].locked
              /\ Asked(w)[m] = w.r[r].invites
            BY <3>1, RoomView
        <3>5. /\ m \in Locked(y) <=> y.r[r].locked
              /\ Asked(y)[m] = y.r[r].invites
            BY <3>3, RoomView
        <3> QED
            BY <3>2, <3>3, <3>4, <3>5
    <2>2. CASE \E r \in Room : Live(w, r) /\ w.r[r].name = m /\ Emptied(w, r, s, n)
        <3>1. PICK r \in Room : Live(w, r) /\ w.r[r].name = m /\ Emptied(w, r, s, n)
            BY <2>2
        <3>2. m \in V /\ m # n
            BY <3>1, VanishingIs DEF Emptied
        <3>3. \A q \in Room : Live(w, q) /\ w.r[q].name = m => q = r
            BY <3>1 DEF Sound, Distinct
        <3>4. Nowhere(y, m)
            BY <3>1, <3>2, <3>3 DEF Nowhere
        <3>5. m \notin Locked(y) /\ Asked(y)[m] = {}
            BY <3>4, NoRoomView
        <3> QED
            BY <3>2, <3>5
    <2>3. CASE Nowhere(w, m)
        <3>1. m \notin V /\ m \notin Locked(w) /\ Asked(w)[m] = {}
            BY <2>3, VanishingIs, NoRoomView
        <3>2. A[m] = {}
            BY <3>1
        <3>3. CASE Nowhere(y, m)
            BY <3>1, <3>2, <3>3, NoRoomView
        <3>4. CASE ~Nowhere(y, m)
            <4>1. PICK r \in Room : Live(y, r) /\ y.r[r].name = m
                BY <3>4 DEF Nowhere
            <4>2. ~y.r[r].locked /\ y.r[r].invites = {}
                BY <2>3, <4>1 DEF Nowhere
            <4> QED
                BY <3>1, <3>2, <4>1, <4>2, RoomView
        <3> QED
            BY <3>3, <3>4
    <2> QED
        BY <2>1, <2>2, <2>3 DEF Nowhere
<1>2. Locked(y) = Locked(w) \ V
    BY <1>1, LockedNames
<1>3. Asked(y) = A
    BY <1>1 DEF Asked
<1> QED
    BY <1>2, <1>3 DEF Goes

LEMMA ExitView ==
    ASSUME NEW w, Sound(w), NEW s \in Slot, Here(w, s)
    PROVE  LET x == exit_room(w, s)
           IN  Goes(w, x, s, NoName) /\ Ops(x) = Ops(w) \ {s} /\ Boss(x) = Boss(w)
<1> DEFINE x == exit_room(w, s)
           r == w.u[s].room
<1>1. /\ Typed(w) /\ Sound(x) /\ \A t \in Slot \ {s} : x.u[t] = w.u[t]
      /\ x.u[s].room = None /\ x.u[s].perms = w.u[s].perms \ {"op"}
      /\ x.u[s].conn = w.u[s].conn
      /\ \A q \in Room \ {r} : x.r[q] = w.r[q]
      /\ r # None => /\ x.r[r].name = w.r[r].name /\ x.r[r].locked = w.r[r].locked
                     /\ x.r[r].invites = w.r[r].invites
    BY ExitSound, ExitIs DEF Sound
<1> HIDE DEF x
<1>2. \A q \in Room : /\ x.r[q].name = w.r[q].name /\ x.r[q].locked = w.r[q].locked
                      /\ x.r[q].invites = w.r[q].invites
    BY <1>1, Sizes
<1>3. ASSUME NEW q \in Room PROVE In(x, q) = In(w, q) \ {s}
    <2>1. \A t \in Slot : x.u[t].conn /\ x.u[t].room = q <=> t # s /\ w.u[t].conn /\ w.u[t].room = q
        BY <1>1, Sizes
    <2> QED
        BY <2>1 DEF In
<1> HIDE DEF r
<1>4. \A q \in Room : Live(w, q) => w.r[q].name # NoName
    BY NameAssumption DEF Sound, Distinct
<1>5. \A q \in Room : Live(x, q) <=> Live(w, q) /\ ~Emptied(w, q, s, NoName)
    <2> SUFFICES ASSUME NEW q \in Room
                 PROVE  Live(x, q) <=> Live(w, q) /\ ~Emptied(w, q, s, NoName)
        OBVIOUS
    <2>1. (Live(x, q) <=> q = 0 \/ In(w, q) \ {s} # {}) /\ (Live(w, q) <=> q = 0 \/ In(w, q) # {})
        BY <1>1, <1>3, LiveIs
    <2> QED
        BY <1>4, <2>1 DEF Emptied
<1>6. Where(x) = [Where(w) EXCEPT ![s] = NoName]
    <2>1. \A t \in Slot \ {s} : Where(x)[t] = Where(w)[t]
        <3> SUFFICES ASSUME NEW t \in Slot \ {s} PROVE Where(x)[t] = Where(w)[t]
            OBVIOUS
        <3>1. x.u[t] = w.u[t] /\ (x.u[t].room = None \/ x.u[t].room \in Room)
            BY <1>1 DEF Typed, ChatUser
        <3> QED
            BY <1>2, <3>1 DEF Where
    <2>2. Where(x)[s] = NoName
        BY <1>1 DEF Where
    <2> QED
        BY <2>1, <2>2 DEF Where
<1>7. Goes(w, x, s, NoName)
    BY <1>1, <1>2, <1>4, <1>5, <1>6, GoesWhen
<1>8. Ops(x) = Ops(w) \ {s}
    BY <1>1 DEF Ops
<1>9. Boss(x) = Boss(w)
    BY <1>1 DEF Boss
<1> QED
    BY <1>7, <1>8, <1>9 DEF x

LEMMA EnteredView ==
    ASSUME NEW w, Sound(w), NEW s \in Slot, w.u[s].conn, w.u[s].utent # NoUser,
           NEW q \in Room, Free(w, q),
           Live(w, q) \/ (~w.r[q].locked /\ w.r[q].invites = {}),
           NEW y, Entered(w, s, q, y)
    PROVE  /\ Goes(w, y, s, w.r[q].name) /\ Boss(y) = Boss(w)
           /\ "op" \in y.u[s].perms => Ops(y) = Ops(w) \cup {s}
           /\ "op" \notin y.u[s].perms => Ops(y) = Ops(w) \ {s}
<1> DEFINE x == exit_room(w, s)
           r == w.u[s].room
           n == w.r[q].name
<1>1. /\ Typed(w) /\ Typed(x)
      /\ \A p \in Room \ {r} : x.r[p] = w.r[p]
      /\ r # None => /\ x.r[r].name = w.r[r].name /\ x.r[r].locked = w.r[r].locked
                     /\ x.r[r].invites = w.r[r].invites
    BY ExitIs DEF Sound
<1>2. /\ Sound(y) /\ \A t \in Slot \ {s} : y.u[t] = w.u[t]
      /\ y.u[s].room = q /\ y.u[s].conn = w.u[s].conn
      /\ y.u[s].perms \ {"op"} = w.u[s].perms \ {"op"}
      /\ \A p \in Room \ {q} : y.r[p] = x.r[p]
      /\ y.r[q].name = x.r[q].name /\ y.r[q].locked = x.r[q].locked
      /\ y.r[q].invites = x.r[q].invites \ {s}
    <2>1. Sound(y)
        BY EnteredSound DEF Sound
    <2> QED
        BY <2>1 DEF Entered
<1>x. \A p \in Room : /\ x.r[p].name = w.r[p].name /\ x.r[p].locked = w.r[p].locked
                      /\ x.r[p].invites = w.r[p].invites
    <2> HIDE DEF x, r
    <2> QED
        BY <1>1, Sizes
<1> HIDE DEF x
<1>3. \A p \in Room : /\ y.r[p].name = w.r[p].name /\ y.r[p].locked = w.r[p].locked
                      /\ y.r[p].invites = IF p = q THEN w.r[p].invites \ {s} ELSE w.r[p].invites
    <2>1. \A p \in Room \ {q} : /\ y.r[p].name = w.r[p].name /\ y.r[p].locked = w.r[p].locked
                                 /\ y.r[p].invites = w.r[p].invites
        BY <1>x, <1>2
    <2>2. /\ y.r[q].name = w.r[q].name /\ y.r[q].locked = w.r[q].locked
          /\ y.r[q].invites = w.r[q].invites \ {s}
        BY <1>x, <1>2
    <2> QED
        BY <2>1, <2>2
<1>4. \A p \in Room \ {q} : In(y, p) = In(w, p) \ {s}
    <2> SUFFICES ASSUME NEW p \in Room \ {q} PROVE In(y, p) = In(w, p) \ {s}
        OBVIOUS
    <2>1. \A t \in Slot : y.u[t].conn /\ y.u[t].room = p <=> t # s /\ w.u[t].conn /\ w.u[t].room = p
        BY <1>2
    <2> QED
        BY <2>1 DEF In
<1>5. s \in In(y, q)
    BY <1>2 DEF In
<1>6. n \in Name /\ \A p \in Room \ {q} : Live(w, p) => w.r[p].name # n
    BY DEF Free
<1>7. Live(y, q)
    BY <1>2, <1>5, LiveIs
<1>8. \A p \in Room \ {q} : Live(y, p) <=> Live(w, p) /\ ~Emptied(w, p, s, n)
    <2> SUFFICES ASSUME NEW p \in Room \ {q}
                 PROVE  Live(y, p) <=> Live(w, p) /\ ~Emptied(w, p, s, n)
        OBVIOUS
    <2>1. (Live(y, p) <=> p = 0 \/ In(w, p) \ {s} # {}) /\ (Live(w, p) <=> p = 0 \/ In(w, p) # {})
        BY <1>2, <1>4, LiveIs
    <2> QED
        BY <1>6, <2>1 DEF Emptied
<1>9. Where(y) = [Where(w) EXCEPT ![s] = n]
    <2>1. \A t \in Slot \ {s} : Where(y)[t] = Where(w)[t]
        <3> SUFFICES ASSUME NEW t \in Slot \ {s} PROVE Where(y)[t] = Where(w)[t]
            OBVIOUS
        <3>1. y.u[t] = w.u[t] /\ (y.u[t].room = None \/ y.u[t].room \in Room)
            BY <1>1, <1>2 DEF Typed, ChatUser
        <3> QED
            BY <1>3, <3>1 DEF Where
    <2>2. Where(y)[s] = n
        BY <1>2, <1>3, Sizes DEF Where
    <2> QED
        BY <2>1, <2>2 DEF Where
<1>10. ~Emptied(w, q, s, n)
    BY DEF Emptied
<1>11. \A p \in Room : Live(w, p) /\ ~Emptied(w, p, s, n) =>
            /\ Live(y, p) /\ y.r[p].name = w.r[p].name /\ y.r[p].locked = w.r[p].locked
            /\ y.r[p].invites = IF w.r[p].name = n THEN w.r[p].invites \ {s} ELSE w.r[p].invites
    BY <1>3, <1>6, <1>7, <1>8
<1>12. \A p \in Room : Live(y, p) =>
            \/ Live(w, p) /\ ~Emptied(w, p, s, n)
            \/ y.r[p].name = n /\ Nowhere(w, n) /\ ~y.r[p].locked /\ y.r[p].invites = {}
    <2> SUFFICES ASSUME ~Live(w, q)
                 PROVE y.r[q].name = n /\ Nowhere(w, n) /\ ~y.r[q].locked /\ y.r[q].invites = {}
        BY <1>8, <1>10
    <2> QED
        BY <1>3, <1>6 DEF Nowhere
<1> HIDE DEF n
<1>13. Goes(w, y, s, n)
    <2>1. Sound(y) /\ n \in Name \cup {NoName}
        BY <1>2, <1>6
    <2> QED
        BY <1>9, <1>11, <1>12, <2>1, GoesWhen
<1>14. Boss(y) = Boss(w)
    <2>1. \A t \in Slot : "sysop" \in y.u[t].perms <=> "sysop" \in w.u[t].perms
        BY <1>2
    <2> QED
        BY <2>1 DEF Boss
<1>15. \A t \in Slot \ {s} : t \in Ops(y) <=> t \in Ops(w)
    BY <1>2 DEF Ops
<1>16. s \in Ops(y) <=> "op" \in y.u[s].perms
    BY <1>2, Sizes DEF Ops
<1>17. Ops(y) \subseteq Slot /\ Ops(w) \subseteq Slot
    BY DEF Ops
<1> QED
    BY <1>13, <1>14, <1>15, <1>16, <1>17 DEF n

(* A room that is opened is nobody's until somebody enters it. *)
LEMMA OpenedView ==
    ASSUME NEW w, Sound(w), NEW q \in Room \ {0}, w.r[q].occupants = 0, NEW n \in Name,
           roomid_to_indx(w.r, n) = None
    PROVE  LET v == Opened(w, q, n)
           IN  /\ Where(v) = Where(w) /\ Locked(v) = Locked(w) /\ Asked(v) = Asked(w)
               /\ Ops(v) = Ops(w) /\ Boss(v) = Boss(w) /\ Nowhere(w, n)
<1> DEFINE v == Opened(w, q, n)
<1>1. /\ Sound(v) /\ v.u = w.u /\ v.r[q] = Fresh(n)
      /\ \A p \in Room \ {q} : v.r[p] = w.r[p]
    BY OpenedIs, OpenedSound DEF Sound
<1> HIDE DEF v
<1>2. ~Live(v, q) /\ ~Live(w, q)
    BY <1>1, FreshRoom DEF Live
<1>3. \A p \in Room : /\ Live(v, p) <=> Live(w, p)
                      /\ Live(w, p) => v.r[p] = w.r[p]
    BY <1>1, <1>2 DEF Live
<1>4. ASSUME NEW m \in Name
      PROVE  /\ m \in Locked(v) <=> m \in Locked(w)
             /\ Asked(v)[m] = Asked(w)[m]
    <2>1. CASE \E r \in Room : Live(w, r) /\ w.r[r].name = m
        BY <1>1, <1>3, <2>1, RoomView
    <2>2. CASE Nowhere(w, m)
        <3>1. Nowhere(v, m)
            BY <1>3, <2>2 DEF Nowhere
        <3> QED
            BY <1>1, <2>2, <3>1, NoRoomView
    <2> QED
        BY <2>1, <2>2 DEF Nowhere
<1>5. Locked(v) = Locked(w)
    BY <1>1, <1>4, LockedNames
<1>6. Asked(v) = Asked(w)
    BY <1>4 DEF Asked
<1>7. Where(v) = Where(w)
    <2> SUFFICES ASSUME NEW s \in Slot PROVE Where(v)[s] = Where(w)[s]
        BY DEF Where
    <2> QED
        BY <1>1, <1>3, MemberIsIn DEF Where
<1>8. Ops(v) = Ops(w) /\ Boss(v) = Boss(w)
    BY <1>1 DEF Ops, Boss
<1>9. Nowhere(w, n)
    BY RoomidFits, Sizes DEF Nowhere, Live
<1> QED
    BY <1>5, <1>6, <1>7, <1>8, <1>9 DEF v

\* A room that is not locked admits everybody.
Admits(w, s, n) == n \in Locked(w) => s \in Asked(w)[n] \cup Boss(w)

\* Whoever enters a room that is new is its operator, and of no other room.
Rights(w, s, n) ==
    IF n # Main /\ {c \in Slot : Where(w)[c] = n} = {}
    THEN Ops(w) \cup {s} ELSE Ops(w) \ {s}

LEMMA EnterView ==
    ASSUME NEW w, Sound(w), NEW s \in Slot, w.u[s].conn, w.u[s].utent # NoUser, NEW n \in Name
    PROVE  LET y == enter_room(w, s, n)
           IN  \/ y = w
               \/ /\ Goes(w, y, s, n) /\ Admits(w, s, n) /\ Boss(y) = Boss(w)
                  /\ Ops(y) = Rights(w, s, n)
<1> DEFINE y == enter_room(w, s, n)
           Nobody == {c \in Slot : Where(w)[c] = n} = {}
<1>1. CASE \E q \in Room : /\ q = roomid_to_indx(w.r, n) /\ Lets(w, s, q)
                           /\ Entered(w, s, q, y)
                           /\ y.u[s].perms = w.u[s].perms \ {"op"}
    <2>1. PICK q \in Room : /\ q = roomid_to_indx(w.r, n) /\ Lets(w, s, q)
                            /\ Entered(w, s, q, y)
                            /\ y.u[s].perms = w.u[s].perms \ {"op"}
        BY <1>1
    <2> HIDE DEF y
    <2>2. Live(w, q) /\ w.r[q].name = n
        BY <2>1, RoomidFits, Sizes DEF Live
    <2>3. Free(w, q)
        BY <2>2 DEF Sound, Distinct, Free
    <2>4. Goes(w, y, s, n) /\ Boss(y) = Boss(w) /\ Ops(y) = Ops(w) \ {s}
        BY <2>1, <2>2, <2>3, EnteredView
    <2>5. (n \in Locked(w) <=> w.r[q].locked) /\ Asked(w)[n] = w.r[q].invites
          /\ (n = Main <=> q = 0) /\ {c \in Slot : Where(w)[c] = n} = In(w, q)
        BY <2>2, RoomView
    <2>6. n = Main \/ ~Nobody
        BY <2>2, <2>5, LiveIs
    <2>7. Admits(w, s, n)
        BY <2>1, <2>5 DEF Admits, Lets, Boss
    <2> QED
        BY <2>4, <2>6, <2>7 DEF y, Rights
<1>2. CASE \E q \in Room \ {0} : /\ roomid_to_indx(w.r, n) = None /\ w.r[q].occupants = 0
                                 /\ Entered(Opened(w, q, n), s, q, y)
                                 /\ y.u[s].perms = w.u[s].perms \cup {"op"}
    <2>1. PICK q \in Room \ {0} : /\ roomid_to_indx(w.r, n) = None /\ w.r[q].occupants = 0
                                  /\ Entered(Opened(w, q, n), s, q, y)
                                  /\ y.u[s].perms = w.u[s].perms \cup {"op"}
        BY <1>2
    <2> DEFINE v == Opened(w, q, n)
    <2>2. /\ v.u = w.u /\ v.r[q] = Fresh(n) /\ Sound(v) /\ Free(v, q)
          /\ Where(v) = Where(w) /\ Locked(v) = Locked(w) /\ Asked(v) = Asked(w)
          /\ Ops(v) = Ops(w) /\ Boss(v) = Boss(w) /\ Nowhere(w, n)
        BY <2>1, OpenedIs, OpenedSound, OpenedView DEF Sound
    <2> HIDE DEF y, v
    <2>3. Entered(v, s, q, y)
        BY <2>1 DEF v
    <2>4. v.r[q].name = n /\ ~v.r[q].locked /\ v.r[q].invites = {} /\ "op" \in y.u[s].perms
        BY <2>1, <2>2, FreshRoom
    <2>5. Goes(v, y, s, n) /\ Boss(y) = Boss(v) /\ Ops(y) = Ops(v) \cup {s}
        BY <2>2, <2>3, <2>4, EnteredView
    <2>6. Goes(w, y, s, n)
        BY <2>2, <2>5 DEF Goes, Vanishing
    <2>7. n # Main /\ Nobody /\ n \notin Locked(w)
        BY <2>2, NoRoomView
    <2> QED
        BY <2>2, <2>5, <2>6, <2>7 DEF y, Admits, Rights
<1>3. Typed(w)
    BY DEF Sound
<1> QED
    BY <1>1, <1>2, <1>3, EnterIs

(* The end of a connection, of somebody out of the rooms and in them. *)
Ends(w, y, s) ==
    /\ Where(y) = [Where(w) EXCEPT ![s] = NoName]
    /\ Locked(y) = Locked(w) \ Vanishing(w, s, NoName)
    /\ Asked(y) = [m \in Name |-> IF m \in Vanishing(w, s, NoName) THEN {}
                                  ELSE Asked(w)[m] \ {s}]
    /\ Ops(y) = Ops(w) \ {s} /\ Boss(y) = Boss(w) \ {s}

LEMMA LogoutView ==
    ASSUME NEW w, Sound(w), NEW s \in Slot, ~w.u[s].conn \/ w.u[s].room = None
    PROVE  LET y == logout_user(w, s)
           IN  /\ Where(y) = Where(w) /\ Where(w)[s] = NoName /\ Locked(y) = Locked(w)
               /\ Asked(y) = [m \in Name |-> Asked(w)[m] \ {s}]
               /\ Ops(y) = Ops(w) \ {s} /\ Boss(y) = Boss(w) \ {s}
<1> DEFINE y == logout_user(w, s)
<1>1. /\ Typed(w) /\ Sound(y) /\ y.u[s] = Blank /\ \A t \in Slot \ {s} : y.u[t] = w.u[t]
      /\ \A r \in Room : /\ y.r[r].occupants = w.r[r].occupants
                         /\ y.r[r].name = w.r[r].name
                         /\ y.r[r].locked = w.r[r].locked
                         /\ y.r[r].invites = w.r[r].invites \ {s}
    BY LogoutIs, LogoutSound DEF Sound
<1> HIDE DEF y
<1>2. Where(w)[s] = NoName
    BY DEF Where
<1>3. Where(y) = Where(w)
    <2>1. \A t \in Slot \ {s} : Where(y)[t] = Where(w)[t]
        <3> SUFFICES ASSUME NEW t \in Slot \ {s} PROVE Where(y)[t] = Where(w)[t]
            OBVIOUS
        <3>1. y.u[t] = w.u[t] /\ (y.u[t].room = None \/ y.u[t].room \in Room)
            BY <1>1 DEF Typed, ChatUser
        <3> QED
            BY <1>1, <3>1 DEF Where
    <2>2. Where(y)[s] = NoName
        BY <1>1, BlankUser DEF Where
    <2> QED
        BY <1>2, <2>1, <2>2 DEF Where
<1>4. \A r \in Room : Live(y, r) <=> Live(w, r)
    BY <1>1 DEF Live
<1>5. ASSUME NEW m \in Name
      PROVE  (m \in Locked(y) <=> m \in Locked(w)) /\ Asked(y)[m] = Asked(w)[m] \ {s}
    <2>1. CASE \E r \in Room : Live(w, r) /\ w.r[r].name = m
        <3>1. PICK r \in Room : Live(w, r) /\ w.r[r].name = m
            BY <2>1
        <3>2. (m \in Locked(w) <=> w.r[r].locked) /\ Asked(w)[m] = w.r[r].invites
            BY <3>1, RoomView
        <3>3. (m \in Locked(y) <=> y.r[r].locked) /\ Asked(y)[m] = y.r[r].invites
            BY <1>1, <1>4, <3>1, RoomView
        <3> QED
            BY <1>1, <3>2, <3>3
    <2>2. CASE Nowhere(w, m)
        <3>1. Nowhere(y, m)
            BY <1>1, <1>4, <2>2 DEF Nowhere
        <3> QED
            BY <1>1, <2>2, <3>1, NoRoomView
    <2> QED
        BY <2>1, <2>2 DEF Nowhere
<1>6. Locked(y) = Locked(w)
    BY <1>1, <1>5, LockedNames
<1>7. Asked(y) = [m \in Name |-> Asked(w)[m] \ {s}]
    BY <1>5 DEF Asked
<1>8. Ops(y) = Ops(w) \ {s}
    BY <1>1, BlankUser DEF Ops
<1>9. Boss(y) = Boss(w) \ {s}
    BY <1>1, BlankUser DEF Boss
<1> QED
    BY <1>2, <1>3, <1>6, <1>7, <1>8, <1>9 DEF y

LEMMA LogoutEnds ==
    ASSUME NEW w, Sound(w), NEW s \in Slot, ~w.u[s].conn \/ w.u[s].room = None
    PROVE  Ends(w, logout_user(w, s), s)
<1> DEFINE y == logout_user(w, s)
<1>1. /\ Where(y) = Where(w) /\ Where(w)[s] = NoName /\ Locked(y) = Locked(w)
      /\ Asked(y) = [m \in Name |-> Asked(w)[m] \ {s}]
      /\ Ops(y) = Ops(w) \ {s} /\ Boss(y) = Boss(w) \ {s}
    BY LogoutView
<1> HIDE DEF y
<1>2. Vanishing(w, s, NoName) = {}
    BY <1>1, NameAssumption DEF Vanishing
<1>3. Where(w) = [Where(w) EXCEPT ![s] = NoName]
    BY <1>1 DEF Where
<1> QED
    BY <1>1, <1>2, <1>3 DEF Ends, y

LEMMA ExitLogoutEnds ==
    ASSUME NEW w, Sound(w), NEW s \in Slot, Here(w, s)
    PROVE  Ends(w, logout_user(exit_room(w, s), s), s)
<1> DEFINE x == exit_room(w, s)
           y == logout_user(x, s)
<1>1. /\ Goes(w, x, s, NoName) /\ Ops(x) = Ops(w) \ {s} /\ Boss(x) = Boss(w)
      /\ Sound(x) /\ x.u[s].room = None
    BY ExitView, ExitSound, ExitIs DEF Sound
<1> HIDE DEF x
<1>2. /\ Where(y) = Where(x) /\ Locked(y) = Locked(x)
      /\ Asked(y) = [m \in Name |-> Asked(x)[m] \ {s}]
      /\ Ops(y) = Ops(x) \ {s} /\ Boss(y) = Boss(x) \ {s}
    BY <1>1, LogoutView
<1> HIDE DEF y
<1>3. Asked(y) = [m \in Name |-> IF m \in Vanishing(w, s, NoName) THEN {} ELSE Asked(w)[m] \ {s}]
    <2>1. \A m \in Name : Asked(x)[m] = IF m \in Vanishing(w, s, NoName) THEN {} ELSE Asked(w)[m]
        BY <1>1, NameAssumption DEF Goes
    <2> QED
        BY <1>2, <2>1
<1>4. Ends(w, y, s)
    BY <1>1, <1>2, <1>3 DEF Goes, Ends
<1> QED
    BY <1>4 DEF y, x

-----------------------------------------------------------------------------
(***************************************************************************)
(* Every step of the server is a step of ChatRooms, or a stutter.          *)
(***************************************************************************)
LEMMA ViewPrime ==
    /\ Where(Tables)' = Where(Tables') /\ Locked(Tables)' = Locked(Tables')
    /\ Asked(Tables)' = Asked(Tables') /\ Ops(Tables)' = Ops(Tables')
    /\ Boss(Tables)' = Boss(Tables')
BY DEF Where, Locked, Asked, Ops, Boss, roomid_to_indx, First, Tables

SameView == UNCHANGED <<Where(Tables), Locked(Tables), Asked(Tables), Ops(Tables), Boss(Tables)>>

LEMMA Stutters ==
    ASSUME SameView
    PROVE  UNCHANGED Promise!vars
BY DEF SameView, Promise!vars

LEMMA GoesIsRelocate ==
    ASSUME NEW s \in Slot, NEW n \in Name \cup {NoName}, Goes(Tables, Tables', s, n)
    PROVE  Promise!Relocate(s, n)
BY ViewPrime DEF Goes, Vanishing, Promise!Relocate, Promise!Vanishing, Promise!Members

LEMMA EndsIsDisconnect ==
    ASSUME NEW s \in Slot, Ends(Tables, Tables', s)
    PROVE  Promise!Disconnect(s)
BY ViewPrime DEF Ends, Vanishing, Promise!Disconnect, Promise!Vanishing, Promise!Members

LEMMA EnterIsMove ==
    ASSUME NEW s \in Slot, NEW n \in Name, Goes(Tables, Tables', s, n), Admits(Tables, s, n),
           Boss(Tables)' = Boss(Tables),
           Ops(Tables)' = Rights(Tables, s, n)
    PROVE  Promise!Move(s, n)
<1>1. Promise!Relocate(s, n)
    BY GoesIsRelocate
<1> QED
    BY <1>1 DEF Admits, Rights, Promise!Move, Promise!Admitted, Promise!Members

LEMMA InitView == Init => Promise!Init
<1> SUFFICES ASSUME Init PROVE Promise!Init
    OBVIOUS
<1>1. Sound(Tables)
    BY InitChatInv DEF ChatInv
<1>2. \A s \in Slot : ~users[s].conn /\ users[s].perms = {}
    BY DEF Init, Blank
<1>3. \A r \in Room : ~rooms[r].locked /\ rooms[r].invites = {}
    BY NameAssumption, FreshRoom DEF Init
<1>4. Where(Tables) = [s \in Slot |-> NoName]
    BY <1>2, TablesAre DEF Where
<1>5. Locked(Tables) = {}
    BY <1>3, TablesAre DEF Locked
<1>6. Asked(Tables) = [n \in Name |-> {}]
    <2>1. \A n \in Name : roomid_to_indx(rooms, n) \in Room \cup {None}
        BY RoomidFits
    <2> QED
        BY <1>3, <2>1, TablesAre DEF Asked
<1>7. Ops(Tables) = {} /\ Boss(Tables) = {}
    BY <1>2, TablesAre DEF Ops, Boss
<1> QED
    BY <1>4, <1>5, <1>6, <1>7 DEF Promise!Init

LEMMA BecomeIs ==
    ASSUME NEW w, Typed(w), Become(w)
    PROVE  Tables' = w
BY TablesAre DEF Typed, Become

LEMMA SoundPrime ==
    ASSUME ChatInv'
    PROVE  Sound(Tables')
BY DEF ChatInv, Sound, Typed, Counted, In, Known, Distinct, Live, Tables

(* Nobody is seen to move. *)
LEMMA SameViewWhen ==
    ASSUME rooms' = rooms,
           \A s \in Slot : /\ users'[s].perms = users[s].perms
                           /\ (users'[s].conn /\ users'[s].room # None) <=>
                              (users[s].conn /\ users[s].room # None)
                           /\ users[s].conn /\ users[s].room # None => users'[s].room = users[s].room
    PROVE  SameView
<1>1. Tables.u = users /\ Tables.r = rooms /\ Tables'.u = users' /\ Tables'.r = rooms
    BY TablesAre
<1>2. Where(Tables') = Where(Tables)
    BY <1>1 DEF Where
<1>3. Locked(Tables') = Locked(Tables) /\ Asked(Tables') = Asked(Tables)
    BY <1>1 DEF Locked, Asked
<1>4. Ops(Tables') = Ops(Tables)
    BY <1>1 DEF Ops
<1>5. Boss(Tables') = Boss(Tables)
    BY <1>1 DEF Boss
<1> QED
    BY <1>2, <1>3, <1>4, <1>5, ViewPrime DEF SameView

(* One room is changed and nobody moves. *)
LEMMA RoomChanged ==
    ASSUME NEW w, Sound(w), NEW y, Sound(y), y.u = w.u, NEW r \in Room, Live(w, r),
           \A q \in Room \ {r} : y.r[q] = w.r[q],
           y.r[r].name = w.r[r].name, y.r[r].occupants = w.r[r].occupants
    PROVE  LET n == w.r[r].name
           IN  /\ Where(y) = Where(w) /\ Ops(y) = Ops(w) /\ Boss(y) = Boss(w) /\ n \in Name
               /\ \A m \in Name \ {n} : /\ m \in Locked(y) <=> m \in Locked(w)
                                        /\ Asked(y)[m] = Asked(w)[m]
               /\ (n \in Locked(y) <=> y.r[r].locked) /\ Asked(y)[n] = y.r[r].invites
               /\ (n \in Locked(w) <=> w.r[r].locked) /\ Asked(w)[n] = w.r[r].invites
<1> DEFINE n == w.r[r].name
<1>1. \A q \in Room : (Live(y, q) <=> Live(w, q)) /\ y.r[q].name = w.r[q].name
    BY DEF Live
<1>2. ASSUME NEW m \in Name \ {n}
      PROVE  (m \in Locked(y) <=> m \in Locked(w)) /\ Asked(y)[m] = Asked(w)[m]
    <2>1. CASE \E q \in Room : Live(w, q) /\ w.r[q].name = m
        <3>1. PICK q \in Room \ {r} : Live(w, q) /\ w.r[q].name = m
            BY <2>1
        <3>2. Live(y, q) /\ y.r[q] = w.r[q]
            BY <1>1, <3>1
        <3> QED
            BY <3>1, <3>2, RoomView
    <2>2. CASE Nowhere(w, m)
        <3>1. Nowhere(y, m)
            BY <1>1, <2>2 DEF Nowhere
        <3> QED
            BY <2>2, <3>1, NoRoomView
    <2> QED
        BY <2>1, <2>2 DEF Nowhere
<1>3. /\ (n \in Locked(y) <=> y.r[r].locked) /\ Asked(y)[n] = y.r[r].invites
      /\ (n \in Locked(w) <=> w.r[r].locked) /\ Asked(w)[n] = w.r[r].invites /\ n \in Name
    BY <1>1, RoomView
<1>4. Where(y) = Where(w)
    <2> SUFFICES ASSUME NEW s \in Slot PROVE Where(y)[s] = Where(w)[s]
        BY DEF Where
    <2> QED
        BY <1>1, MemberIsIn DEF Where
<1>5. Ops(y) = Ops(w) /\ Boss(y) = Boss(w)
    BY DEF Ops, Boss
<1> QED
    BY <1>2, <1>3, <1>4, <1>5

LEMMA AcceptView ==
    ASSUME ChatInv, Accept
    PROVE  SameView
<1>1. PICK t \in Slot : /\ ~users[t].conn /\ users'[t].conn /\ users'[t].room = None
                        /\ users'[t].perms = users[t].perms
                        /\ \A v \in Slot \ {t} : users'[v] = users[v]
    BY AcceptStep
<1>2. rooms' = rooms
    BY DEF Accept
<1> QED
    BY <1>1, <1>2, SameViewWhen

LEMMA LoginView ==
    ASSUME ChatInv, NEW s \in Slot, Login(s)
    PROVE  \E b \in BOOLEAN : Promise!LogIn(s, b)
<1>1. PICK u \in User, id \in Id, cloak \in BOOLEAN : login_user(s, u, id, cloak)
    BY DEF Login
<1> DEFINE w == [u |-> Logged(s, u, id, cloak), r |-> rooms]
           y == enter_room(w, s, Main)
           b == "sysop" \in Level[u]
<1>2. users[s].conn /\ users[s].utent = NoUser /\ users[s].room = None /\ Become(y)
    <2>1. users[s].conn /\ users[s].utent = NoUser /\ Become(y)
        BY <1>1, InvIs DEF login_user, Logged, Await, Watched, Open
    <2> QED
        BY <2>1, InvIs, TablesAre DEF Known
<1>3. /\ Sound(w) /\ w.r = rooms /\ \A t \in Slot \ {s} : w.u[t] = users[t]
      /\ w.u[s].conn /\ w.u[s].room = None /\ w.u[s].utent # NoUser /\ w.u[s].perms = Level[u]
    BY <1>2, LoggedSound, UserAssumption
<1> HIDE DEF w
<1>4. Where(w) = Where(Tables)
    BY <1>2, <1>3, TablesAre DEF Where
<1>5. Locked(w) = Locked(Tables) /\ Asked(w) = Asked(Tables)
    BY <1>3, TablesAre DEF Locked, Asked
<1>6. Ops(w) = Ops(Tables) /\ s \notin Ops(w) /\ Where(Tables)[s] = NoName
    BY <1>2, <1>3, TablesAre DEF Ops, Where
<1>7. Boss(w) = IF b THEN Boss(Tables) \cup {s} ELSE Boss(Tables) \ {s}
    <2>1. \A t \in Slot : "sysop" \in w.u[t].perms <=>
                              IF t = s THEN b ELSE "sysop" \in users[t].perms
        BY <1>3
    <2> QED
        BY <2>1, TablesAre DEF Boss
<1>8. Sound(y)
    BY <1>3, EnterSound, NameAssumption
<1>9. \/ y = w
      \/ Goes(w, y, s, Main) /\ Admits(w, s, Main) /\ Boss(y) = Boss(w) /\ Ops(y) = Ops(w) \ {s}
    BY <1>3, EnterView, NameAssumption DEF Rights
<1>10. Tables' = y
    BY <1>2, <1>8, BecomeIs DEF Sound
<1> HIDE DEF y, b
<1>11. Boss(Tables)' = Boss(w) /\ Ops(Tables)' = Ops(Tables)
    BY <1>6, <1>9, <1>10, ViewPrime
<1>12. \/ UNCHANGED <<Where(Tables), Locked(Tables), Asked(Tables)>>
       \/ Admits(w, s, Main) /\ Promise!Relocate(s, Main)
    <2>1. CASE y = w
        BY <1>4, <1>5, <1>10, <2>1, ViewPrime
    <2>2. CASE Goes(w, y, s, Main) /\ Admits(w, s, Main)
        <3>1. Goes(Tables, Tables', s, Main)
            BY <1>4, <1>5, <1>10, <2>2 DEF Goes, Vanishing
        <3> QED
            BY <2>2, <3>1, GoesIsRelocate, NameAssumption
    <2> QED
        BY <1>9, <2>1, <2>2
<1>13. b \in BOOLEAN
    BY DEF b
<1>14. Promise!LogIn(s, b)
    BY <1>5, <1>6, <1>7, <1>11, <1>12 DEF Promise!LogIn, Promise!Admitted, Admits
<1> QED
    BY <1>13, <1>14

LEMMA EndView ==
    ASSUME ChatInv, NEW s \in Slot, (\E u \in User : Bogus(s, u)) \/ Stray(s) \/ LostConn(s)
    PROVE  Promise!Disconnect(s)
<1>1. CASE LostConn(s)
    <2> DEFINE y == logout_user(exit_room(Tables, s), s)
    <2>1. Sound(Tables) /\ Here(Tables, s) /\ Become(y)
        BY <1>1, InvIs, TablesAre DEF LostConn, Watched, Open, Here
    <2>2. Ends(Tables, y, s)
        BY <2>1, ExitLogoutEnds
    <2>3. Typed(y)
        BY <2>1, ExitIs, LogoutIs DEF Sound
    <2>4. Tables' = y
        BY <2>1, <2>3, BecomeIs
    <2> HIDE DEF y
    <2> QED
        BY <2>2, <2>4, EndsIsDisconnect
<1>2. CASE (\E u \in User : Bogus(s, u)) \/ Stray(s)
    <2> DEFINE y == logout_user(Tables, s)
    <2>1. Sound(Tables) /\ (~users[s].conn \/ users[s].room = None) /\ Become(y)
        BY <1>2, InvIs, TablesAre DEF Bogus, Await, Stray, Known
    <2>2. Ends(Tables, y, s)
        BY <2>1, LogoutEnds, TablesAre
    <2>3. Typed(y)
        BY <2>1, LogoutIs DEF Sound
    <2>4. Tables' = y
        BY <2>1, <2>3, BecomeIs
    <2> HIDE DEF y
    <2> QED
        BY <2>2, <2>4, EndsIsDisconnect
<1> QED
    BY <1>1, <1>2

LEMMA JoinView ==
    ASSUME ChatInv, NEW s \in Slot, chat_join(s)
    PROVE  SameView \/ \E n \in Name : Promise!Move(s, n)
<1>1. PICK n \in Name : Become(enter_room(Tables, s, n))
    BY DEF chat_join
<1> DEFINE y == enter_room(Tables, s, n)
<1>2. users[s].conn /\ users[s].utent # NoUser /\ Sound(Tables)
    BY InvIs, InRoomIsOpen DEF chat_join
<1>3. Sound(y)
    BY <1>2, EnterSound, TablesAre
<1>4. \/ y = Tables
      \/ /\ Goes(Tables, y, s, n) /\ Admits(Tables, s, n) /\ Boss(y) = Boss(Tables)
         /\ Ops(y) = Rights(Tables, s, n)
    BY <1>2, EnterView, TablesAre
<1>5. Tables' = y
    BY <1>1, <1>3, BecomeIs DEF Sound
<1> HIDE DEF y
<1>6. CASE y = Tables
    BY <1>5, <1>6, ViewPrime DEF SameView
<1>7. CASE y # Tables
    BY <1>4, <1>5, <1>7, ViewPrime, EnterIsMove
<1> QED
    BY <1>6, <1>7

LEMMA GoodbyeView ==
    ASSUME ChatInv, NEW s \in Slot, chat_goodbye(s)
    PROVE  Promise!Leave(s)
<1> DEFINE y == exit_room(Tables, s)
<1>1. Sound(Tables) /\ Here(Tables, s) /\ Become(y)
    BY InvIs, LineIsHere DEF chat_goodbye, InRoom
<1>2. Goes(Tables, y, s, NoName) /\ Ops(y) = Ops(Tables) \ {s} /\ Boss(y) = Boss(Tables)
    BY <1>1, ExitView
<1>3. Tables' = y
    BY <1>1, ExitIs, BecomeIs DEF Sound
<1> HIDE DEF y
<1>4. Promise!Relocate(s, NoName)
    BY <1>2, <1>3, GoesIsRelocate
<1> QED
    BY <1>2, <1>3, <1>4, ViewPrime DEF Promise!Leave

\* Who gives a command with its mark is in a live room, and may.
LEMMA RulerView ==
    ASSUME ChatInv, NEW s \in Slot, InRoom(s), Rules(s)
    PROVE  /\ users[s].conn /\ users[s].room \in Room /\ Live(Tables, users[s].room)
           /\ Where(Tables)[s] = rooms[users[s].room].name
           /\ Promise!Rules(s)
<1>1. users[s].conn /\ users[s].room # None /\ Sound(Tables)
    BY InvIs, InRoomIsOpen DEF InRoom
<1>2. users[s].room \in Room /\ s \in In(Tables, users[s].room) /\ Live(Tables, users[s].room)
    BY <1>1, MemberIsIn, TablesAre
<1>3. Where(Tables)[s] = rooms[users[s].room].name
    BY <1>1, TablesAre DEF Where
<1>4. rooms[users[s].room].name # NoName
    BY <1>1, <1>2, RoomView, NameAssumption, TablesAre
<1>5. s \in Ops(Tables) \cup Boss(Tables)
    BY <1>1, TablesAre DEF Ops, Boss, Rules, Has
<1> QED
    BY <1>1, <1>2, <1>3, <1>4, <1>5 DEF Promise!Rules

LEMMA SetroomView ==
    ASSUME ChatInv, NEW s \in Slot, chat_setroom(s)
    PROVE  Promise!Lock(s)
<1> DEFINE r == users[s].room
           n == rooms[r].name
<1>1. PICK on \in BOOLEAN : rooms' = [rooms EXCEPT ![r].locked = on]
    BY DEF chat_setroom
<1>2. /\ r \in Room /\ Live(Tables, r) /\ Where(Tables)[s] = n /\ Promise!Rules(s)
      /\ users' = users
    BY RulerView DEF chat_setroom
<1>3. Sound(Tables) /\ Sound(Tables')
    BY InvIs, EntryStep, SoundPrime
<1> DEFINE g == [rooms[r] EXCEPT !.locked = on]
<1>4. /\ rooms'[r] = g /\ \A q \in Room \ {r} : rooms'[q] = rooms[q]
      /\ g.name = n /\ g.occupants = rooms[r].occupants /\ g.locked = on
      /\ g.invites = rooms[r].invites
    <2>1. rooms[r] \in ChatRoom
        BY <1>2, InvIs
    <2>2. g.name = n /\ g.occupants = rooms[r].occupants /\ g.locked = on
          /\ g.invites = rooms[r].invites
        BY <2>1 DEF ChatRoom
    <2> QED
        BY <1>1, <1>2, <2>2, InvIs
<1> HIDE DEF g, r
<1>5. /\ Tables'.u = Tables.u /\ Tables.r = rooms /\ Tables'.r = rooms'
    BY <1>2, TablesAre
<1>6. /\ Where(Tables') = Where(Tables) /\ Ops(Tables') = Ops(Tables)
      /\ Boss(Tables') = Boss(Tables) /\ n \in Name
      /\ \A m \in Name \ {n} : /\ m \in Locked(Tables') <=> m \in Locked(Tables)
                               /\ Asked(Tables')[m] = Asked(Tables)[m]
      /\ (n \in Locked(Tables') <=> rooms'[r].locked) /\ Asked(Tables')[n] = rooms'[r].invites
      /\ Asked(Tables)[n] = rooms[r].invites
    BY <1>2, <1>3, <1>4, <1>5, RoomChanged
<1> HIDE DEF n
<1>7. Asked(Tables') = Asked(Tables)
    <2>1. \A m \in Name : Asked(Tables')[m] = Asked(Tables)[m]
        BY <1>4, <1>6
    <2> QED
        BY <2>1 DEF Asked
<1>8. Locked(Tables') = IF on THEN Locked(Tables) \cup {n} ELSE Locked(Tables) \ {n}
    <2>1. Locked(Tables) \subseteq Name /\ Locked(Tables') \subseteq Name
        BY <1>3, LockedNames
    <2> QED
        BY <1>4, <1>6, <2>1
<1> QED
    BY <1>2, <1>6, <1>7, <1>8, ViewPrime DEF Promise!Lock

LEMMA InviteView ==
    ASSUME ChatInv, NEW s \in Slot, NEW t \in Slot, chat_invite(s, t)
    PROVE  Promise!Invite(s, t)
<1> DEFINE r == users[s].room
           n == rooms[r].name
<1>1. r \in Room /\ Live(Tables, r) /\ Where(Tables)[s] = n /\ Promise!Rules(s)
    BY RulerView DEF chat_invite, Target
<1>2. Sound(Tables) /\ Sound(Tables')
    BY InvIs, InviteStep, SoundPrime
<1>3. /\ users' = users /\ \A q \in Room \ {r} : rooms'[q] = rooms[q]
      /\ rooms'[r].occupants = rooms[r].occupants /\ rooms'[r].name = n
      /\ rooms'[r].locked = rooms[r].locked
      /\ rooms'[r].invites = rooms[r].invites \cup {t}
    BY InviteStep
<1> HIDE DEF r
<1>4. Tables'.u = Tables.u /\ Tables.r = rooms /\ Tables'.r = rooms'
    BY <1>3, TablesAre
<1>5. /\ Where(Tables') = Where(Tables) /\ Ops(Tables') = Ops(Tables)
      /\ Boss(Tables') = Boss(Tables) /\ n \in Name
      /\ \A m \in Name \ {n} : /\ m \in Locked(Tables') <=> m \in Locked(Tables)
                               /\ Asked(Tables')[m] = Asked(Tables)[m]
      /\ n \in Locked(Tables') <=> rooms'[r].locked
      /\ Asked(Tables')[n] = rooms'[r].invites
      /\ n \in Locked(Tables) <=> rooms[r].locked
      /\ Asked(Tables)[n] = rooms[r].invites
    BY <1>1, <1>2, <1>3, <1>4, RoomChanged
<1> HIDE DEF n
<1>6. Locked(Tables') = Locked(Tables)
    BY <1>2, <1>3, <1>5, LockedNames
<1>7. Asked(Tables') = [Asked(Tables) EXCEPT ![n] = Asked(Tables)[n] \cup {t}]
    <2>1. \A m \in Name : Asked(Tables')[m] =
                IF m = n THEN Asked(Tables)[n] \cup {t} ELSE Asked(Tables)[m]
        BY <1>3, <1>5
    <2> QED
        BY <2>1 DEF Asked
<1> QED
    BY <1>1, <1>5, <1>6, <1>7, ViewPrime DEF Promise!Invite

LEMMA MakeopView ==
    ASSUME ChatInv, NEW s \in Slot, NEW t \in Slot, chat_makeop(s, t)
    PROVE  Promise!HandOver(s, t)
<1>1. /\ users[s].conn /\ Promise!Rules(s) /\ users[t].conn
      /\ s # t /\ users[t].room = users[s].room /\ users[s].room # None
    BY RulerView, TargetIsOpen DEF chat_makeop, Target, InRoom
<1>2. /\ rooms' = rooms /\ \A v \in Slot \ {s, t} : users'[v] = users[v]
      /\ \A v \in Slot : (users'[v].conn <=> users[v].conn) /\ users'[v].room = users[v].room
      /\ users'[s].perms = users[s].perms \ {"op"}
      /\ users'[t].perms = users[t].perms \cup {"op"}
    BY MakeopStep DEF SameConns
<1>3. Where(Tables)[t] = Where(Tables)[s]
    BY <1>1, TablesAre DEF Where
<1>4. Where(Tables') = Where(Tables)
    BY <1>2, TablesAre DEF Where
<1>5. Locked(Tables') = Locked(Tables) /\ Asked(Tables') = Asked(Tables)
    BY <1>2, TablesAre DEF Locked, Asked
<1>6. Ops(Tables') = (Ops(Tables) \ {s}) \cup {t}
    <2>1. \A v \in Slot : /\ users'[v].conn /\ users'[v].room # None /\ "op" \in users'[v].perms
                          <=> \/ v = t
                              \/ /\ v # s /\ users[v].conn /\ users[v].room # None
                                 /\ "op" \in users[v].perms
        BY <1>1, <1>2
    <2> QED
        BY <2>1, TablesAre DEF Ops
<1>7. Boss(Tables') = Boss(Tables)
    <2>1. \A v \in Slot : "sysop" \in users'[v].perms <=> "sysop" \in users[v].perms
        BY <1>2
    <2> QED
        BY <2>1, TablesAre DEF Boss
<1> QED
    BY <1>1, <1>3, <1>4, <1>5, <1>6, <1>7, ViewPrime DEF Promise!HandOver

(* Thrown out of a room, into the main one unless that is locked. *)
LEMMA ThrownOut ==
    ASSUME NEW w, Sound(w), NEW x, NEW y, NEW s \in Slot,
           Goes(w, x, s, NoName), Ops(x) = Ops(w) \ {s}, Boss(x) = Boss(w),
           Goes(x, y, s, Main), Admits(x, s, Main), Boss(y) = Boss(x),
           Ops(y) = Rights(x, s, Main)
    PROVE  Goes(w, y, s, Main) /\ Admits(w, s, Main) /\ Boss(y) = Boss(w)
           /\ Ops(y) = Rights(w, s, Main)
<1> DEFINE V == Vanishing(w, s, Main)
<1>1. Vanishing(w, s, NoName) = V /\ Main \notin V /\ Main \in Name /\ Main # NoName
    BY NameAssumption DEF Vanishing
<1>2. Where(w) \in [Slot -> Name \cup {NoName}]
    <2> SUFFICES ASSUME NEW t \in Slot PROVE Where(w)[t] \in Name \cup {NoName}
        BY DEF Where
    <2> QED
        BY MemberIsIn, RoomView DEF Where
<1>3. Where(x) = [Where(w) EXCEPT ![s] = NoName]
    BY DEF Goes
<1>4. Vanishing(x, s, Main) = {}
    <2>1. Where(x)[s] = NoName
        BY <1>2, <1>3
    <2> QED
        BY <2>1, NameAssumption DEF Vanishing
<1>5. Where(y) = [Where(w) EXCEPT ![s] = Main]
    BY <1>2, <1>3 DEF Goes
<1>6. Locked(x) = Locked(w) \ V /\ Locked(y) = Locked(x)
    BY <1>1, <1>4 DEF Goes
<1>7. \A m \in Name : Asked(x)[m] = IF m \in V THEN {} ELSE Asked(w)[m]
    BY <1>1, NameAssumption DEF Goes
<1>8. Asked(y) = [m \in Name |-> IF m = Main THEN Asked(x)[m] \ {s} ELSE Asked(x)[m]]
    BY <1>4 DEF Goes
<1> HIDE DEF V
<1>9. Asked(y) = [m \in Name |-> IF m \in V THEN {}
                                 ELSE IF m = Main THEN Asked(w)[m] \ {s} ELSE Asked(w)[m]]
    BY <1>1, <1>7, <1>8
<1>10. Goes(w, y, s, Main)
    BY <1>5, <1>6, <1>9 DEF Goes, V
<1>11. Admits(w, s, Main)
    BY <1>1, <1>6, <1>7 DEF Admits
<1> QED
    BY <1>10, <1>11 DEF Rights

LEMMA KickView ==
    ASSUME ChatInv, NEW s \in Slot, NEW t \in Slot, chat_kick(s, t)
    PROVE  Promise!Disconnect(t) \/ Promise!Leave(t) \/ Promise!Move(t, Main)
<1> DEFINE x == exit_room(Tables, t)
<1>1. users[t].conn /\ Sound(Tables) /\ Typed(Tables) /\ Here(Tables, t) /\ users[t].room # None
    BY TargetIsOpen, InvIs, TablesAre DEF chat_kick, Target, InRoom, Here
<1>2. Sound(x) /\ x.u[t].conn /\ x.u[t].utent # NoUser
    <2>1. Sound(x)
        BY <1>1, ExitSound
    <2>2. x.u[t].conn = users[t].conn /\ x.u[t].utent = users[t].utent
        <3>1. x.u[t].conn = Tables.u[t].conn /\ x.u[t].utent = Tables.u[t].utent
            BY <1>1, ExitIs
        <3> QED
            BY <3>1, TablesAre
    <2>3. users[t].utent # NoUser
        BY <1>1, InvIs, TablesAre DEF Known
    <2> QED
        BY <1>1, <2>1, <2>2, <2>3
<1>3. Goes(Tables, x, t, NoName) /\ Ops(x) = Ops(Tables) \ {t} /\ Boss(x) = Boss(Tables)
    BY <1>1, ExitView
<1>4. CASE users[s].room = 0
    <2> DEFINE y == logout_user(x, t)
    <2>1. Become(y)
        BY <1>4 DEF chat_kick
    <2>2. Ends(Tables, y, t)
        BY <1>1, ExitLogoutEnds
    <2> HIDE DEF x
    <2>3. Typed(y)
        BY <1>2, LogoutIs DEF Sound
    <2>4. Tables' = y
        BY <2>1, <2>3, BecomeIs
    <2> HIDE DEF y
    <2> QED
        BY <2>2, <2>4, EndsIsDisconnect
<1>5. CASE users[s].room # 0
    <2> DEFINE y == enter_room(x, t, Main)
    <2>1. Become(y)
        BY <1>5 DEF chat_kick
    <2> HIDE DEF x
    <2>2. Sound(y)
        BY <1>2, EnterSound, NameAssumption
    <2>3. \/ y = x
          \/ Goes(x, y, t, Main) /\ Admits(x, t, Main) /\ Boss(y) = Boss(x) /\ Ops(y) = Rights(x, t, Main)
        BY <1>2, EnterView, NameAssumption
    <2>4. Tables' = y
        BY <2>1, <2>2, BecomeIs DEF Sound
    <2> HIDE DEF y
    <2>5. CASE y = x
        <3>1. Promise!Relocate(t, NoName)
            BY <1>3, <2>4, <2>5, GoesIsRelocate
        <3> QED
            BY <1>3, <2>4, <2>5, <3>1, ViewPrime DEF Promise!Leave
    <2>6. CASE y # x
        <3>1. /\ Goes(Tables, y, t, Main) /\ Admits(Tables, t, Main) /\ Boss(y) = Boss(Tables)
              /\ Ops(y) = Rights(Tables, t, Main)
            BY <1>1, <1>3, <2>3, <2>6, ThrownOut
        <3> QED
            BY <2>4, <3>1, ViewPrime, EnterIsMove, NameAssumption
    <2> QED
        BY <2>5, <2>6
<1> QED
    BY <1>4, <1>5

LEMMA QuietView ==
    ASSUME ChatInv, NEW s \in Slot, chat_nick(s) \/ chat_cloak(s) \/ chat_rename(s)
    PROVE  SameView
<1>1. rooms' = rooms
    BY DEF chat_nick, chat_cloak, chat_rename
<1>2. users[s] \in ChatUser
    BY InvIs
<1>3. CASE chat_nick(s)
    <2>1. PICK id \in Id : users' = [users EXCEPT ![s] = [users[s] EXCEPT !.chatid = id]]
        BY <1>3 DEF chat_nick
    <2> DEFINE f == [users[s] EXCEPT !.chatid = id]
    <2>2. f.conn = users[s].conn /\ f.room = users[s].room /\ f.perms = users[s].perms
        BY <1>2 DEF ChatUser
    <2>3. users' = [users EXCEPT ![s] = f]
        BY <2>1
    <2> HIDE DEF f
    <2> QED
        BY <1>1, <2>2, <2>3, InvIs, SameViewWhen
<1>4. CASE chat_cloak(s)
    <2> DEFINE f == [users[s] EXCEPT !.cloak = ~users[s].cloak]
    <2>1. f.conn = users[s].conn /\ f.room = users[s].room /\ f.perms = users[s].perms
        BY <1>2 DEF ChatUser
    <2>2. users' = [users EXCEPT ![s] = f]
        BY <1>4 DEF chat_cloak
    <2> HIDE DEF f
    <2> QED
        BY <1>1, <2>1, <2>2, InvIs, SameViewWhen
<1>5. CASE chat_rename(s)
    <2>1. users' = users
        BY <1>5 DEF chat_rename
    <2> QED
        BY <1>1, <2>1, SameViewWhen
<1> QED
    BY <1>3, <1>4, <1>5

LEMMA NextPromise == ChatInv /\ [Next]_vars => [Promise!Next]_(Promise!vars)
<1> SUFFICES ASSUME ChatInv, [Next]_vars PROVE Promise!Next \/ UNCHANGED Promise!vars
    OBVIOUS
<1>1. CASE Accept
    BY <1>1, AcceptView, Stutters
<1>2. ASSUME NEW s \in Slot,
             Login(s) \/ (\E u \in User : Bogus(s, u)) \/ LostConn(s) \/ command_execute(s)
      PROVE  Promise!Next \/ UNCHANGED Promise!vars
    <2>1. CASE Login(s)
        BY <2>1, LoginView DEF Promise!Next
    <2>2. CASE (\E u \in User : Bogus(s, u)) \/ Stray(s) \/ LostConn(s)
        BY <2>2, EndView DEF Promise!Next
    <2>3. CASE chat_join(s)
        BY <2>3, JoinView, Stutters DEF Promise!Next
    <2>4. CASE chat_goodbye(s)
        BY <2>4, GoodbyeView DEF Promise!Next
    <2>5. CASE chat_setroom(s)
        BY <2>5, SetroomView DEF Promise!Next
    <2>6. CASE chat_nick(s) \/ chat_cloak(s) \/ chat_rename(s)
        BY <2>6, QuietView, Stutters
    <2>7. ASSUME NEW t \in Slot, chat_kick(s, t)
          PROVE  Promise!Next
        BY <2>7, KickView, NameAssumption DEF Promise!Next
    <2>8. ASSUME NEW t \in Slot, chat_makeop(s, t) \/ chat_invite(s, t)
          PROVE  Promise!Next
        BY <2>8, MakeopView, InviteView DEF Promise!Next
    <2> QED
        BY <1>2, <2>1, <2>2, <2>3, <2>4, <2>5, <2>6, <2>7, <2>8 DEF command_execute
<1>3. CASE UNCHANGED vars
    <2>1. Tables' = Tables
        BY <1>3 DEF vars, Tables
    <2> QED
        BY <2>1, ViewPrime, Stutters DEF SameView
<1> QED
    BY <1>1, <1>2, <1>3 DEF Next

\* The server keeps the rooms' promises: tables, counters and room numbers of
\* any size, and reads of any number of lines, implement ChatRooms.
THEOREM KeepsPromiseHolds == Spec => KeepsPromise
<1> QED
    BY InitView, InitChatInv, NextChatInv, NextPromise, PTL DEF Spec, KeepsPromise, Promise!Spec
===============================================================================
