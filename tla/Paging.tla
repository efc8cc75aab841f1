-------------------------------- MODULE Paging --------------------------------
(***************************************************************************)
(* Paging another user for a talk or a game of five (talk.c, five.c).      *)
(*                                                                         *)
(* The caller opens a port, publishes it with the callee's uid in its      *)
(* entry of the user table, sends SIGUSR1 and waits.  The callee's process *)
(* looks for the first entry with its uid as destuid, asks its user, and   *)
(* connects to the port; the byte it sends decides what follows.  The      *)
(* entry a process keeps for itself (uinfo) and the one the others see     *)
(* differ until it is published as a whole.  Ports are never given out     *)
(* twice, and a process that left does not come back.                      *)
(***************************************************************************)
EXTENDS Naturals, SequencesExt

CONSTANTS
    Slots,      \* the processes, each named by its slot of the table
    User,       \* the account (uid) logged in at a slot
    Curious,    \* the processes whose users look other users up
    MaxPages    \* pages sent in a behaviour

ASSUME SlotsAssumption == Slots \in SUBSET (Nat \ {0}) /\ Curious \subseteq Slots
ASSUME PagesAssumption == MaxPages \in Nat
ASSUME UserAssumption == User \in [Slots -> Nat \ {0}]

Nobody == 0
Ports == 1 .. MaxPages
Uids == {User[p] : p \in Slots}
Kinds == {"talk", "five"}
Bytes == {"y", "n", "m"}
Modes == {"menu", "query", "page", "page_five"} \cup Kinds

Entry == [active : BOOLEAN, mode : Modes, sockactive : BOOLEAN,
          sockaddr : Ports \cup {0}, destuid : Uids \cup {0}]

\* A port of a caller: its backlog, the call it accepted, the bytes sent.
Socket == [owner : Slots \cup {Nobody}, open : BOOLEAN, backlog : Seq(Slots),
           peer : Slots \cup {Nobody}, sent : [Slots -> Bytes \cup {""}]]

VARIABLES
    uinfo,      \* each process's own entry
    utmp,       \* utmpshm->uinfo, what the others read
    pc,
    talkrequest,\* SIGUSR1 came
    uin,        \* the process a caller is paging
    kind,       \* what a process is after, or in: a talk or a game
    ui,         \* the answerer's copy of the caller's slot and port
    fd,         \* the port an answerer is connected to
    answer,     \* what it is going to send
    sock,       \* the ports
    pages,      \* how many were given out
    \* What the properties remember.
    mixed,      \* answerers whose two searches met different entries
    leaked      \* ports left open

local == <<uin, kind, ui, fd, answer, mixed, leaked>>
vars == <<uinfo, utmp, pc, talkrequest, local, sock, pages>>

Stages == {"idle", "ask", "ring", "listen", "wait", "read", "session", "back",
           "query", "who", "prompt", "reason", "write", "gone"}

TypeOK ==
    /\ uinfo \in [Slots -> Entry] /\ utmp \in [Slots -> Entry]
    /\ pc \in [Slots -> Stages] /\ talkrequest \in [Slots -> BOOLEAN]
    /\ uin \in [Slots -> Slots \cup {Nobody}] /\ kind \in [Slots -> Kinds]
    /\ ui \in [Slots -> [slot : Slots \cup {Nobody}, port : Ports \cup {0}]]
    /\ fd \in [Slots -> Ports \cup {0}] /\ answer \in [Slots -> Bytes]
    /\ sock \in [Ports -> Socket] /\ pages \in 0 .. MaxPages
    /\ mixed \in SUBSET Slots /\ leaked \in SUBSET Ports

Empty == [active |-> TRUE, mode |-> "menu", sockactive |-> FALSE,
          sockaddr |-> 0, destuid |-> 0]
Closed == [owner |-> Nobody, open |-> FALSE, backlog |-> <<>>,
           peer |-> Nobody, sent |-> [q \in Slots |-> ""]]
NoCall == [slot |-> Nobody, port |-> 0]

Init ==
    /\ uinfo = [p \in Slots |-> Empty] /\ utmp = uinfo
    /\ pc = [p \in Slots |-> "idle"]
    /\ talkrequest = [p \in Slots |-> FALSE]
    /\ uin = [p \in Slots |-> Nobody] /\ kind = [p \in Slots |-> "talk"]
    /\ ui = [p \in Slots |-> NoCall]
    /\ fd = [p \in Slots |-> 0] /\ answer = [p \in Slots |-> "n"]
    /\ sock = [n \in Ports |-> Closed]
    /\ pages = 0 /\ mixed = {} /\ leaked = {}

-----------------------------------------------------------------------------
Goto(p, l) == pc' = [pc EXCEPT ![p] = l]
Quiet == UNCHANGED talkrequest
Alive(p) == pc[p] # "gone"

\* update_utmp, and modify_user_mode, which publishes only a change of mode.
Publish(p, e) == uinfo' = [uinfo EXCEPT ![p] = e] /\ utmp' = [utmp EXCEPT ![p] = e]
Keep(p, e) == uinfo' = [uinfo EXCEPT ![p] = e] /\ UNCHANGED utmp
SetMode(p, e, m) ==
    IF e.mode = m THEN Keep(p, e) ELSE Publish(p, [e EXCEPT !.mode = m])

Hide(e) == [e EXCEPT !.sockactive = FALSE, !.destuid = 0]
Deaf(e) == [e EXCEPT !.sockactive = FALSE]

\* The command's variables are dead once it is over.
Forget(p) ==
    /\ uin' = [uin EXCEPT ![p] = Nobody] /\ kind' = [kind EXCEPT ![p] = "talk"]
    /\ ui' = [ui EXCEPT ![p] = NoCall] /\ fd' = [fd EXCEPT ![p] = 0]
    /\ answer' = [answer EXCEPT ![p] = "n"] /\ mixed' = mixed \ {p}

\* What search_ulist and who_callme look for: the first entry that fits.
First(S) == IF S = {} THEN Nobody ELSE Min(S)
CallersOf(u) == {s \in Slots : utmp[s].active /\ utmp[s].destuid = u}
\* Variant: any page will do.
cmpunums_any(p) == First({s \in Slots : utmp[s].active /\ utmp[s].sockactive})
cmpunums(p) == First(CallersOf(User[p]))
who_callme(p, u) == First({s \in CallersOf(User[p]) : User[s] = u})

\* The port a caller has in hand: the last one it opened.
Port(p) == uinfo[p].sockaddr
Peer(p) == sock[Port(p)].peer

\* The other end has closed, or there is none.
CallerCut(p) == fd[Peer(p)] # Port(p)
AnswererCut(q) ==
    LET s == sock[fd[q]] IN
    s.peer # q /\ ~Contains(s.backlog, q)
IsCaller(p) == fd[p] = 0
Cut(p) == IF IsCaller(p) THEN CallerCut(p) ELSE AnswererCut(p)

\* The listener or the accepted call, the only end left: the port is closed.
Close(n) == [sock EXCEPT ![n] = Closed]

-----------------------------------------------------------------------------
(* The caller: talk().  Game players, pagers and absent users are refused;
   what was read of the callee is not read again. *)
Choose(p) == \E q \in Slots :
    /\ pc[p] = "idle" /\ ~talkrequest[p]
    /\ User[q] # User[p]
    /\ utmp[q].active /\ utmp[q].mode \notin {"page", "five"} /\ Alive(q)
    /\ uin' = [uin EXCEPT ![p] = q]
    /\ Goto(p, "ask")
    /\ UNCHANGED <<uinfo, utmp, talkrequest, kind, ui, fd, answer, sock, pages, mixed, leaked>>

GiveUp(p) ==
    /\ pc[p] = "ask" /\ Goto(p, "back")
    /\ UNCHANGED <<uinfo, utmp, talkrequest, local, sock, pages>>

\* Variant: every page is published as a talk.
page_as_talk(p, k) == LET n == pages + 1 IN
    /\ pc[p] = "ask" /\ n \in Ports
    /\ pages' = n
    /\ sock' = [sock EXCEPT ![n].owner = p]
    /\ SetMode(p, [uinfo[p] EXCEPT !.sockactive = TRUE, !.sockaddr = n,
                                   !.destuid = User[uin[p]]], "page")
    /\ kind' = [kind EXCEPT ![p] = k]
    /\ Goto(p, "ring")
    /\ Quiet /\ UNCHANGED <<uin, ui, fd, answer, mixed, leaked>>

Page(p, k) == LET n == pages + 1 IN
    /\ pc[p] = "ask" /\ n \in Ports
    /\ pages' = n
    /\ sock' = [sock EXCEPT ![n].owner = p]
    /\ SetMode(p, [uinfo[p] EXCEPT !.sockactive = TRUE, !.sockaddr = n,
                                   !.destuid = User[uin[p]]],
               IF k = "five" THEN "page_five" ELSE "page")
    /\ kind' = [kind EXCEPT ![p] = k]
    /\ Goto(p, "ring")
    /\ Quiet /\ UNCHANGED <<uin, ui, fd, answer, mixed, leaked>>

\* kill(uin.pid, SIGUSR1)
Signal(q) == talkrequest' = [talkrequest EXCEPT ![q] = @ \/ Alive(q)]

Ring(p) ==
    /\ pc[p] = "ring" /\ Signal(uin[p]) /\ Goto(p, "listen")
    /\ UNCHANGED <<uinfo, utmp, local, sock, pages>>

Listen(p) ==
    /\ pc[p] = "listen"
    /\ sock' = [sock EXCEPT ![Port(p)].open = TRUE]
    /\ Goto(p, "wait")
    /\ Quiet /\ UNCHANGED <<uinfo, utmp, local, pages>>

Waiting(p) == pc[p] = "wait" /\ sock[Port(p)].backlog = <<>>

\* After 20 seconds it rings again; a callee who left ends the wait, and the
\* port is left open.
RingAgain(p) ==
    /\ Waiting(p) /\ Alive(uin[p]) /\ Signal(uin[p])
    /\ UNCHANGED <<uinfo, utmp, pc, local, sock, pages>>

CalleeLeft(p) ==
    /\ Waiting(p) /\ ~Alive(uin[p])
    /\ Keep(p, Hide(uinfo[p])) /\ Goto(p, "back")
    /\ leaked' = leaked \cup {Port(p)}
    /\ Quiet /\ UNCHANGED <<uin, kind, ui, fd, answer, mixed, sock, pages>>

Cancel(p) ==
    /\ Waiting(p)
    /\ sock' = Close(Port(p))
    /\ Keep(p, Hide(uinfo[p])) /\ Goto(p, "back")
    /\ Quiet /\ UNCHANGED <<local, pages>>

\* Variant: the port stays open, and the rest of its backlog waits for ever.
accept_unclosed(p) == LET n == Port(p) IN
    /\ pc[p] = "wait" /\ sock[n].backlog # <<>>
    /\ sock' = [sock EXCEPT ![n].peer = Head(sock[n].backlog)]
    /\ Keep(p, Deaf(uinfo[p])) /\ Goto(p, "read")
    /\ Quiet /\ UNCHANGED <<local, pages>>

Accept(p) == LET n == Port(p) IN
    /\ pc[p] = "wait" /\ sock[n].backlog # <<>>
    /\ sock' = [sock EXCEPT ![n].open = FALSE, ![n].backlog = <<>>,
                            ![n].peer = Head(sock[n].backlog)]
    /\ Keep(p, Deaf(uinfo[p])) /\ Goto(p, "read")
    /\ Quiet /\ UNCHANGED <<local, pages>>

\* One byte; when the other end is gone read leaves c as it was.
CanRead(p) == pc[p] = "read" /\ (sock[Port(p)].sent[Peer(p)] # "" \/ CallerCut(p))
Read(p) == IF sock[Port(p)].sent[Peer(p)] # ""
           THEN {sock[Port(p)].sent[Peer(p)]} ELSE {"y", "n", "other"}

Refused(p) ==
    /\ CanRead(p) /\ Read(p) \cap {"n", "m"} # {}
    /\ sock' = Close(Port(p))
    /\ Keep(p, Hide(uinfo[p])) /\ Goto(p, "back")
    /\ Quiet /\ UNCHANGED <<local, pages>>

\* An unknown byte is taken for a talk.
Accepted(p) ==
    /\ CanRead(p)
    /\ \E c \in Read(p) \ {"n", "m"} :
        LET k == IF c = "other" THEN "talk" ELSE kind[p] IN
        /\ kind' = [kind EXCEPT ![p] = k]
        /\ SetMode(p, uinfo[p], k)
    /\ Goto(p, "session")
    /\ Quiet /\ UNCHANGED <<uin, ui, fd, answer, sock, pages, mixed, leaked>>

-----------------------------------------------------------------------------
(* do_talk and five_pk.  A talk puts the old mode back; a game leaves that
   to the menu.  Both ends leave at a key or at the end of the stream. *)
OldMode(p) == IF IsCaller(p)
              THEN IF kind[p] = "five" THEN "page_five" ELSE "page"
              ELSE "menu"

Leave(p) ==
    LET e == IF uinfo[p].mode = "talk"
             THEN [uinfo[p] EXCEPT !.mode = OldMode(p)] ELSE uinfo[p] IN
    /\ utmp' = [utmp EXCEPT ![p] = IF uinfo[p].mode = "talk" THEN e ELSE @]
    /\ uinfo' = [uinfo EXCEPT ![p] = IF IsCaller(p) THEN [e EXCEPT !.destuid = 0] ELSE e]
    /\ sock' = IF IsCaller(p) THEN Close(Port(p)) ELSE sock
    /\ fd' = [fd EXCEPT ![p] = 0]
    /\ Goto(p, "back")
    /\ Quiet /\ UNCHANGED <<uin, kind, ui, answer, pages, mixed, leaked>>

Quit(p) == pc[p] = "session" /\ Leave(p)
PeerGone(p) == pc[p] = "session" /\ Cut(p) /\ Leave(p)

\* A page met in a talk: servicepage only shows it, but takes over its uid.
ServicePage(p) ==
    LET s == cmpunums(p) IN
    /\ pc[p] = "session" /\ uinfo[p].mode = "talk" /\ talkrequest[p]
    /\ IF s # Nobody /\ utmp[s].sockactive
       THEN Keep(p, [uinfo[p] EXCEPT !.destuid = User[s]]) /\ Quiet
       ELSE /\ talkrequest' = [talkrequest EXCEPT ![p] = FALSE]
            /\ UNCHANGED <<uinfo, utmp>>
    /\ UNCHANGED <<pc, local, sock, pages>>

\* Variant: the mode of the command just left stays.
back_silently(p) ==
    /\ pc[p] = "back" /\ Forget(p) /\ Goto(p, "idle")
    /\ Quiet /\ UNCHANGED <<uinfo, utmp, sock, pages, leaked>>

\* The menu, or the user list, that the command came from.  The old port
\* number is read by nobody while sockactive is NA.
Back(p) ==
    /\ pc[p] = "back"
    /\ SetMode(p, [uinfo[p] EXCEPT !.sockaddr = 0], "menu")
    /\ Forget(p) /\ Goto(p, "idle")
    /\ Quiet /\ UNCHANGED <<sock, pages, leaked>>

-----------------------------------------------------------------------------
(* The callee: talkreply, from the menu's egetch. *)
TalkReply(p) ==
    LET s == cmpunums(p) IN
    /\ pc[p] = "idle" /\ talkrequest[p]
    /\ talkrequest' = [talkrequest EXCEPT ![p] = FALSE]
    /\ IF s # Nobody /\ utmp[s].sockactive
       THEN /\ Keep(p, [uinfo[p] EXCEPT !.destuid = User[s]])
            /\ ui' = [ui EXCEPT ![p] = [slot |-> s, port |-> utmp[s].sockaddr]]
            /\ Goto(p, "who")
       ELSE UNCHANGED <<uinfo, utmp, ui, pc>>
    /\ UNCHANGED <<uin, kind, fd, answer, sock, pages, mixed, leaked>>

\* The second search, for the mode.  Finding nobody it ends on the last,
\* empty slot of the table.
WhoCallsMe(p) ==
    LET s == who_callme(p, User[ui[p].slot]) IN
    /\ pc[p] = "who"
    /\ Keep(p, [uinfo[p] EXCEPT !.destuid = IF s = Nobody THEN 0 ELSE User[s]])
    /\ kind' = [kind EXCEPT ![p] =
                  IF s # Nobody /\ utmp[s].mode = "page_five" THEN "five" ELSE "talk"]
    /\ mixed' = IF s = ui[p].slot THEN mixed \ {p} ELSE mixed \cup {p}
    /\ Goto(p, "prompt")
    /\ Quiet /\ UNCHANGED <<uin, ui, fd, answer, leaked, sock, pages>>

\* listen(sock, 1) lets two calls wait; past that, connecting times out.  Of
\* one process the model keeps one call in a backlog.
Reachable(p, n) ==
    sock[n].open /\ Len(sock[n].backlog) < 2 /\ ~Contains(sock[n].backlog, p)

\* The answer is given, then the call is made to the port that was copied.
Dial(p, c) == LET n == ui[p].port IN
    /\ pc[p] = "prompt" /\ Reachable(p, n)
    /\ sock' = [sock EXCEPT ![n].backlog = Append(@, p)]
    /\ fd' = [fd EXCEPT ![p] = n]
    /\ answer' = [answer EXCEPT ![p] = c]
    /\ Goto(p, IF c = "m" THEN "reason" ELSE "write")
    /\ Quiet /\ UNCHANGED <<uinfo, utmp, uin, kind, ui, pages, mixed, leaked>>

\* Variant: a key that is no answer is sent as it is.
connect_raw(p, key) == Dial(p, key)

\* Any key but a refusal is a yes.
Connect(p, key) == Dial(p, IF key \in {"n", "m"} THEN key ELSE "y")

NoConnection(p) ==
    /\ pc[p] = "prompt" /\ ~Reachable(p, ui[p].port)
    /\ Goto(p, "back")
    /\ UNCHANGED <<uinfo, utmp, talkrequest, local, sock, pages>>

Reason(p) ==
    /\ pc[p] = "reason" /\ Goto(p, "write")
    /\ UNCHANGED <<uinfo, utmp, talkrequest, local, sock, pages>>

Write(p) ==
    /\ pc[p] = "write"
    /\ sock' = IF AnswererCut(p) THEN sock
               ELSE [sock EXCEPT ![fd[p]].sent[p] = answer[p]]
    /\ IF answer[p] = "y"
       THEN /\ SetMode(p, uinfo[p], kind[p]) /\ Goto(p, "session")
            /\ UNCHANGED fd
       ELSE /\ fd' = [fd EXCEPT ![p] = 0] /\ Goto(p, "back")
            /\ UNCHANGED <<uinfo, utmp>>
    /\ Quiet /\ UNCHANGED <<uin, kind, ui, answer, pages, mixed, leaked>>

-----------------------------------------------------------------------------
(* t_query names the user it shows in destuid as well. *)
Query(p, u) ==
    /\ p \in Curious /\ pc[p] = "idle" /\ ~talkrequest[p]
    /\ Publish(p, [uinfo[p] EXCEPT !.mode = "query", !.destuid = u])
    /\ Goto(p, "query")
    /\ Quiet /\ UNCHANGED <<local, sock, pages>>

QueryEnd(p) ==
    /\ pc[p] = "query"
    /\ Keep(p, [uinfo[p] EXCEPT !.destuid = 0]) /\ Goto(p, "back")
    /\ Quiet /\ UNCHANGED <<local, sock, pages>>

\* abort_bbs, u_exit: the entry is cleared, the kernel closes the sockets.
AtKey == {"idle", "ask", "wait", "session", "query", "prompt", "reason"}
HangUp(p) ==
    /\ pc[p] \in AtKey
    /\ Publish(p, [Hide(uinfo[p]) EXCEPT !.active = FALSE, !.sockaddr = 0])
    /\ sock' = [n \in Ports |-> IF sock[n].owner = p THEN Closed ELSE sock[n]]
    /\ Forget(p) /\ Goto(p, "gone")
    /\ talkrequest' = [talkrequest EXCEPT ![p] = FALSE]
    /\ UNCHANGED <<pages, leaked>>

\* What the program goes on with by itself, and what users do.
Step(p) ==
    \/ Ring(p) \/ Listen(p) \/ Accept(p) \/ Refused(p) \/ Accepted(p)
    \/ CalleeLeft(p) \/ PeerGone(p) \/ ServicePage(p) \/ Back(p)
    \/ TalkReply(p) \/ WhoCallsMe(p) \/ NoConnection(p) \/ Write(p)

Keys(p) ==
    \/ Choose(p) \/ GiveUp(p) \/ \E k \in Kinds : Page(p, k)
    \/ RingAgain(p) \/ Cancel(p) \/ Quit(p)
    \/ \E key \in Bytes \cup {"other"} : Connect(p, key)
    \/ Reason(p)
    \/ \E u \in Uids \ {User[p]} : Query(p, u)
    \/ QueryEnd(p) \/ HangUp(p)

Next == \E p \in Slots : Step(p) \/ Keys(p)
Spec == Init /\ [][Next]_vars
FairSpec == Spec /\ \A p \in Slots : WF_vars(Step(p)) /\ WF_vars(PeerGone(p))

-----------------------------------------------------------------------------
\* While a page is out, the entry the others see is the one of that page:
\* modify_user_mode publishes nothing when the mode is already the new one.
Announced == \A p \in Slots : pc[p] \in {"ring", "listen", "wait"} =>
    /\ utmp[p].active /\ utmp[p].sockactive
    /\ utmp[p].sockaddr = Port(p) /\ utmp[p].destuid = User[uin[p]]
    /\ utmp[p].mode = IF kind[p] = "five" THEN "page_five" ELSE "page"

\* Somebody at the caller's end will take, or has taken, this answerer's call.
Attended(q) == LET p == sock[fd[q]].owner IN
    /\ p \in Slots /\ Port(p) = fd[q]
    /\ \/ pc[p] \in {"ring", "listen", "wait"}
       \/ pc[p] \in {"read", "session"} /\ Peer(p) = q

\* However late the answer, and whatever the caller did meanwhile, it reaches
\* only a process that is paging the answerer's account.
CallerCalled == \A q \in Slots : fd[q] # 0 /\ Attended(q) =>
    User[uin[sock[fd[q]].owner]] = User[q]

\* Both ends of a session run the same program ("solve the one of 2 line call
\* sb. to five problem", who_callme), unless another line of the caller's came
\* in between the answerer's two searches.
SameKind == \A q \in Slots :
    pc[q] = "session" /\ fd[q] # 0 /\ Attended(q) =>
        LET p == sock[fd[q]].owner IN
        pc[p] = "session" => kind[p] = kind[q] \/ q \in mixed

\* Who has said yes meets its caller in the session, or leaves it again: only
\* on a port that a caller left open an answerer may wait for ever.
Together(q) == LET p == sock[fd[q]].owner IN Attended(q) /\ pc[p] = "session"
YesIsHeard == \A q \in Slots :
    (pc[q] = "session" /\ fd[q] \in Ports \ leaked) ~>
        (pc[q] # "session" \/ fd[q] \in leaked \cup {0} \/ Together(q))
=============================================================================
