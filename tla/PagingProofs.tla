----------------------------- MODULE PagingProofs -----------------------------
(* What the others see of a page is that page, a late answer reaches only  *)
(* its caller, and both ends of a session run the same program: for any    *)
(* number of processes, accounts and ports.                                *)
EXTENDS Paging, WellFoundedInduction, TLAPS

(***************************************************************************)
(* Announced speaks of the entry the others see while a page is out.  The  *)
(* entry a process keeps may differ from it, because modify_user_mode      *)
(* publishes only a change of mode.  So the invariant has the two equal    *)
(* during a page, and the mode of the menu before one: that is why setting *)
(* the mode of a page always publishes the port and the uid with it.       *)
(***************************************************************************)
Paging_ == {"ring", "listen", "wait"}

Fields(e) ==
    e = [active |-> e.active, mode |-> e.mode, sockactive |-> e.sockactive,
         sockaddr |-> e.sockaddr, destuid |-> e.destuid]

Tables ==
    /\ uinfo = [p \in Slots |-> uinfo[p]] /\ utmp = [p \in Slots |-> utmp[p]]
    /\ pc = [p \in Slots |-> pc[p]]
    /\ uin = [p \in Slots |-> uin[p]] /\ kind = [p \in Slots |-> kind[p]]

\* The page of p is out as p has it.
PageOf(p) ==
    /\ uinfo[p].sockactive /\ uinfo[p].destuid = User[uin[p]]
    /\ uinfo[p].mode = IF kind[p] = "five" THEN "page_five" ELSE "page"
    /\ utmp[p] = uinfo[p]

Own(p) ==
    /\ Fields(uinfo[p])
    /\ pc[p] # "gone" => uinfo[p].active
    /\ pc[p] \in {"idle", "ask"} => uinfo[p].mode = "menu"
    /\ pc[p] \in Paging_ => PageOf(p)

PageInv == Tables /\ \A p \in Slots : Own(p)

-----------------------------------------------------------------------------
(* A process changes its own entries and locals only. *)
Alone(p) == \A q \in Slots \ {p} :
    /\ uinfo'[q] = uinfo[q] /\ utmp'[q] = utmp[q] /\ pc'[q] = pc[q]
    /\ uin'[q] = uin[q] /\ kind'[q] = kind[q]

LEMMA AloneKeeps ==
    ASSUME PageInv, NEW p \in Slots, Tables', Alone(p), Own(p)'
    PROVE  PageInv'
BY DEF PageInv, Alone, Own, Fields, PageOf

(* Steps that leave the entries, or hide the page, and lead to no page. *)
Elsewhere == Stages \ ({"idle", "ask"} \cup Paging_)

LEMMA KeepElsewhere ==
    ASSUME PageInv, NEW p \in Slots, NEW l \in Elsewhere, NEW e, Fields(e),
           l # "gone" => e.active,
           uinfo' = [uinfo EXCEPT ![p] = e],
           utmp' = utmp \/ \E f : utmp' = [utmp EXCEPT ![p] = f],
           pc' = [pc EXCEPT ![p] = l],
           uin' = uin \/ \E f : uin' = [uin EXCEPT ![p] = f],
           kind' = kind \/ \E f : kind' = [kind EXCEPT ![p] = f]
    PROVE  PageInv'
<1>1. Tables'
    BY DEF PageInv, Tables
<1>2. Alone(p)
    BY DEF PageInv, Tables, Alone
<1>3. uinfo'[p] = e /\ pc'[p] = l
    BY DEF PageInv, Tables
<1>4. Own(p)'
    BY <1>3 DEF Own, Fields, Elsewhere, Paging_
<1> QED
    BY <1>1, <1>2, <1>4, AloneKeeps

(* Writing one field of an entry leaves the others. *)
LEMMA OneField ==
    ASSUME NEW e, Fields(e), NEW v
    PROVE  /\ [e EXCEPT !.active = v] = [active |-> v, mode |-> e.mode,
                  sockactive |-> e.sockactive, sockaddr |-> e.sockaddr, destuid |-> e.destuid]
           /\ [e EXCEPT !.mode = v] = [active |-> e.active, mode |-> v,
                  sockactive |-> e.sockactive, sockaddr |-> e.sockaddr, destuid |-> e.destuid]
           /\ [e EXCEPT !.sockactive = v] = [active |-> e.active, mode |-> e.mode,
                  sockactive |-> v, sockaddr |-> e.sockaddr, destuid |-> e.destuid]
           /\ [e EXCEPT !.sockaddr = v] = [active |-> e.active, mode |-> e.mode,
                  sockactive |-> e.sockactive, sockaddr |-> v, destuid |-> e.destuid]
           /\ [e EXCEPT !.destuid = v] = [active |-> e.active, mode |-> e.mode,
                  sockactive |-> e.sockactive, sockaddr |-> e.sockaddr, destuid |-> v]
BY DEF Fields

LEMMA Hidden ==
    ASSUME NEW e, Fields(e)
    PROVE  /\ Fields(Hide(e)) /\ Hide(e).active = e.active /\ Hide(e).mode = e.mode
           /\ ~Hide(e).sockactive /\ Hide(e).sockaddr = e.sockaddr
           /\ Fields(Deaf(e)) /\ Deaf(e).active = e.active /\ Deaf(e).mode = e.mode
           /\ ~Deaf(e).sockactive /\ Deaf(e).sockaddr = e.sockaddr
<1> DEFINE d == [e EXCEPT !.sockactive = FALSE]
<1>1. Fields(d) /\ d.active = e.active /\ d.mode = e.mode
      /\ ~d.sockactive /\ d.sockaddr = e.sockaddr
    BY OneField DEF Fields
<1> HIDE DEF d
<1>2. LET h == [d EXCEPT !.destuid = 0]
      IN  Fields(h) /\ h.active = d.active /\ h.mode = d.mode
          /\ h.sockactive = d.sockactive /\ h.sockaddr = d.sockaddr
    BY <1>1, OneField DEF Fields
<1>3. Deaf(e) = d
    BY DEF Deaf, d
<1>4. Hide(e) = [d EXCEPT !.destuid = 0]
    BY DEF Hide, d
<1> QED
    BY <1>1, <1>2, <1>3, <1>4

(* A process moves to where no page is out, its own entry untouched. *)
LEMMA MoveElsewhere ==
    ASSUME PageInv, NEW p \in Slots, Alive(p), NEW l \in Elsewhere, l # "gone",
           UNCHANGED <<uinfo, utmp>>, pc' = [pc EXCEPT ![p] = l],
           uin' = uin \/ \E f : uin' = [uin EXCEPT ![p] = f],
           kind' = kind \/ \E f : kind' = [kind EXCEPT ![p] = f]
    PROVE  PageInv'
<1>1. Tables'
    BY DEF PageInv, Tables
<1>2. Alone(p)
    BY DEF PageInv, Tables, Alone
<1>3. uinfo'[p] = uinfo[p] /\ pc'[p] = l
    BY DEF PageInv, Tables
<1>4. Own(p)'
    BY <1>3 DEF PageInv, Own, Fields, Elsewhere, Paging_, Alive
<1> QED
    BY <1>1, <1>2, <1>4, AloneKeeps

(* Nothing an invariant of pages speaks of moves. *)
LEMMA Same ==
    ASSUME PageInv, UNCHANGED <<uinfo, utmp, pc, uin, kind>>
    PROVE  PageInv'
BY DEF PageInv, Tables, Own, Fields, PageOf

LEMMA InitPageInv == Init => PageInv
<1> SUFFICES ASSUME Init PROVE PageInv
    OBVIOUS
<1>1. Tables
    BY DEF Init, Tables
<1>2. \A p \in Slots : Own(p)
    BY DEF Init, Own, Fields, Empty, Paging_
<1> QED
    BY <1>1, <1>2 DEF PageInv

-----------------------------------------------------------------------------
(* The caller up to the end of its wait. *)
LEMMA CallerKeeps ==
    ASSUME PageInv, NEW p \in Slots,
           Choose(p) \/ GiveUp(p) \/ (\E k \in Kinds : Page(p, k)) \/ Ring(p)
           \/ Listen(p) \/ RingAgain(p) \/ CalleeLeft(p) \/ Cancel(p) \/ Accept(p)
    PROVE  PageInv'
<1>o. Own(p) /\ Tables
    BY DEF PageInv
<1>h. Fields(Hide(uinfo[p])) /\ Hide(uinfo[p]).active = uinfo[p].active
      /\ Fields(Deaf(uinfo[p])) /\ Deaf(uinfo[p]).active = uinfo[p].active
    BY <1>o, Hidden DEF Own
<1>1. CASE Choose(p)
    <2>1. Tables' /\ Alone(p)
        BY <1>1, <1>o DEF Choose, Goto, Tables, Alone
    <2>2. Own(p)'
        BY <1>1, <1>o DEF Choose, Goto, Tables, Own, Fields, Paging_
    <2> QED
        BY <2>1, <2>2, AloneKeeps
<1>2. CASE GiveUp(p)
    BY <1>2, MoveElsewhere DEF GiveUp, Goto, local, Alive, Elsewhere, Stages, Paging_
<1>3. CASE \E k \in Kinds : Page(p, k)
    <2>1. PICK k \in Kinds : Page(p, k)
        BY <1>3
    <2> DEFINE m == IF k = "five" THEN "page_five" ELSE "page"
               e == [uinfo[p] EXCEPT !.sockactive = TRUE, !.sockaddr = pages + 1,
                                     !.destuid = User[uin[p]]]
               f == [e EXCEPT !.mode = m]
    <2>2. uinfo[p].mode = "menu" /\ uinfo[p].active
        BY <2>1, <1>o DEF Page, Own
    <2>3. e.mode # m
        BY <2>2, <1>o DEF Own, Fields
    <2>4. Publish(p, f)
        BY <2>1, <2>3 DEF Page, SetMode
    <2>5. /\ Fields(f) /\ f.active /\ f.sockactive
          /\ f.destuid = User[uin[p]] /\ f.mode = m
        <3> DEFINE a == [uinfo[p] EXCEPT !.sockactive = TRUE]
                   b == [a EXCEPT !.sockaddr = pages + 1]
        <3>1. Fields(a) /\ a.active /\ a.sockactive
            <4>1. Fields(uinfo[p])
                BY <1>o DEF Own
            <4>2. a = [active |-> uinfo[p].active, mode |-> uinfo[p].mode,
                       sockactive |-> TRUE, sockaddr |-> uinfo[p].sockaddr,
                       destuid |-> uinfo[p].destuid]
                BY <4>1, OneField
            <4> QED
                BY <4>2, <2>2 DEF Fields
        <3>2. e = [b EXCEPT !.destuid = User[uin[p]]]
            OBVIOUS
        <3> HIDE DEF a
        <3>3. Fields(b) /\ b.active /\ b.sockactive
            <4>1. b = [active |-> a.active, mode |-> a.mode,
                       sockactive |-> a.sockactive, sockaddr |-> pages + 1,
                       destuid |-> a.destuid]
                BY <3>1, OneField
            <4> QED
                BY <4>1, <3>1 DEF Fields
        <3> HIDE DEF b, e
        <3>4. Fields(e) /\ e.active /\ e.sockactive /\ e.destuid = User[uin[p]]
            BY <3>2, <3>3, OneField DEF Fields
        <3> HIDE DEF m
        <3>5. f = [active |-> e.active, mode |-> m, sockactive |-> e.sockactive,
                   sockaddr |-> e.sockaddr, destuid |-> e.destuid]
            BY <3>4, OneField
        <3> HIDE DEF f
        <3> QED
            BY <3>4, <3>5 DEF Fields
    <2> HIDE DEF f, m
    <2>6. Tables' /\ Alone(p)
        BY <2>1, <2>4, <1>o DEF Page, Publish, Goto, Tables, Alone
    <2>7. uinfo'[p] = f /\ utmp'[p] = f /\ pc'[p] = "ring" /\ kind'[p] = k
          /\ uin' = uin
        BY <2>1, <2>4, <1>o DEF Page, Publish, Goto, Tables
    <2>8. Own(p)'
        BY <2>5, <2>7 DEF Own, PageOf, Fields, Paging_, m
    <2> QED
        BY <2>6, <2>8, AloneKeeps
<1>4. CASE Ring(p) \/ Listen(p)
    <2>1. Tables' /\ Alone(p)
        BY <1>4, <1>o DEF Ring, Listen, Goto, local, Tables, Alone
    <2>2. Own(p)'
        BY <1>4, <1>o DEF Ring, Listen, Goto, local, Tables, Own, Fields, PageOf, Paging_
    <2> QED
        BY <2>1, <2>2, AloneKeeps
<1>5. CASE RingAgain(p)
    BY <1>5, Same DEF RingAgain, local
<1>6. CASE CalleeLeft(p) \/ Cancel(p)
    BY <1>6, <1>o, <1>h, KeepElsewhere
       DEF CalleeLeft, Cancel, Waiting, Keep, Goto, local, Elsewhere, Stages, Paging_, Own
<1>7. CASE Accept(p)
    BY <1>7, <1>o, <1>h, KeepElsewhere
       DEF Accept, Keep, Goto, local, Elsewhere, Stages, Paging_, Own
<1> QED
    BY <1>1, <1>2, <1>3, <1>4, <1>5, <1>6, <1>7

-----------------------------------------------------------------------------
(* modify_user_mode leaves f, the entry e with the mode asked for. *)
ModeSet(p, e, m, f) ==
    /\ Fields(f) /\ f.active = e.active /\ f.mode = m
    /\ f.sockactive = e.sockactive /\ f.sockaddr = e.sockaddr
    /\ uinfo' = [uinfo EXCEPT ![p] = f]
    /\ utmp' = utmp \/ utmp' = [utmp EXCEPT ![p] = f]

LEMMA ModeIsSet ==
    ASSUME NEW p, NEW e, Fields(e), NEW m, SetMode(p, e, m)
    PROVE  \E f : ModeSet(p, e, m, f)
<1>1. CASE e.mode = m
    BY <1>1 DEF SetMode, Keep, ModeSet
<1>2. CASE e.mode # m
    <2> DEFINE f == [e EXCEPT !.mode = m]
    <2>1. f = [active |-> e.active, mode |-> m, sockactive |-> e.sockactive,
               sockaddr |-> e.sockaddr, destuid |-> e.destuid]
        BY OneField
    <2>2. /\ Fields(f) /\ f.active = e.active /\ f.mode = m
          /\ f.sockactive = e.sockactive /\ f.sockaddr = e.sockaddr
        BY <2>1 DEF Fields
    <2>3. Publish(p, f)
        BY <1>2 DEF SetMode
    <2> HIDE DEF f
    <2> QED
        BY <2>2, <2>3 DEF Publish, ModeSet
<1> QED
    BY <1>1, <1>2

LEMMA DestIsSet ==
    ASSUME NEW e, Fields(e), NEW v
    PROVE  LET f == [e EXCEPT !.destuid = v]
           IN  /\ Fields(f) /\ f.active = e.active /\ f.mode = e.mode
               /\ f.sockactive = e.sockactive /\ f.sockaddr = e.sockaddr
<1> DEFINE f == [e EXCEPT !.destuid = v]
<1>1. f = [active |-> e.active, mode |-> e.mode, sockactive |-> e.sockactive,
           sockaddr |-> e.sockaddr, destuid |-> v]
    BY OneField
<1> QED
    BY <1>1 DEF Fields

(* The end of a page, a session, and the way back to the menu. *)
LEMMA SessionKeeps ==
    ASSUME PageInv, NEW p \in Slots,
           Refused(p) \/ Accepted(p) \/ Quit(p) \/ PeerGone(p) \/ ServicePage(p) \/ Back(p)
    PROVE  PageInv'
<1>o. Own(p) /\ Tables /\ Fields(uinfo[p])
    BY DEF PageInv, Own
<1>1. CASE Refused(p)
    <2>1. Fields(Hide(uinfo[p])) /\ Hide(uinfo[p]).active = uinfo[p].active
        BY <1>o, Hidden
    <2> QED
        BY <1>1, <1>o, <2>1, KeepElsewhere
           DEF Refused, CanRead, Keep, Goto, local, Elsewhere, Stages, Paging_, Own
<1>2. CASE Accepted(p)
    <2>1. PICK k : SetMode(p, uinfo[p], k) /\ kind' = [kind EXCEPT ![p] = k]
        BY <1>2 DEF Accepted
    <2>2. PICK f : ModeSet(p, uinfo[p], k, f)
        BY <2>1, <1>o, ModeIsSet
    <2>3. f.active /\ pc' = [pc EXCEPT ![p] = "session"] /\ uin' = uin
        BY <1>2, <1>o, <2>2 DEF Accepted, CanRead, Goto, Own, ModeSet
    <2> QED
        BY <2>1, <2>2, <2>3, KeepElsewhere DEF ModeSet, Elsewhere, Stages, Paging_
<1>3. CASE Quit(p) \/ PeerGone(p)
    <2>1. Leave(p) /\ pc[p] = "session"
        BY <1>3 DEF Quit, PeerGone
    <2> DEFINE e == IF uinfo[p].mode = "talk"
                    THEN [uinfo[p] EXCEPT !.mode = OldMode(p)] ELSE uinfo[p]
               f == IF IsCaller(p) THEN [e EXCEPT !.destuid = 0] ELSE e
    <2>2. Fields(e) /\ e.active = uinfo[p].active
        <3>1. [uinfo[p] EXCEPT !.mode = OldMode(p)] =
                [active |-> uinfo[p].active, mode |-> OldMode(p),
                 sockactive |-> uinfo[p].sockactive, sockaddr |-> uinfo[p].sockaddr,
                 destuid |-> uinfo[p].destuid]
            BY <1>o, OneField
        <3> QED
            BY <3>1, <1>o DEF Fields
    <2>3. uinfo' = [uinfo EXCEPT ![p] = f] /\ \E g : utmp' = [utmp EXCEPT ![p] = g]
        BY <2>1 DEF Leave
    <2> HIDE DEF e
    <2>4. Fields(f) /\ f.active
        BY <2>1, <2>2, <1>o, DestIsSet DEF Own
    <2>5. pc' = [pc EXCEPT ![p] = "back"] /\ uin' = uin /\ kind' = kind
        BY <2>1 DEF Leave, Goto
    <2> HIDE DEF f
    <2> QED
        BY <2>3, <2>4, <2>5, KeepElsewhere DEF Elsewhere, Stages, Paging_
<1>4. CASE ServicePage(p)
    <2>1. pc[p] = "session" /\ pc' = pc /\ uin' = uin /\ kind' = kind /\ utmp' = utmp
        BY <1>4 DEF ServicePage, Keep, local
    <2>2. pc' = [pc EXCEPT ![p] = "session"]
        BY <2>1, <1>o DEF Tables
    <2>3. CASE UNCHANGED uinfo
        BY <2>1, <2>3, Same
    <2>4. CASE \E u : uinfo' = [uinfo EXCEPT ![p] = [uinfo[p] EXCEPT !.destuid = u]]
        <3>1. PICK u : uinfo' = [uinfo EXCEPT ![p] = [uinfo[p] EXCEPT !.destuid = u]]
            BY <2>4
        <3> DEFINE f == [uinfo[p] EXCEPT !.destuid = u]
        <3>2. Fields(f) /\ f.active
            BY <1>o, <2>1, DestIsSet DEF Own
        <3> HIDE DEF f
        <3> QED
            BY <3>1, <3>2, <2>1, <2>2, KeepElsewhere DEF Elsewhere, Stages, Paging_, f
    <2> QED
        BY <1>4, <2>3, <2>4 DEF ServicePage, Keep
<1>5. CASE Back(p)
    <2> DEFINE e == [uinfo[p] EXCEPT !.sockaddr = 0]
    <2>1. e = [active |-> uinfo[p].active, mode |-> uinfo[p].mode,
               sockactive |-> uinfo[p].sockactive, sockaddr |-> 0,
               destuid |-> uinfo[p].destuid]
        BY <1>o, OneField
    <2>2. Fields(e) /\ e.active
        BY <1>5, <1>o, <2>1 DEF Back, Own, Fields
    <2>3. SetMode(p, e, "menu")
        BY <1>5 DEF Back
    <2> HIDE DEF e
    <2>4. PICK f : ModeSet(p, e, "menu", f)
        BY <2>2, <2>3, ModeIsSet
    <2>5. Tables' /\ Alone(p)
        BY <1>5, <1>o, <2>4 DEF Back, Forget, Goto, Tables, Alone, ModeSet
    <2>6. uinfo'[p] = f /\ pc'[p] = "idle"
        BY <1>5, <1>o, <2>4 DEF Back, Goto, Tables, ModeSet
    <2>7. Own(p)'
        BY <2>2, <2>4, <2>6 DEF Own, Fields, Paging_, ModeSet
    <2> QED
        BY <2>5, <2>7, AloneKeeps
<1> QED
    BY <1>1, <1>2, <1>3, <1>4, <1>5

-----------------------------------------------------------------------------
(* The answerer, who names the caller in its entry without publishing it. *)
LEMMA AnswerKeeps ==
    ASSUME PageInv, NEW p \in Slots,
           TalkReply(p) \/ WhoCallsMe(p) \/ (\E key \in Bytes \cup {"other"} : Connect(p, key))
           \/ NoConnection(p) \/ Reason(p) \/ Write(p)
    PROVE  PageInv'
<1>o. Own(p) /\ Tables /\ Fields(uinfo[p])
    BY DEF PageInv, Own
<1>1. CASE TalkReply(p)
    <2>1. pc[p] = "idle" /\ uin' = uin /\ kind' = kind
        BY <1>1 DEF TalkReply
    <2>2. CASE UNCHANGED <<uinfo, utmp, pc>>
        BY <2>1, <2>2, Same
    <2>3. CASE /\ \E u : Keep(p, [uinfo[p] EXCEPT !.destuid = u])
               /\ Goto(p, "who")
        <3>1. PICK u : Keep(p, [uinfo[p] EXCEPT !.destuid = u])
            BY <2>3
        <3> DEFINE f == [uinfo[p] EXCEPT !.destuid = u]
        <3>2. Fields(f) /\ f.active
            BY <1>o, <2>1, DestIsSet DEF Own
        <3> HIDE DEF f
        <3> QED
            BY <3>1, <3>2, <2>1, <2>3, KeepElsewhere
               DEF Keep, Goto, Elsewhere, Stages, Paging_, f
    <2> QED
        BY <1>1, <2>2, <2>3 DEF TalkReply
<1>2. CASE WhoCallsMe(p)
    <2>1. PICK u, k : /\ Keep(p, [uinfo[p] EXCEPT !.destuid = u])
                      /\ kind' = [kind EXCEPT ![p] = k]
        BY <1>2 DEF WhoCallsMe
    <2>2. pc[p] = "who" /\ pc' = [pc EXCEPT ![p] = "prompt"] /\ uin' = uin
        BY <1>2 DEF WhoCallsMe, Goto
    <2> DEFINE f == [uinfo[p] EXCEPT !.destuid = u]
    <2>3. Fields(f) /\ f.active
        BY <1>o, <2>2, DestIsSet DEF Own
    <2> HIDE DEF f
    <2> QED
        BY <2>1, <2>2, <2>3, KeepElsewhere DEF Keep, Elsewhere, Stages, Paging_, f
<1>3. CASE \E key \in Bytes \cup {"other"} : Connect(p, key)
    <2>1. PICK l \in {"reason", "write"} : Goto(p, l)
        BY <1>3 DEF Connect, Dial
    <2>2. Alive(p) /\ UNCHANGED <<uinfo, utmp, uin, kind>>
        BY <1>3 DEF Connect, Dial, Alive
    <2> QED
        BY <2>1, <2>2, MoveElsewhere DEF Goto, Elsewhere, Stages, Paging_
<1>4. CASE NoConnection(p) \/ Reason(p)
    BY <1>4, MoveElsewhere
       DEF NoConnection, Reason, Goto, local, Alive, Elsewhere, Stages, Paging_
<1>5. CASE Write(p)
    <2>1. pc[p] = "write" /\ uin' = uin /\ kind' = kind
        BY <1>5 DEF Write
    <2>2. CASE SetMode(p, uinfo[p], kind[p]) /\ Goto(p, "session")
        <3>1. PICK f : ModeSet(p, uinfo[p], kind[p], f)
            BY <2>2, <1>o, ModeIsSet
        <3>2. f.active /\ pc' = [pc EXCEPT ![p] = "session"]
            BY <2>1, <2>2, <3>1, <1>o DEF Own, Goto, ModeSet
        <3> QED
            BY <2>1, <3>1, <3>2, KeepElsewhere DEF ModeSet, Elsewhere, Stages, Paging_
    <2>3. CASE Goto(p, "back") /\ UNCHANGED <<uinfo, utmp>>
        BY <2>1, <2>3, MoveElsewhere DEF Goto, Alive, Elsewhere, Stages, Paging_
    <2> QED
        BY <1>5, <2>2, <2>3 DEF Write
<1> QED
    BY <1>1, <1>2, <1>3, <1>4, <1>5

(* A user looked up, and the end of a process. *)
LEMMA OthersKeep ==
    ASSUME PageInv, NEW p \in Slots,
           (\E u \in Uids \ {User[p]} : Query(p, u)) \/ QueryEnd(p) \/ HangUp(p)
    PROVE  PageInv'
<1>o. Own(p) /\ Tables /\ Fields(uinfo[p])
    BY DEF PageInv, Own
<1>1. CASE \E u \in Uids \ {User[p]} : Query(p, u)
    <2>1. PICK u : Query(p, u)
        BY <1>1
    <2> DEFINE e == [uinfo[p] EXCEPT !.mode = "query"]
               f == [e EXCEPT !.destuid = u]
    <2>2. Publish(p, f) /\ pc[p] = "idle"
        BY <2>1 DEF Query
    <2>3. e = [active |-> uinfo[p].active, mode |-> "query",
               sockactive |-> uinfo[p].sockactive, sockaddr |-> uinfo[p].sockaddr,
               destuid |-> uinfo[p].destuid]
        BY <1>o, OneField
    <2>4. Fields(e) /\ e.active
        BY <2>2, <2>3, <1>o DEF Own, Fields
    <2> HIDE DEF e
    <2>5. Fields(f) /\ f.active
        BY <2>4, DestIsSet
    <2>6. pc' = [pc EXCEPT ![p] = "query"] /\ uin' = uin /\ kind' = kind
        BY <2>1 DEF Query, Goto, local
    <2> HIDE DEF f
    <2> QED
        BY <2>2, <2>5, <2>6, KeepElsewhere DEF Publish, Elsewhere, Stages, Paging_
<1>2. CASE QueryEnd(p)
    <2> DEFINE f == [uinfo[p] EXCEPT !.destuid = 0]
    <2>1. Fields(f) /\ f.active
        BY <1>2, <1>o, DestIsSet DEF QueryEnd, Own
    <2>2. Keep(p, f) /\ Goto(p, "back") /\ uin' = uin /\ kind' = kind
        BY <1>2 DEF QueryEnd, local
    <2> HIDE DEF f
    <2> QED
        BY <2>1, <2>2, KeepElsewhere DEF Keep, Goto, Elsewhere, Stages, Paging_
<1>3. CASE HangUp(p)
    <2> DEFINE h == Hide(uinfo[p])
               e == [h EXCEPT !.active = FALSE]
               f == [e EXCEPT !.sockaddr = 0]
    <2>1. Publish(p, f)
        BY <1>3 DEF HangUp
    <2>2. Fields(h)
        BY <1>o, Hidden
    <2> HIDE DEF h
    <2>3. Fields(e)
        <3>1. e = [active |-> FALSE, mode |-> h.mode, sockactive |-> h.sockactive,
                   sockaddr |-> h.sockaddr, destuid |-> h.destuid]
            BY <2>2, OneField
        <3> QED
            BY <3>1 DEF Fields
    <2> HIDE DEF e
    <2>4. Fields(f)
        <3>1. f = [active |-> e.active, mode |-> e.mode, sockactive |-> e.sockactive,
                   sockaddr |-> 0, destuid |-> e.destuid]
            BY <2>3, OneField
        <3> QED
            BY <3>1 DEF Fields
    <2>5. /\ pc' = [pc EXCEPT ![p] = "gone"]
          /\ uin' = [uin EXCEPT ![p] = Nobody] /\ kind' = [kind EXCEPT ![p] = "talk"]
        BY <1>3 DEF HangUp, Forget, Goto
    <2> HIDE DEF f
    <2> QED
        BY <2>1, <2>4, <2>5, KeepElsewhere DEF Publish, Elsewhere, Stages, Paging_
<1> QED
    BY <1>1, <1>2, <1>3

-----------------------------------------------------------------------------
LEMMA StepPageInv == PageInv /\ [Next]_vars => PageInv'
<1> SUFFICES ASSUME PageInv, [Next]_vars PROVE PageInv'
    OBVIOUS
<1>1. CASE Next
    <2>1. PICK p \in Slots : Step(p) \/ Keys(p)
        BY <1>1 DEF Next
    <2>2. CASE Step(p)
        BY <2>2, CallerKeeps, SessionKeeps, AnswerKeeps DEF Step
    <2>3. CASE Keys(p)
        BY <2>3, CallerKeeps, SessionKeeps, AnswerKeeps, OthersKeep DEF Keys
    <2> QED
        BY <2>1, <2>2, <2>3
<1>2. CASE UNCHANGED vars
    BY <1>2, Same DEF vars, local
<1> QED
    BY <1>1, <1>2

LEMMA PageInvAnnounces == PageInv => Announced
BY DEF PageInv, Own, PageOf, Paging_, Announced, Port

(***************************************************************************)
(* While a process pages (talk.c: talk), the entry update_utmp put in the  *)
(* shared table is the one of that page: active, with the port, the uid    *)
(* and the mode of it.  For any processes, accounts and number of pages,   *)
(* through answers, cancelled pages, queries and hang-ups.                 *)
(***************************************************************************)
THEOREM AnnouncedHolds == Spec => []Announced
<1>1. Init => PageInv
    BY InitPageInv
<1>2. PageInv /\ [Next]_vars => PageInv'
    BY StepPageInv
<1>3. PageInv => Announced
    BY PageInvAnnounces
<1> QED
    BY <1>1, <1>2, <1>3, PTL DEF Spec

-----------------------------------------------------------------------------
(***************************************************************************)
(* Late answers.  An answerer connects to the port it copied when it found *)
(* the page, while the caller may have cancelled and paged somebody else.  *)
(* A port is never given out again, so who still has the port in hand is   *)
(* still after the account it published with it: that is Apart, for the    *)
(* copies, and Shown, for the entry they are made from.                    *)
(***************************************************************************)
Numbered(p) ==
    /\ {uinfo[p].sockaddr, utmp[p].sockaddr, ui[p].port} \subseteq 0 .. pages
    /\ fd[p] \in {0, ui[p].port} /\ (pc[p] = "idle" => fd[p] = 0)

Shown(p) ==
    /\ pc[p] \in {"idle", "ask"} => uinfo[p].sockaddr = 0
    /\ uinfo[p].sockactive => pc[p] \in Paging_
    /\ utmp[p].sockactive /\ utmp[p].sockaddr = uinfo[p].sockaddr /\ uinfo[p].sockaddr # 0
         => utmp[p].destuid = User[uin[p]]

Apart(p, q) == uinfo[p].sockaddr # 0 =>
    /\ p # q => uinfo[p].sockaddr \notin {uinfo[q].sockaddr, utmp[q].sockaddr}
    /\ ui[q].port = uinfo[p].sockaddr => User[uin[p]] = User[q]

CallInv ==
    /\ PageInv /\ pages \in Nat
    /\ ui = [p \in Slots |-> ui[p]] /\ fd = [p \in Slots |-> fd[p]]
    /\ \A p \in Slots : Numbered(p) /\ Shown(p)
    /\ \A p, q \in Slots : Apart(p, q)

LEMMA InitCallInv == Init => CallInv
<1> SUFFICES ASSUME Init PROVE CallInv
    OBVIOUS
<1>1. PageInv
    BY InitPageInv
<1>2. pages \in Nat /\ ui = [p \in Slots |-> ui[p]] /\ fd = [p \in Slots |-> fd[p]]
    BY DEF Init
<1>3. \A p \in Slots : Numbered(p) /\ Shown(p)
    BY DEF Init, Numbered, Shown, Empty, NoCall, Paging_
<1>4. \A p, q \in Slots : Apart(p, q)
    BY DEF Init, Apart, Empty
<1> QED
    BY <1>1, <1>2, <1>3, <1>4 DEF CallInv

LEMMA CallSame ==
    ASSUME CallInv, PageInv', UNCHANGED <<uinfo, utmp, pc, uin, ui, fd, pages>>
    PROVE  CallInv'
BY DEF CallInv, Numbered, Shown, Apart

(* Only the locals of p change. *)
Locally(p) ==
    /\ Alone(p)
    /\ \A q \in Slots \ {p} : ui'[q] = ui[q] /\ fd'[q] = fd[q]
    /\ ui' = [q \in Slots |-> ui'[q]] /\ fd' = [q \in Slots |-> fd'[q]]

(* What every step but Page and TalkReply does: the port in hand stays or  *)
(* is dropped, and what is published of it is no page.                     *)
Quieter(p) ==
    /\ pages' = pages
    /\ uinfo'[p].sockaddr \in {uinfo[p].sockaddr, 0}
    /\ uinfo'[p].sockactive => pc'[p] \in Paging_
    /\ pc'[p] \in {"idle", "ask"} => uinfo'[p].sockaddr = 0
    /\ \/ utmp'[p] = utmp[p]
       \/ utmp'[p].sockaddr \in {uinfo[p].sockaddr, 0} /\ ~utmp'[p].sockactive
    /\ uin'[p] = uin[p] \/ uinfo'[p].sockaddr = 0
    /\ ui'[p].port \in {ui[p].port, 0} /\ fd'[p] \in {0, ui'[p].port}
    /\ pc'[p] = "idle" => fd'[p] = 0

LEMMA QuieterKeeps ==
    ASSUME CallInv, PageInv', NEW p \in Slots, Locally(p), Quieter(p)
    PROVE  CallInv'
<1>1. pages' \in Nat /\ (ui = [q \in Slots |-> ui[q]])' /\ (fd = [q \in Slots |-> fd[q]])'
    BY DEF CallInv, Quieter, Locally
<1>2. \A q \in Slots : Numbered(q)'
    <2> SUFFICES ASSUME NEW q \in Slots PROVE Numbered(q)'
        OBVIOUS
    <2>1. CASE q # p
        BY <2>1 DEF CallInv, Numbered, Locally, Alone, Quieter
    <2>2. CASE q = p
        BY <2>2 DEF CallInv, Numbered, Quieter
    <2> QED
        BY <2>1, <2>2
<1>3. \A q \in Slots : Shown(q)'
    <2> SUFFICES ASSUME NEW q \in Slots PROVE Shown(q)'
        OBVIOUS
    <2>1. CASE q # p
        BY <2>1 DEF CallInv, Shown, Locally, Alone
    <2>2. CASE q = p
        BY <2>2 DEF CallInv, Shown, Quieter
    <2> QED
        BY <2>1, <2>2
<1>4. \A q, r \in Slots : Apart(q, r)'
    <2> SUFFICES ASSUME NEW q \in Slots, NEW r \in Slots PROVE Apart(q, r)'
        OBVIOUS
    <2>1. CASE q # p /\ r # p
        BY <2>1 DEF CallInv, Apart, Locally, Alone
    <2>2. CASE q = p /\ r # p
        BY <2>2 DEF CallInv, Apart, Locally, Alone, Quieter
    <2>3. CASE q # p /\ r = p
        BY <2>3 DEF CallInv, Apart, Locally, Alone, Quieter
    <2>4. CASE q = p /\ r = p
        BY <2>4 DEF CallInv, Apart, Quieter
    <2> QED
        BY <2>1, <2>2, <2>3, <2>4
<1> QED
    BY <1>1, <1>2, <1>3, <1>4 DEF CallInv

(* A new port is one that nobody has a copy of. *)
LEMMA PageCalls ==
    ASSUME CallInv, PageInv', NEW p \in Slots, NEW k \in Kinds, Page(p, k)
    PROVE  CallInv'
<1>1. /\ pages' = pages + 1 /\ pages' \in Nat /\ uin' = uin /\ ui' = ui /\ fd' = fd
      /\ pc[p] = "ask" /\ pc' = [pc EXCEPT ![p] = "ring"]
    BY DEF Page, Goto, CallInv
<1>2. PageOf(p)' /\ pc'[p] = "ring"
    BY <1>1 DEF PageInv, Tables, Own, Paging_, CallInv
<1>3. uinfo'[p].sockaddr = pages + 1
    <2> DEFINE e == [uinfo[p] EXCEPT !.sockactive = TRUE, !.sockaddr = pages + 1,
                                     !.destuid = User[uin[p]]]
    <2>1. \E m : SetMode(p, e, m)
        BY DEF Page
    <2>2. e.sockaddr = pages + 1 /\ Fields(e)
        <3>1. Fields(uinfo[p])
            BY DEF CallInv, PageInv, Own
        <3> DEFINE a == [uinfo[p] EXCEPT !.sockactive = TRUE]
                   b == [a EXCEPT !.sockaddr = pages + 1]
        <3>2. a = [active |-> uinfo[p].active, mode |-> uinfo[p].mode,
                   sockactive |-> TRUE, sockaddr |-> uinfo[p].sockaddr,
                   destuid |-> uinfo[p].destuid]
            BY <3>1, OneField
        <3>3. Fields(a)
            BY <3>2 DEF Fields
        <3>4. e = [b EXCEPT !.destuid = User[uin[p]]]
            OBVIOUS
        <3> HIDE DEF a
        <3>5. b = [active |-> a.active, mode |-> a.mode, sockactive |-> a.sockactive,
                   sockaddr |-> pages + 1, destuid |-> a.destuid]
            BY <3>3, OneField
        <3>6. Fields(b) /\ b.sockaddr = pages + 1
            BY <3>5 DEF Fields
        <3> HIDE DEF b, e
        <3> QED
            BY <3>4, <3>6, DestIsSet
    <2> HIDE DEF e
    <2>3. \E m, f : ModeSet(p, e, m, f)
        BY <2>1, <2>2, ModeIsSet
    <2> QED
        BY <2>2, <2>3 DEF ModeSet, CallInv, PageInv, Tables
<1>4. Locally(p)
    BY <1>1 DEF Page, SetMode, Keep, Publish, Locally, Alone, CallInv, PageInv, Tables
<1>5. \A q \in Slots : Numbered(q)' /\ Shown(q)'
    <2> SUFFICES ASSUME NEW q \in Slots PROVE Numbered(q)' /\ Shown(q)'
        OBVIOUS
    <2>1. CASE q # p
        BY <1>1, <1>4, <2>1 DEF CallInv, Numbered, Shown, Locally, Alone
    <2>2. CASE q = p
        BY <1>1, <1>2, <1>3, <2>2 DEF CallInv, Numbered, Shown, PageOf, Paging_
    <2> QED
        BY <2>1, <2>2
<1>6. \A q, r \in Slots : Apart(q, r)'
    <2> SUFFICES ASSUME NEW q \in Slots, NEW r \in Slots PROVE Apart(q, r)'
        OBVIOUS
    <2>1. utmp'[p].sockaddr = pages + 1
        BY <1>2, <1>3 DEF PageOf
    <2>2. CASE q # p /\ r # p
        BY <1>1, <1>4, <2>2 DEF CallInv, Apart, Locally, Alone
    <2>3. CASE q = p
        BY <1>1, <1>3, <1>4, <2>3 DEF CallInv, Apart, Numbered, Locally, Alone
    <2>4. CASE q # p /\ r = p
        BY <1>1, <1>3, <1>4, <2>1, <2>4 DEF CallInv, Apart, Numbered, Locally, Alone
    <2> QED
        BY <2>2, <2>3, <2>4
<1> QED
    BY <1>1, <1>4, <1>5, <1>6 DEF CallInv, Locally

(* The search of the table ends on an entry that fits, or on nobody. *)
LEMMA FirstFits ==
    ASSUME NEW S \in SUBSET Slots, S # {}
    PROVE  First(S) \in S
<1> DEFINE R == OpToRel(<, Nat)
<1>1. S \subseteq Nat
    BY SlotsAssumption
<1>2. \A x, y \in S : x < y => <<x, y>> \in R
    BY <1>1 DEF OpToRel
<1> HIDE DEF R
<1>3. IsWellFoundedOn(R, Nat)
    BY NatLessThanWellFounded DEF R
<1>4. \E x \in S : \A y \in S : <<y, x>> \notin R
    BY <1>1, <1>3, WFMin
<1>5. \E x \in S : \A y \in S : x =< y
    <2>1. PICK x \in S : \A y \in S : <<y, x>> \notin R
        BY <1>4
    <2>2. \A y \in S : ~(y < x)
        BY <1>2, <2>1
    <2>3. \A y \in S : x =< y
        BY <1>1, <2>2
    <2> QED
        BY <2>3
<1> QED
    BY <1>5 DEF First, Min

LEMMA Framed ==
    ASSUME CallInv, NEW p \in Slots,
           uinfo' = uinfo \/ \E f : uinfo' = [uinfo EXCEPT ![p] = f],
           utmp' = utmp \/ \E f : utmp' = [utmp EXCEPT ![p] = f],
           pc' = pc \/ \E f : pc' = [pc EXCEPT ![p] = f],
           uin' = uin \/ \E f : uin' = [uin EXCEPT ![p] = f],
           kind' = kind \/ \E f : kind' = [kind EXCEPT ![p] = f],
           ui' = ui \/ \E f : ui' = [ui EXCEPT ![p] = f],
           fd' = fd \/ \E f : fd' = [fd EXCEPT ![p] = f]
    PROVE  Locally(p)
BY DEF CallInv, PageInv, Tables, Locally, Alone

(* What the answerer copies is the page of somebody after its account. *)
LEMMA ReplyCalls ==
    ASSUME CallInv, PageInv', NEW p \in Slots, TalkReply(p)
    PROVE  CallInv'
<1> DEFINE s == cmpunums(p)
<1>1. /\ pages' = pages /\ uin' = uin /\ kind' = kind /\ fd' = fd
      /\ pc[p] = "idle"
    BY DEF TalkReply
<1>2. CASE UNCHANGED <<uinfo, utmp, ui, pc>>
    BY <1>1, <1>2, CallSame
<1>3. CASE /\ s # Nobody /\ utmp[s].sockactive
           /\ Keep(p, [uinfo[p] EXCEPT !.destuid = User[s]])
           /\ ui' = [ui EXCEPT ![p] = [slot |-> s, port |-> utmp[s].sockaddr]]
           /\ Goto(p, "who")
    <2> DEFINE e == [uinfo[p] EXCEPT !.destuid = User[s]]
    <2>1. s \in Slots /\ utmp[s].destuid = User[p]
        <3>1. CallersOf(User[p]) # {}
            BY <1>3 DEF cmpunums, First
        <3>2. s \in CallersOf(User[p])
            BY <3>1, FirstFits DEF cmpunums, CallersOf
        <3> QED
            BY <3>2 DEF CallersOf
    <2>2. e.sockaddr = uinfo[p].sockaddr /\ e.sockactive = uinfo[p].sockactive
        BY DestIsSet DEF CallInv, PageInv, Own
    <2>3. Keep(p, e)
        BY <1>3
    <2> HIDE DEF e, s
    <2>4. Locally(p)
        BY <1>1, <1>3, <2>3, Framed DEF Keep, Goto
    <2>5. /\ uinfo'[p].sockaddr = 0 /\ ~uinfo'[p].sockactive /\ utmp' = utmp
          /\ ui'[p].port = utmp[s].sockaddr /\ pc'[p] = "who"
        BY <1>1, <1>3, <2>2, <2>3 DEF Keep, Goto, CallInv, PageInv, Tables, Shown, Paging_
    <2>6. fd'[p] = 0
        BY <1>1 DEF CallInv, Numbered
    <2>7. \A q \in Slots : Numbered(q)' /\ Shown(q)'
        <3> SUFFICES ASSUME NEW q \in Slots PROVE Numbered(q)' /\ Shown(q)'
            OBVIOUS
        <3>1. CASE q # p
            BY <1>1, <2>4, <3>1 DEF CallInv, Numbered, Shown, Locally, Alone
        <3>2. CASE q = p
            BY <1>1, <2>1, <2>5, <2>6, <3>2 DEF CallInv, Numbered, Shown, Paging_
        <3> QED
            BY <3>1, <3>2
    <2>8. \A q, r \in Slots : Apart(q, r)'
        <3> SUFFICES ASSUME NEW q \in Slots, NEW r \in Slots PROVE Apart(q, r)'
            OBVIOUS
        <3>1. CASE q = p
            BY <2>5, <3>1 DEF Apart
        <3>2. CASE q # p /\ r # p
            BY <1>1, <2>4, <3>2 DEF CallInv, Apart, Locally, Alone
        <3>3. CASE q # p /\ r = p
            <4>1. /\ uinfo'[q] = uinfo[q] /\ uin' = uin
                  /\ uinfo[q].sockaddr # 0 =>
                        uinfo[q].sockaddr \notin {uinfo[p].sockaddr, utmp[p].sockaddr}
                BY <1>1, <2>4, <3>3 DEF CallInv, Apart, Locally, Alone
            <4>2. ASSUME uinfo[q].sockaddr # 0, utmp[s].sockaddr = uinfo[q].sockaddr
                  PROVE  User[uin[q]] = User[p]
                <5>1. s = q
                    BY <2>1, <4>2 DEF CallInv, Apart
                <5> QED
                    BY <1>3, <2>1, <4>2, <5>1 DEF CallInv, Shown
            <4> QED
                BY <2>5, <3>3, <4>1, <4>2 DEF Apart
        <3> QED
            BY <3>1, <3>2, <3>3
    <2> QED
        BY <1>1, <2>4, <2>7, <2>8 DEF CallInv, Locally
<1> QED
    BY <1>2, <1>3 DEF TalkReply

(* The caller around its page: the port it has in hand is hidden again. *)
LEMMA CallerCalls ==
    ASSUME CallInv, PageInv', NEW p \in Slots,
           Choose(p) \/ GiveUp(p) \/ Ring(p) \/ Listen(p) \/ RingAgain(p)
           \/ CalleeLeft(p) \/ Cancel(p) \/ Accept(p) \/ Refused(p)
    PROVE  CallInv'
<1>o. /\ Tables /\ Fields(uinfo[p]) /\ Numbered(p) /\ Shown(p)
      /\ ui = [q \in Slots |-> ui[q]] /\ fd = [q \in Slots |-> fd[q]]
    BY DEF CallInv, PageInv, Own
<1>1. CASE Choose(p)
    <2>1. Locally(p)
        BY <1>1, Framed DEF Choose, Goto
    <2>2. Quieter(p)
        BY <1>1, <1>o DEF Choose, Goto, Tables, Shown, Numbered, Paging_, Quieter
    <2> QED
        BY <2>1, <2>2, QuieterKeeps
<1>2. CASE GiveUp(p) \/ Ring(p) \/ Listen(p)
    <2>1. Locally(p)
        BY <1>2, Framed DEF GiveUp, Ring, Listen, Goto, local
    <2>2. Quieter(p)
        BY <1>2, <1>o
           DEF GiveUp, Ring, Listen, Goto, local, Tables, Shown, Numbered, Paging_, Quieter
    <2> QED
        BY <2>1, <2>2, QuieterKeeps
<1>3. CASE RingAgain(p)
    BY <1>3, CallSame DEF RingAgain, local
<1>4. CASE CalleeLeft(p) \/ Cancel(p) \/ Accept(p) \/ Refused(p)
    <2>1. PICK e \in {Hide(uinfo[p]), Deaf(uinfo[p])}, l \in {"back", "read"} :
              Keep(p, e) /\ Goto(p, l)
        BY <1>4 DEF CalleeLeft, Cancel, Accept, Refused
    <2>2. UNCHANGED <<uin, kind, ui, fd, pages>>
        BY <1>4 DEF CalleeLeft, Cancel, Accept, Refused, local
    <2>3. Locally(p)
        BY <2>1, <2>2, Framed DEF Keep, Goto
    <2>4. ~e.sockactive /\ e.sockaddr = uinfo[p].sockaddr
        BY <1>o, Hidden
    <2>5. Quieter(p)
        BY <1>o, <2>1, <2>2, <2>4 DEF Keep, Goto, Tables, Numbered, Quieter
    <2> QED
        BY <2>3, <2>5, QuieterKeeps
<1> QED
    BY <1>1, <1>2, <1>3, <1>4

(* A session, and the menu after it, where the port is forgotten. *)
LEMMA SessionCalls ==
    ASSUME CallInv, PageInv', NEW p \in Slots,
           Accepted(p) \/ Quit(p) \/ PeerGone(p) \/ ServicePage(p) \/ Back(p)
    PROVE  CallInv'
<1>o. /\ Tables /\ Fields(uinfo[p]) /\ Numbered(p) /\ Shown(p)
      /\ ui = [q \in Slots |-> ui[q]] /\ fd = [q \in Slots |-> fd[q]]
    BY DEF CallInv, PageInv, Own
<1>1. CASE Accepted(p)
    <2>1. PICK k : SetMode(p, uinfo[p], k) /\ kind' = [kind EXCEPT ![p] = k]
        BY <1>1 DEF Accepted
    <2>2. PICK f : ModeSet(p, uinfo[p], k, f)
        BY <2>1, <1>o, ModeIsSet
    <2>3. UNCHANGED <<uin, ui, fd, pages>> /\ pc[p] = "read" /\ Goto(p, "session")
        BY <1>1 DEF Accepted, CanRead
    <2>4. Locally(p)
        BY <2>1, <2>2, <2>3, Framed DEF ModeSet, Goto
    <2>5. Quieter(p)
        BY <1>o, <2>2, <2>3 DEF ModeSet, Goto, Tables, Numbered, Shown, Paging_, Quieter
    <2> QED
        BY <2>4, <2>5, QuieterKeeps
<1>2. CASE Quit(p) \/ PeerGone(p)
    <2>1. Leave(p) /\ pc[p] = "session"
        BY <1>2 DEF Quit, PeerGone
    <2> DEFINE e == IF uinfo[p].mode = "talk"
                    THEN [uinfo[p] EXCEPT !.mode = OldMode(p)] ELSE uinfo[p]
               f == IF IsCaller(p) THEN [e EXCEPT !.destuid = 0] ELSE e
    <2>2. Fields(e) /\ e.sockaddr = uinfo[p].sockaddr /\ e.sockactive = uinfo[p].sockactive
        <3>1. [uinfo[p] EXCEPT !.mode = OldMode(p)] =
                [active |-> uinfo[p].active, mode |-> OldMode(p),
                 sockactive |-> uinfo[p].sockactive, sockaddr |-> uinfo[p].sockaddr,
                 destuid |-> uinfo[p].destuid]
            BY <1>o, OneField
        <3> QED
            BY <3>1, <1>o DEF Fields
    <2>3. /\ uinfo' = [uinfo EXCEPT ![p] = f]
          /\ utmp' = [utmp EXCEPT ![p] = IF uinfo[p].mode = "talk" THEN e ELSE @]
          /\ fd' = [fd EXCEPT ![p] = 0] /\ Goto(p, "back") /\ UNCHANGED <<uin, kind, ui, pages>>
        BY <2>1 DEF Leave
    <2> HIDE DEF e
    <2>4. f.sockaddr = uinfo[p].sockaddr /\ f.sockactive = uinfo[p].sockactive
        BY <2>2, DestIsSet
    <2> HIDE DEF f
    <2>5. Locally(p)
        BY <2>3, Framed DEF Goto
    <2>6. ~uinfo[p].sockactive
        BY <1>o, <2>1 DEF Shown, Paging_
    <2>7. Quieter(p)
        BY <1>o, <2>2, <2>3, <2>4, <2>6 DEF Goto, Tables, Numbered, Quieter
    <2> QED
        BY <2>5, <2>7, QuieterKeeps
<1>3. CASE ServicePage(p)
    <2>1. UNCHANGED <<pc, utmp, uin, kind, ui, fd, pages>> /\ pc[p] = "session"
        BY <1>3 DEF ServicePage, Keep, local
    <2>2. CASE UNCHANGED uinfo
        BY <2>1, <2>2, CallSame
    <2>3. CASE \E u : uinfo' = [uinfo EXCEPT ![p] = [uinfo[p] EXCEPT !.destuid = u]]
        <3>1. PICK u : uinfo' = [uinfo EXCEPT ![p] = [uinfo[p] EXCEPT !.destuid = u]]
            BY <2>3
        <3> DEFINE f == [uinfo[p] EXCEPT !.destuid = u]
        <3>2. f.sockaddr = uinfo[p].sockaddr /\ f.sockactive = uinfo[p].sockactive
            BY <1>o, DestIsSet
        <3>3. uinfo' = [uinfo EXCEPT ![p] = f]
            BY <3>1
        <3> HIDE DEF f
        <3>4. Locally(p)
            BY <2>1, <3>3, Framed
        <3>5. Quieter(p)
            BY <1>o, <2>1, <3>2, <3>3 DEF Tables, Numbered, Shown, Paging_, Quieter
        <3> QED
            BY <3>4, <3>5, QuieterKeeps
    <2> QED
        BY <1>3, <2>2, <2>3 DEF ServicePage, Keep
<1>4. CASE Back(p)
    <2> DEFINE e == [uinfo[p] EXCEPT !.sockaddr = 0]
    <2>1. e = [active |-> uinfo[p].active, mode |-> uinfo[p].mode,
               sockactive |-> uinfo[p].sockactive, sockaddr |-> 0,
               destuid |-> uinfo[p].destuid]
        BY <1>o, OneField
    <2>2. Fields(e) /\ e.sockaddr = 0 /\ ~e.sockactive
        BY <1>4, <1>o, <2>1 DEF Back, Shown, Paging_, Fields
    <2>3. SetMode(p, e, "menu")
        BY <1>4 DEF Back
    <2> HIDE DEF e
    <2>4. PICK f : ModeSet(p, e, "menu", f)
        BY <2>2, <2>3, ModeIsSet
    <2>5. /\ uin' = [uin EXCEPT ![p] = Nobody] /\ kind' = [kind EXCEPT ![p] = "talk"]
          /\ ui' = [ui EXCEPT ![p] = NoCall] /\ fd' = [fd EXCEPT ![p] = 0]
          /\ Goto(p, "idle") /\ pages' = pages
        BY <1>4 DEF Back, Forget
    <2>6. Locally(p)
        BY <2>4, <2>5, Framed DEF ModeSet, Goto
    <2>7. Quieter(p)
        BY <1>o, <2>2, <2>4, <2>5 DEF ModeSet, Goto, Tables, NoCall, Quieter
    <2> QED
        BY <2>6, <2>7, QuieterKeeps
<1> QED
    BY <1>1, <1>2, <1>3, <1>4

(* The answerer connects to the port it copied, or to none. *)
LEMMA AnswerCalls ==
    ASSUME CallInv, PageInv', NEW p \in Slots,
           WhoCallsMe(p) \/ (\E key \in Bytes \cup {"other"} : Connect(p, key))
           \/ NoConnection(p) \/ Reason(p) \/ Write(p)
    PROVE  CallInv'
<1>o. /\ Tables /\ Fields(uinfo[p]) /\ Numbered(p) /\ Shown(p)
      /\ ui = [q \in Slots |-> ui[q]] /\ fd = [q \in Slots |-> fd[q]]
    BY DEF CallInv, PageInv, Own
<1>1. CASE WhoCallsMe(p)
    <2>1. PICK u, k : /\ Keep(p, [uinfo[p] EXCEPT !.destuid = u])
                      /\ kind' = [kind EXCEPT ![p] = k]
        BY <1>1 DEF WhoCallsMe
    <2>2. pc[p] = "who" /\ Goto(p, "prompt") /\ UNCHANGED <<uin, ui, fd, pages>>
        BY <1>1 DEF WhoCallsMe
    <2> DEFINE f == [uinfo[p] EXCEPT !.destuid = u]
    <2>3. f.sockaddr = uinfo[p].sockaddr /\ f.sockactive = uinfo[p].sockactive
        BY <1>o, DestIsSet
    <2>4. uinfo' = [uinfo EXCEPT ![p] = f] /\ utmp' = utmp
        BY <2>1 DEF Keep
    <2> HIDE DEF f
    <2>5. Locally(p)
        BY <2>1, <2>2, <2>4, Framed DEF Goto
    <2>6. Quieter(p)
        BY <1>o, <2>2, <2>3, <2>4 DEF Goto, Tables, Numbered, Shown, Paging_, Quieter
    <2> QED
        BY <2>5, <2>6, QuieterKeeps
<1>2. CASE \E key \in Bytes \cup {"other"} : Connect(p, key)
    <2>1. PICK l \in {"reason", "write"} : Goto(p, l)
        BY <1>2 DEF Connect, Dial
    <2>2. /\ pc[p] = "prompt" /\ fd' = [fd EXCEPT ![p] = ui[p].port]
          /\ UNCHANGED <<uinfo, utmp, uin, kind, ui, pages>>
        BY <1>2 DEF Connect, Dial
    <2>3. Locally(p)
        BY <2>1, <2>2, Framed DEF Goto
    <2>4. Quieter(p)
        BY <1>o, <2>1, <2>2 DEF Goto, Tables, Shown, Paging_, Quieter
    <2> QED
        BY <2>3, <2>4, QuieterKeeps
<1>3. CASE NoConnection(p) \/ Reason(p)
    <2>1. Locally(p)
        BY <1>3, Framed DEF NoConnection, Reason, Goto, local
    <2>2. Quieter(p)
        BY <1>3, <1>o
           DEF NoConnection, Reason, Goto, local, Tables, Shown, Numbered, Paging_, Quieter
    <2> QED
        BY <2>1, <2>2, QuieterKeeps
<1>4. CASE Write(p)
    <2>1. pc[p] = "write" /\ UNCHANGED <<uin, kind, ui, pages>>
        BY <1>4 DEF Write
    <2>2. CASE SetMode(p, uinfo[p], kind[p]) /\ Goto(p, "session") /\ UNCHANGED fd
        <3>1. PICK f : ModeSet(p, uinfo[p], kind[p], f)
            BY <2>2, <1>o, ModeIsSet
        <3>2. Locally(p)
            BY <2>1, <2>2, <3>1, Framed DEF ModeSet, Goto
        <3>3. Quieter(p)
            BY <1>o, <2>1, <2>2, <3>1
               DEF ModeSet, Goto, Tables, Numbered, Shown, Paging_, Quieter
        <3> QED
            BY <3>2, <3>3, QuieterKeeps
    <2>3. CASE /\ fd' = [fd EXCEPT ![p] = 0] /\ Goto(p, "back")
               /\ UNCHANGED <<uinfo, utmp>>
        <3>1. Locally(p)
            BY <2>1, <2>3, Framed DEF Goto
        <3>2. Quieter(p)
            BY <1>o, <2>1, <2>3 DEF Goto, Tables, Shown, Paging_, Quieter
        <3> QED
            BY <3>1, <3>2, QuieterKeeps
    <2> QED
        BY <1>4, <2>2, <2>3 DEF Write
<1> QED
    BY <1>1, <1>2, <1>3, <1>4

LEMMA OthersCall ==
    ASSUME CallInv, PageInv', NEW p \in Slots,
           (\E u \in Uids \ {User[p]} : Query(p, u)) \/ QueryEnd(p) \/ HangUp(p)
    PROVE  CallInv'
<1>o. /\ Tables /\ Fields(uinfo[p]) /\ Numbered(p) /\ Shown(p)
      /\ ui = [q \in Slots |-> ui[q]] /\ fd = [q \in Slots |-> fd[q]]
    BY DEF CallInv, PageInv, Own
<1>1. CASE \E u \in Uids \ {User[p]} : Query(p, u)
    <2>1. PICK u : Query(p, u)
        BY <1>1
    <2> DEFINE e == [uinfo[p] EXCEPT !.mode = "query"]
               f == [e EXCEPT !.destuid = u]
    <2>2. Publish(p, f) /\ pc[p] = "idle" /\ Goto(p, "query")
          /\ UNCHANGED <<uin, kind, ui, fd, pages>>
        BY <2>1 DEF Query, local
    <2>3. e = [active |-> uinfo[p].active, mode |-> "query",
               sockactive |-> uinfo[p].sockactive, sockaddr |-> uinfo[p].sockaddr,
               destuid |-> uinfo[p].destuid]
        BY <1>o, OneField
    <2>4. Fields(e) /\ e.sockaddr = 0 /\ ~e.sockactive
        BY <2>2, <2>3, <1>o DEF Shown, Paging_, Fields
    <2> HIDE DEF e
    <2>5. f.sockaddr = 0 /\ ~f.sockactive
        BY <2>4, DestIsSet
    <2> HIDE DEF f
    <2>6. Locally(p)
        BY <2>2, Framed DEF Publish, Goto
    <2>7. Quieter(p)
        BY <1>o, <2>2, <2>5 DEF Publish, Goto, Tables, Numbered, Quieter
    <2> QED
        BY <2>6, <2>7, QuieterKeeps
<1>2. CASE QueryEnd(p)
    <2> DEFINE f == [uinfo[p] EXCEPT !.destuid = 0]
    <2>1. f.sockaddr = uinfo[p].sockaddr /\ f.sockactive = uinfo[p].sockactive
        BY <1>o, DestIsSet
    <2>2. /\ Keep(p, f) /\ pc[p] = "query" /\ Goto(p, "back")
          /\ UNCHANGED <<uin, kind, ui, fd, pages>>
        BY <1>2 DEF QueryEnd, local
    <2> HIDE DEF f
    <2>3. Locally(p)
        BY <2>2, Framed DEF Keep, Goto
    <2>4. Quieter(p)
        BY <1>o, <2>1, <2>2 DEF Keep, Goto, Tables, Numbered, Shown, Paging_, Quieter
    <2> QED
        BY <2>3, <2>4, QuieterKeeps
<1>3. CASE HangUp(p)
    <2> DEFINE h == Hide(uinfo[p])
               e == [h EXCEPT !.active = FALSE]
               f == [e EXCEPT !.sockaddr = 0]
    <2>1. Publish(p, f)
        BY <1>3 DEF HangUp
    <2>2. Fields(h) /\ ~h.sockactive
        BY <1>o, Hidden
    <2> HIDE DEF h
    <2>3. Fields(e) /\ ~e.sockactive
        <3>1. e = [active |-> FALSE, mode |-> h.mode, sockactive |-> h.sockactive,
                   sockaddr |-> h.sockaddr, destuid |-> h.destuid]
            BY <2>2, OneField
        <3> QED
            BY <2>2, <3>1 DEF Fields
    <2> HIDE DEF e
    <2>4. ~f.sockactive /\ f.sockaddr = 0
        <3>1. f = [active |-> e.active, mode |-> e.mode, sockactive |-> e.sockactive,
                   sockaddr |-> 0, destuid |-> e.destuid]
            BY <2>3, OneField
        <3> QED
            BY <2>3, <3>1
    <2>5. /\ uin' = [uin EXCEPT ![p] = Nobody] /\ kind' = [kind EXCEPT ![p] = "talk"]
          /\ ui' = [ui EXCEPT ![p] = NoCall] /\ fd' = [fd EXCEPT ![p] = 0]
          /\ Goto(p, "gone") /\ pages' = pages
        BY <1>3 DEF HangUp, Forget
    <2> HIDE DEF f
    <2>6. Locally(p)
        BY <2>1, <2>5, Framed DEF Publish, Goto
    <2>7. Quieter(p)
        BY <1>o, <2>1, <2>4, <2>5 DEF Publish, Goto, Tables, NoCall, Quieter
    <2> QED
        BY <2>6, <2>7, QuieterKeeps
<1> QED
    BY <1>1, <1>2, <1>3

LEMMA StepCallInv == CallInv /\ [Next]_vars => CallInv'
<1> SUFFICES ASSUME CallInv, [Next]_vars PROVE CallInv'
    OBVIOUS
<1>o. PageInv'
    BY StepPageInv DEF CallInv
<1>1. CASE Next
    <2>1. PICK p \in Slots : Step(p) \/ Keys(p)
        BY <1>1 DEF Next
    <2>2. CASE Step(p)
        BY <1>o, <2>2, CallerCalls, SessionCalls, AnswerCalls, ReplyCalls DEF Step
    <2>3. CASE Keys(p)
        BY <1>o, <2>3, PageCalls, CallerCalls, SessionCalls, AnswerCalls, OthersCall DEF Keys
    <2> QED
        BY <2>1, <2>2, <2>3
<1>2. CASE UNCHANGED vars
    BY <1>o, <1>2, CallSame DEF vars, local
<1> QED
    BY <1>1, <1>2

LEMMA CallInvCalls == CallInv => CallerCalled
<1> SUFFICES ASSUME CallInv, NEW q \in Slots, fd[q] # 0, Attended(q)
             PROVE  User[uin[sock[fd[q]].owner]] = User[q]
    BY DEF CallerCalled
<1> DEFINE p == sock[fd[q]].owner
<1>1. p \in Slots /\ uinfo[p].sockaddr = fd[q]
    BY DEF Attended, Port
<1>2. ui[q].port = fd[q]
    BY DEF CallInv, Numbered
<1> QED
    BY <1>1, <1>2 DEF CallInv, Apart

(***************************************************************************)
(* An answer, however late it connects (talk.c: talkreply), reaches only a *)
(* caller that is paging the answerer's account, although the caller may   *)
(* have cancelled and paged others since its entry was read.  For any      *)
(* processes, accounts and number of pages; it rests on ports not being    *)
(* given out twice.                                                        *)
(***************************************************************************)
THEOREM CallerCalledHolds == Spec => []CallerCalled
<1>1. Init => CallInv
    BY InitCallInv
<1>2. CallInv /\ [Next]_vars => CallInv'
    BY StepCallInv
<1>3. CallInv => CallerCalled
    BY CallInvCalls
<1> QED
    BY <1>1, <1>2, <1>3, PTL DEF Spec

-----------------------------------------------------------------------------
(***************************************************************************)
(* The types.  The uid a page is published with is somebody's, the port a  *)
(* caller leaves open is a port: that a caller has both while it pages is  *)
(* what TypeOK needs besides itself.                                       *)
(***************************************************************************)
EntriesOK == uinfo \in [Slots -> Entry] /\ utmp \in [Slots -> Entry]

LocalsOK ==
    /\ pc \in [Slots -> Stages] /\ talkrequest \in [Slots -> BOOLEAN]
    /\ uin \in [Slots -> Slots \cup {Nobody}] /\ kind \in [Slots -> Kinds]
    /\ ui \in [Slots -> [slot : Slots \cup {Nobody}, port : Ports \cup {0}]]
    /\ fd \in [Slots -> Ports \cup {0}] /\ answer \in [Slots -> Bytes]
    /\ pages \in 0 .. MaxPages /\ mixed \in SUBSET Slots /\ leaked \in SUBSET Ports

SocksOK == sock \in [Ports -> Socket]

\* A process has chosen whom to page, and while it does it has a port.
Equipped ==
    \A p \in Slots : /\ pc[p] \in {"ask"} \cup Paging_ => uin[p] \in Slots
                     /\ pc[p] \in Paging_ => uinfo[p].sockaddr # 0

TypedInv == TypeOK /\ Equipped

LEMMA TypesAre == TypeOK <=> EntriesOK /\ LocalsOK /\ SocksOK
BY DEF TypeOK, EntriesOK, LocalsOK, SocksOK

LEMMA Numbers == \A p \in Slots : p # 0 /\ p # Nobody /\ User[p] \in Uids
BY SlotsAssumption DEF Nobody, Uids

LEMMA FieldTypes ==
    ASSUME NEW e \in Entry
    PROVE  /\ \A v \in BOOLEAN : [e EXCEPT !.active = v] \in Entry
           /\ \A v \in Modes : [e EXCEPT !.mode = v] \in Entry
           /\ \A v \in BOOLEAN : [e EXCEPT !.sockactive = v] \in Entry
           /\ \A v \in Ports \cup {0} : [e EXCEPT !.sockaddr = v] \in Entry
           /\ \A v \in Uids \cup {0} : [e EXCEPT !.destuid = v] \in Entry
BY DEF Entry

LEMMA EntryType ==
    ASSUME EntriesOK, NEW p \in Slots
    PROVE  /\ uinfo[p] \in Entry /\ Hide(uinfo[p]) \in Entry /\ Deaf(uinfo[p]) \in Entry
           /\ Fields(uinfo[p])
<1>1. uinfo[p] \in Entry
    BY DEF EntriesOK
<1>2. Deaf(uinfo[p]) \in Entry
    BY <1>1, FieldTypes DEF Deaf
<1> DEFINE d == [uinfo[p] EXCEPT !.sockactive = FALSE]
<1>3. d \in Entry
    BY <1>1, FieldTypes
<1>4. Hide(uinfo[p]) = [d EXCEPT !.destuid = 0]
    BY DEF Hide
<1> HIDE DEF d
<1>5. Hide(uinfo[p]) \in Entry
    BY <1>3, <1>4, FieldTypes
<1>6. Fields(uinfo[p])
    BY <1>1 DEF Entry, Fields
<1> QED
    BY <1>1, <1>2, <1>5, <1>6

LEMMA Stored ==
    ASSUME EntriesOK, NEW p, NEW e \in Entry, Keep(p, e) \/ Publish(p, e)
    PROVE  EntriesOK'
BY DEF EntriesOK, Keep, Publish

LEMMA ModeStored ==
    ASSUME EntriesOK, NEW p, NEW e \in Entry, NEW m \in Modes, SetMode(p, e, m)
    PROVE  EntriesOK'
<1>1. [e EXCEPT !.mode = m] \in Entry
    BY FieldTypes
<1> QED
    BY <1>1, Stored DEF SetMode

LEMMA SocketFields ==
    ASSUME NEW S \in [Ports -> Socket], NEW n
    PROVE  /\ \A v \in Slots : [S EXCEPT ![n].owner = v] \in [Ports -> Socket]
           /\ \A v \in BOOLEAN : [S EXCEPT ![n].open = v] \in [Ports -> Socket]
           /\ \A v \in Seq(Slots) : [S EXCEPT ![n].backlog = v] \in [Ports -> Socket]
           /\ \A v \in Slots : [S EXCEPT ![n].peer = v] \in [Ports -> Socket]
           /\ \A v \in Bytes, q \in Slots : [S EXCEPT ![n].sent[q] = v] \in [Ports -> Socket]
<1>1. \A m \in Ports : S[m] \in Socket
    OBVIOUS
<1>2. \A v \in Slots, x \in Socket : [x EXCEPT !.owner = v] \in Socket
    BY DEF Socket
<1>3. \A v \in BOOLEAN, x \in Socket : [x EXCEPT !.open = v] \in Socket
    BY DEF Socket
<1>4. \A v \in Seq(Slots), x \in Socket : [x EXCEPT !.backlog = v] \in Socket
    BY DEF Socket
<1>5. \A v \in Slots, x \in Socket : [x EXCEPT !.peer = v] \in Socket
    BY DEF Socket
<1>6. \A v \in Bytes, q \in Slots, x \in Socket : [x EXCEPT !.sent[q] = v] \in Socket
    BY DEF Socket
<1>7. ASSUME NEW x, n \in Ports => x \in Socket
      PROVE  [S EXCEPT ![n] = x] \in [Ports -> Socket]
    BY <1>7
<1>8. \A v \in Slots : [S EXCEPT ![n].owner = v] \in [Ports -> Socket]
    BY <1>1, <1>2, <1>7
<1>9. \A v \in BOOLEAN : [S EXCEPT ![n].open = v] \in [Ports -> Socket]
    BY <1>1, <1>3, <1>7
<1>10. \A v \in Seq(Slots) : [S EXCEPT ![n].backlog = v] \in [Ports -> Socket]
    BY <1>1, <1>4, <1>7
<1>11. \A v \in Slots : [S EXCEPT ![n].peer = v] \in [Ports -> Socket]
    BY <1>1, <1>5, <1>7
<1>12. \A v \in Bytes, q \in Slots : [S EXCEPT ![n].sent[q] = v] \in [Ports -> Socket]
    BY <1>1, <1>6, <1>7
<1> QED
    BY <1>8, <1>9, <1>10, <1>11, <1>12

LEMMA ClosedTyped ==
    ASSUME SocksOK, NEW n
    PROVE  Close(n) \in [Ports -> Socket] /\ Closed \in Socket
<1>1. Closed \in Socket
    BY DEF Closed, Socket, Nobody
<1> QED
    BY <1>1 DEF Close, SocksOK

LEMMA SearchFits ==
    ASSUME NEW p \in Slots
    PROVE  /\ cmpunums(p) # Nobody => cmpunums(p) \in Slots
           /\ \A u : who_callme(p, u) # Nobody => who_callme(p, u) \in Slots
<1>1. ASSUME NEW S \in SUBSET Slots, First(S) # Nobody PROVE First(S) \in Slots
    BY <1>1, FirstFits DEF First
<1> QED
    BY <1>1 DEF cmpunums, who_callme, CallersOf

(* The entry a page is published with: the port is the new one. *)
LEMMA PagedEntry ==
    ASSUME EntriesOK, LocalsOK, Equipped, NEW p \in Slots, NEW k \in Kinds, Page(p, k)
    PROVE  \E e \in Entry, m \in Modes : SetMode(p, e, m) /\ e.sockaddr = pages + 1
<1> DEFINE a == [uinfo[p] EXCEPT !.sockactive = TRUE]
           b == [a EXCEPT !.sockaddr = pages + 1]
           e == [b EXCEPT !.destuid = User[uin[p]]]
           m == IF k = "five" THEN "page_five" ELSE "page"
<1>1. /\ pages + 1 \in Ports \cup {0} /\ User[uin[p]] \in Uids \cup {0} /\ m \in Modes
      /\ uinfo[p] \in Entry
    BY Numbers, EntryType DEF Page, Equipped, Modes
<1>2. SetMode(p, e, m)
    BY DEF Page
<1>3. a \in Entry
    BY <1>1, FieldTypes
<1> HIDE DEF a
<1>4. b \in Entry /\ b.sockaddr = pages + 1
    BY <1>1, <1>3, FieldTypes DEF Entry
<1> HIDE DEF b
<1>5. e \in Entry /\ e.sockaddr = b.sockaddr
    BY <1>1, <1>4, FieldTypes DEF Entry
<1> HIDE DEF e, m
<1> QED
    BY <1>1, <1>2, <1>4, <1>5

LEMMA PagedPort ==
    ASSUME EntriesOK, LocalsOK, Equipped, NEW p \in Slots, NEW k \in Kinds, Page(p, k)
    PROVE  uinfo' = [uinfo EXCEPT ![p] = uinfo'[p]] /\ uinfo'[p].sockaddr = pages + 1
<1>1. PICK e \in Entry, m \in Modes : SetMode(p, e, m) /\ e.sockaddr = pages + 1
    BY PagedEntry
<1>2. [e EXCEPT !.mode = m].sockaddr = pages + 1
    BY <1>1, FieldTypes DEF Entry
<1>3. PICK f : uinfo' = [uinfo EXCEPT ![p] = f] /\ f.sockaddr = pages + 1
    BY <1>1, <1>2 DEF SetMode, Keep, Publish
<1> QED
    BY <1>3 DEF EntriesOK

LEMMA CallerTypes ==
    ASSUME TypedInv, NEW p \in Slots,
           Choose(p) \/ GiveUp(p) \/ (\E k \in Kinds : Page(p, k)) \/ Ring(p)
           \/ Listen(p) \/ RingAgain(p) \/ CalleeLeft(p) \/ Cancel(p) \/ Accept(p)
    PROVE  EntriesOK' /\ LocalsOK' /\ SocksOK'
<1>o. EntriesOK /\ LocalsOK /\ SocksOK /\ Equipped
    BY TypesAre DEF TypedInv
<1>1. CASE Choose(p)
    <2>1. LocalsOK'
        BY <1>1, <1>o DEF Choose, Goto, LocalsOK, Stages
    <2> QED
        BY <1>1, <1>o, <2>1 DEF Choose, EntriesOK, SocksOK
<1>2. CASE GiveUp(p) \/ Ring(p) \/ RingAgain(p)
    <2>1. LocalsOK'
        BY <1>2, <1>o
           DEF GiveUp, Ring, RingAgain, Signal, Alive, Goto, local, LocalsOK, Stages
    <2> QED
        BY <1>2, <1>o, <2>1 DEF GiveUp, Ring, RingAgain, local, EntriesOK, SocksOK
<1>3. CASE \E k \in Kinds : Page(p, k)
    <2>1. PICK k \in Kinds : Page(p, k)
        BY <1>3
    <2>2. EntriesOK'
        BY <1>o, <2>1, PagedEntry, ModeStored
    <2>3. LocalsOK'
        BY <2>1, <1>o, PagesAssumption DEF Page, Goto, Quiet, LocalsOK, Stages, Ports
    <2>4. SocksOK'
        BY <2>1, <1>o, SocketFields DEF Page, SocksOK
    <2> QED
        BY <2>2, <2>3, <2>4
<1>4. CASE Listen(p)
    <2>1. SocksOK'
        BY <1>4, <1>o, SocketFields DEF Listen, SocksOK
    <2>2. LocalsOK'
        BY <1>4, <1>o DEF Listen, Goto, Quiet, local, LocalsOK, Stages
    <2> QED
        BY <1>4, <1>o, <2>1, <2>2 DEF Listen, EntriesOK
<1>5. CASE CalleeLeft(p)
    <2>1. Port(p) \in Ports
        BY <1>5, <1>o, EntryType DEF CalleeLeft, Waiting, Equipped, Paging_, Port, Entry
    <2>2. EntriesOK'
        BY <1>5, <1>o, EntryType, Stored DEF CalleeLeft
    <2>3. LocalsOK'
        BY <1>5, <1>o, <2>1 DEF CalleeLeft, Goto, Quiet, LocalsOK, Stages
    <2> QED
        BY <1>5, <1>o, <2>2, <2>3 DEF CalleeLeft, SocksOK
<1>6. CASE Cancel(p)
    <2>1. EntriesOK'
        BY <1>6, <1>o, EntryType, Stored DEF Cancel
    <2>2. LocalsOK'
        BY <1>6, <1>o DEF Cancel, Goto, Quiet, local, LocalsOK, Stages
    <2>3. SocksOK'
        BY <1>6, <1>o, ClosedTyped DEF Cancel, SocksOK
    <2> QED
        BY <2>1, <2>2, <2>3
<1>7. CASE Accept(p)
    <2> DEFINE n == Port(p)
               a == [sock EXCEPT ![n].open = FALSE]
               b == [a EXCEPT ![n].backlog = <<>>]
               h == Head(sock[n].backlog)
    <2>1. n \in Ports
        BY <1>7, <1>o, EntryType DEF Accept, Equipped, Paging_, Port, Entry
    <2>2. h \in Slots
        <3>1. sock[n].backlog \in Seq(Slots) /\ sock[n].backlog # <<>>
            BY <1>7, <1>o, <2>1 DEF Accept, SocksOK, Socket
        <3> QED
            BY <3>1
    <2>3. sock' = [b EXCEPT ![n].peer = h]
        BY <1>7 DEF Accept
    <2> HIDE DEF n, h
    <2>4. a \in [Ports -> Socket]
        BY <1>o, SocketFields DEF SocksOK
    <2> HIDE DEF a
    <2>5. b \in [Ports -> Socket]
        <3>1. <<>> \in Seq(Slots)
            OBVIOUS
        <3> QED
            BY <2>4, <3>1, SocketFields
    <2> HIDE DEF b
    <2>6. SocksOK'
        BY <2>2, <2>3, <2>5, SocketFields DEF SocksOK
    <2>7. EntriesOK'
        BY <1>7, <1>o, EntryType, Stored DEF Accept
    <2>8. LocalsOK'
        BY <1>7, <1>o DEF Accept, Goto, Quiet, local, LocalsOK, Stages
    <2> QED
        BY <2>6, <2>7, <2>8
<1> QED
    BY <1>1, <1>2, <1>3, <1>4, <1>5, <1>6, <1>7

LEMMA SessionTypes ==
    ASSUME TypedInv, NEW p \in Slots,
           Refused(p) \/ Accepted(p) \/ Quit(p) \/ PeerGone(p) \/ ServicePage(p) \/ Back(p)
    PROVE  EntriesOK' /\ LocalsOK' /\ SocksOK'
<1>o. EntriesOK /\ LocalsOK /\ SocksOK /\ Equipped /\ uinfo[p] \in Entry
    BY TypesAre, EntryType DEF TypedInv
<1>1. CASE Refused(p)
    <2>1. EntriesOK'
        BY <1>1, <1>o, EntryType, Stored DEF Refused
    <2>2. LocalsOK'
        BY <1>1, <1>o DEF Refused, Goto, Quiet, local, LocalsOK, Stages
    <2>3. SocksOK'
        BY <1>1, <1>o, ClosedTyped DEF Refused, SocksOK
    <2> QED
        BY <2>1, <2>2, <2>3
<1>2. CASE Accepted(p)
    <2>1. PICK k \in Kinds : SetMode(p, uinfo[p], k) /\ kind' = [kind EXCEPT ![p] = k]
        BY <1>2, <1>o DEF Accepted, LocalsOK, Kinds
    <2>2. k \in Modes
        BY DEF Modes
    <2>3. EntriesOK'
        BY <1>o, <2>1, <2>2, ModeStored
    <2>4. LocalsOK' /\ SocksOK'
        BY <1>2, <1>o, <2>1 DEF Accepted, Goto, Quiet, LocalsOK, SocksOK, Stages
    <2> QED
        BY <2>3, <2>4
<1>3. CASE Quit(p) \/ PeerGone(p)
    <2>1. Leave(p)
        BY <1>3 DEF Quit, PeerGone
    <2> DEFINE e == IF uinfo[p].mode = "talk"
                    THEN [uinfo[p] EXCEPT !.mode = OldMode(p)] ELSE uinfo[p]
               f == IF IsCaller(p) THEN [e EXCEPT !.destuid = 0] ELSE e
    <2>2. e \in Entry
        BY <1>o, FieldTypes DEF OldMode, Modes
    <2>3. utmp' = [utmp EXCEPT ![p] = IF uinfo[p].mode = "talk" THEN e ELSE @]
          /\ uinfo' = [uinfo EXCEPT ![p] = f]
        BY <2>1 DEF Leave
    <2> HIDE DEF e
    <2>4. f \in Entry
        BY <2>2, FieldTypes
    <2> HIDE DEF f
    <2>5. EntriesOK'
        BY <1>o, <2>2, <2>3, <2>4 DEF EntriesOK
    <2>6. LocalsOK'
        BY <2>1, <1>o DEF Leave, Goto, Quiet, LocalsOK, Stages
    <2>7. SocksOK'
        BY <2>1, <1>o, ClosedTyped DEF Leave, SocksOK
    <2> QED
        BY <2>5, <2>6, <2>7
<1>4. CASE ServicePage(p)
    <2> DEFINE s == cmpunums(p)
    <2>2. EntriesOK'
        <3>1. (Keep(p, [uinfo[p] EXCEPT !.destuid = User[s]]) /\ s # Nobody)
              \/ UNCHANGED <<uinfo, utmp>>
            BY <1>4 DEF ServicePage
        <3>2. CASE UNCHANGED <<uinfo, utmp>>
            BY <1>o, <3>2 DEF EntriesOK
        <3>3. CASE Keep(p, [uinfo[p] EXCEPT !.destuid = User[s]]) /\ s # Nobody
            <4>1. [uinfo[p] EXCEPT !.destuid = User[s]] \in Entry
                BY <1>o, <3>3, SearchFits, Numbers, FieldTypes
            <4> QED
                BY <1>o, <3>3, <4>1, Stored
        <3> QED
            BY <3>1, <3>2, <3>3
    <2>3. talkrequest' = talkrequest \/ talkrequest' = [talkrequest EXCEPT ![p] = FALSE]
        BY <1>4 DEF ServicePage, Quiet
    <2>4. UNCHANGED <<pc, local, sock, pages>>
        BY <1>4 DEF ServicePage
    <2>5. LocalsOK' /\ SocksOK'
        BY <1>o, <2>3, <2>4 DEF local, LocalsOK, SocksOK
    <2> QED
        BY <2>2, <2>5
<1>5. CASE Back(p)
    <2>1. [uinfo[p] EXCEPT !.sockaddr = 0] \in Entry /\ "menu" \in Modes
        BY <1>o, FieldTypes DEF Modes
    <2>2. EntriesOK'
        BY <1>5, <1>o, <2>1, ModeStored DEF Back
    <2>3. LocalsOK' /\ SocksOK'
        BY <1>5, <1>o
           DEF Back, Forget, Goto, Quiet, NoCall, LocalsOK, SocksOK, Stages, Kinds, Bytes, Nobody
    <2> QED
        BY <2>2, <2>3
<1> QED
    BY <1>1, <1>2, <1>3, <1>4, <1>5

LEMMA AnswerTypes ==
    ASSUME TypedInv, NEW p \in Slots,
           TalkReply(p) \/ WhoCallsMe(p) \/ (\E key \in Bytes \cup {"other"} : Connect(p, key))
           \/ NoConnection(p) \/ Reason(p) \/ Write(p)
    PROVE  EntriesOK' /\ LocalsOK' /\ SocksOK'
<1>o. EntriesOK /\ LocalsOK /\ SocksOK /\ Equipped /\ uinfo[p] \in Entry
    BY TypesAre, EntryType DEF TypedInv
<1>1. CASE TalkReply(p)
    <2> DEFINE s == cmpunums(p)
    <2>1. /\ talkrequest' = [talkrequest EXCEPT ![p] = FALSE]
          /\ UNCHANGED <<uin, kind, fd, answer, sock, pages, mixed, leaked>>
        BY <1>1 DEF TalkReply
    <2>2. CASE UNCHANGED <<uinfo, utmp, ui, pc>>
        BY <1>o, <2>1, <2>2 DEF EntriesOK, LocalsOK, SocksOK
    <2>3. CASE /\ s # Nobody
               /\ Keep(p, [uinfo[p] EXCEPT !.destuid = User[s]])
               /\ ui' = [ui EXCEPT ![p] = [slot |-> s, port |-> utmp[s].sockaddr]]
               /\ Goto(p, "who")
        <3>1. s \in Slots /\ User[s] \in Uids
            BY <2>3, SearchFits, Numbers
        <3>2. utmp[s].sockaddr \in Ports \cup {0}
            BY <1>o, <3>1 DEF EntriesOK, Entry
        <3>3. [uinfo[p] EXCEPT !.destuid = User[s]] \in Entry
            BY <1>o, <3>1, FieldTypes
        <3>4. EntriesOK'
            BY <1>o, <2>3, <3>3, Stored
        <3>5. LocalsOK'
            BY <1>o, <2>1, <2>3, <3>1, <3>2 DEF Goto, LocalsOK, Stages
        <3> QED
            BY <1>o, <2>1, <3>4, <3>5 DEF SocksOK
    <2> QED
        BY <1>1, <2>2, <2>3 DEF TalkReply
<1>2. CASE WhoCallsMe(p)
    <2> DEFINE s == who_callme(p, User[ui[p].slot])
               v == IF s = Nobody THEN 0 ELSE User[s]
    <2>1. v \in Uids \cup {0}
        BY SearchFits, Numbers
    <2>2. Keep(p, [uinfo[p] EXCEPT !.destuid = v])
        BY <1>2 DEF WhoCallsMe
    <2>3. [uinfo[p] EXCEPT !.destuid = v] \in Entry
        BY <1>o, <2>1, FieldTypes
    <2>4. EntriesOK'
        BY <1>o, <2>2, <2>3, Stored
    <2>5. LocalsOK'
        BY <1>2, <1>o DEF WhoCallsMe, Goto, Quiet, LocalsOK, Stages, Kinds
    <2> QED
        BY <1>2, <1>o, <2>4, <2>5 DEF WhoCallsMe, SocksOK
<1>3. CASE \E key \in Bytes \cup {"other"} : Connect(p, key)
    <2>1. PICK c \in Bytes : Dial(p, c)
        BY <1>3 DEF Connect, Bytes
    <2> DEFINE n == ui[p].port
    <2>2. n \in Ports \cup {0}
        BY <1>o DEF LocalsOK
    <2>3. SocksOK'
        <3>1. sock' = [sock EXCEPT ![n].backlog = Append(@, p)]
            BY <2>1 DEF Dial
        <3>2. CASE n \in Ports
            <4>1. sock[n].backlog \in Seq(Slots)
                BY <1>o, <3>2 DEF SocksOK, Socket
            <4>2. Append(sock[n].backlog, p) \in Seq(Slots)
                BY <4>1
            <4>3. sock' = [sock EXCEPT ![n].backlog = Append(sock[n].backlog, p)]
                BY <3>1
            <4> QED
                BY <1>o, <4>2, <4>3, SocketFields DEF SocksOK
        <3>3. CASE n \notin Ports
            BY <1>o, <3>1, <3>3 DEF SocksOK
        <3> QED
            BY <3>2, <3>3
    <2>4. LocalsOK'
        BY <2>1, <2>2, <1>o DEF Dial, Goto, Quiet, LocalsOK, Stages
    <2> QED
        BY <2>1, <2>3, <2>4, <1>o DEF Dial, EntriesOK
<1>4. CASE NoConnection(p) \/ Reason(p)
    <2>1. LocalsOK'
        BY <1>4, <1>o DEF NoConnection, Reason, Goto, local, LocalsOK, Stages
    <2> QED
        BY <1>4, <1>o, <2>1 DEF NoConnection, Reason, local, EntriesOK, SocksOK
<1>5. CASE Write(p)
    <2>1. answer[p] \in Bytes /\ kind[p] \in Kinds /\ kind[p] \in Modes
        BY <1>o DEF LocalsOK, Modes
    <2>2. SocksOK'
        <3>1. sock' = sock \/ sock' = [sock EXCEPT ![fd[p]].sent[p] = answer[p]]
            BY <1>5 DEF Write
        <3>2. \A n : \A v \in Bytes, q \in Slots :
                 [sock EXCEPT ![n].sent[q] = v] \in [Ports -> Socket]
            BY <1>o, SocketFields, Zenon DEF SocksOK
        <3>3. [sock EXCEPT ![fd[p]].sent[p] = answer[p]] \in [Ports -> Socket]
            BY <2>1, <3>2, Zenon
        <3> QED
            BY <1>o, <3>1, <3>3 DEF SocksOK
    <2>3. EntriesOK'
        <3>1. SetMode(p, uinfo[p], kind[p]) \/ UNCHANGED <<uinfo, utmp>>
            BY <1>5 DEF Write
        <3>2. CASE SetMode(p, uinfo[p], kind[p])
            BY <1>o, <2>1, <3>2, ModeStored
        <3> QED
            BY <1>o, <3>1, <3>2 DEF EntriesOK
    <2>4. LocalsOK'
        BY <1>5, <1>o DEF Write, Goto, Quiet, LocalsOK, Stages
    <2> QED
        BY <2>2, <2>3, <2>4
<1> QED
    BY <1>1, <1>2, <1>3, <1>4, <1>5

LEMMA OtherTypes ==
    ASSUME TypedInv, NEW p \in Slots,
           (\E u \in Uids \ {User[p]} : Query(p, u)) \/ QueryEnd(p) \/ HangUp(p)
    PROVE  EntriesOK' /\ LocalsOK' /\ SocksOK'
<1>o. EntriesOK /\ LocalsOK /\ SocksOK /\ Equipped /\ uinfo[p] \in Entry
    BY TypesAre, EntryType DEF TypedInv
<1>1. CASE \E u \in Uids \ {User[p]} : Query(p, u)
    <2>1. PICK u \in Uids : Query(p, u)
        BY <1>1
    <2> DEFINE e == [uinfo[p] EXCEPT !.mode = "query"]
               f == [e EXCEPT !.destuid = u]
    <2>2. Publish(p, f)
        BY <2>1 DEF Query
    <2>3. e \in Entry
        BY <1>o, FieldTypes DEF Modes
    <2> HIDE DEF e
    <2>4. f \in Entry
        BY <2>3, FieldTypes
    <2> HIDE DEF f
    <2>5. EntriesOK'
        BY <1>o, <2>2, <2>4, Stored
    <2>6. LocalsOK' /\ SocksOK'
        BY <2>1, <1>o DEF Query, Goto, Quiet, local, LocalsOK, SocksOK, Stages
    <2> QED
        BY <2>5, <2>6
<1>2. CASE QueryEnd(p)
    <2>1. [uinfo[p] EXCEPT !.destuid = 0] \in Entry
        BY <1>o, FieldTypes
    <2>2. EntriesOK'
        BY <1>2, <1>o, <2>1, Stored DEF QueryEnd
    <2>3. LocalsOK' /\ SocksOK'
        BY <1>2, <1>o DEF QueryEnd, Goto, Quiet, local, LocalsOK, SocksOK, Stages
    <2> QED
        BY <2>2, <2>3
<1>3. CASE HangUp(p)
    <2> DEFINE h == Hide(uinfo[p])
               e == [h EXCEPT !.active = FALSE]
               f == [e EXCEPT !.sockaddr = 0]
    <2>1. Publish(p, f)
        BY <1>3 DEF HangUp
    <2>2. h \in Entry
        BY <1>o, EntryType
    <2> HIDE DEF h
    <2>3. e \in Entry
        BY <2>2, FieldTypes
    <2> HIDE DEF e
    <2>4. f \in Entry
        BY <2>3, FieldTypes
    <2> HIDE DEF f
    <2>5. EntriesOK'
        BY <1>o, <2>1, <2>4, Stored
    <2>6. LocalsOK'
        BY <1>3, <1>o
           DEF HangUp, Forget, Goto, NoCall, LocalsOK, Stages, Kinds, Bytes, Nobody
    <2>7. SocksOK'
        <3>1. sock' = [n \in Ports |-> IF sock[n].owner = p THEN Closed ELSE sock[n]]
            BY <1>3 DEF HangUp
        <3> QED
            BY <1>o, <3>1, ClosedTyped DEF SocksOK
    <2> QED
        BY <2>5, <2>6, <2>7
<1> QED
    BY <1>1, <1>2, <1>3

(* The caller has what its page needs from the moment it has chosen. *)
LEMMA EquippedKeeps ==
    ASSUME TypedInv, NEW p \in Slots, Step(p) \/ Keys(p)
    PROVE  Equipped'
<1>o. EntriesOK /\ LocalsOK /\ Equipped /\ pages \in Nat
    BY TypesAre DEF TypedInv, LocalsOK
<1> DEFINE Frame == /\ \A q \in Slots \ {p} :
                          uinfo'[q] = uinfo[q] /\ uin'[q] = uin[q] /\ pc'[q] = pc[q]
           Fine == /\ pc'[p] \in {"ask"} \cup Paging_ => uin'[p] \in Slots
                   /\ pc'[p] \in Paging_ => uinfo'[p].sockaddr # 0
<1>0. ASSUME Frame, Fine PROVE Equipped'
    BY <1>o, <1>0 DEF Equipped
<1>1. CASE Choose(p)
    BY <1>0, <1>1, <1>o DEF Choose, Goto, LocalsOK, Paging_
<1>2. CASE Ring(p) \/ Listen(p) \/ RingAgain(p)
    <2>1. /\ UNCHANGED <<uinfo, uin>> /\ pc[p] \in Paging_
          /\ pc' = pc \/ \E l : Goto(p, l)
        BY <1>2 DEF Ring, Listen, RingAgain, Waiting, local, Paging_
    <2> QED
        BY <1>0, <1>o, <2>1 DEF Goto, LocalsOK, Equipped
<1>3. CASE \E k \in Kinds : Page(p, k)
    <2>1. PICK k \in Kinds : Page(p, k)
        BY <1>3
    <2>2. uinfo' = [uinfo EXCEPT ![p] = uinfo'[p]] /\ uinfo'[p].sockaddr = pages + 1
        BY <1>o, <2>1, PagedPort
    <2>3. pc[p] = "ask" /\ Goto(p, "ring") /\ uin' = uin
        BY <2>1 DEF Page
    <2>4. pages + 1 # 0
        BY <1>o
    <2> QED
        BY <1>0, <1>o, <2>2, <2>3, <2>4 DEF Goto, LocalsOK, EntriesOK, Equipped
<1>4. ASSUME NEW l \in Elsewhere \cup {"idle"}, Goto(p, l),
             uinfo' = uinfo \/ \E e : uinfo' = [uinfo EXCEPT ![p] = e],
             uin' = uin \/ \E e : uin' = [uin EXCEPT ![p] = e]
      PROVE  Equipped'
    BY <1>0, <1>4, <1>o DEF Goto, LocalsOK, EntriesOK, Elsewhere, Paging_
<1>5. CASE GiveUp(p) \/ NoConnection(p) \/ Reason(p)
    <2>1. UNCHANGED <<uinfo, uin>> /\ \E l \in {"back", "write"} : Goto(p, l)
        BY <1>5 DEF GiveUp, NoConnection, Reason, local
    <2> QED
        BY <1>4, <2>1 DEF Elsewhere, Stages, Paging_
<1>6. CASE CalleeLeft(p) \/ Cancel(p) \/ Accept(p) \/ Refused(p) \/ WhoCallsMe(p) \/ QueryEnd(p)
    <2>1. /\ uin' = uin /\ \E e : Keep(p, e)
          /\ \E l \in {"back", "read", "prompt"} : Goto(p, l)
        BY <1>6 DEF CalleeLeft, Cancel, Accept, Refused, WhoCallsMe, QueryEnd, local
    <2> QED
        BY <1>4, <2>1 DEF Keep, Elsewhere, Stages, Paging_
<1>7. ASSUME NEW e, NEW m, SetMode(p, e, m)
      PROVE  \E f : uinfo' = [uinfo EXCEPT ![p] = f]
    BY <1>7 DEF SetMode, Keep, Publish
<1>8. CASE Accepted(p) \/ Write(p) \/ Back(p)
    <2>1. /\ uin' = uin \/ uin' = [uin EXCEPT ![p] = Nobody]
          /\ \E l \in {"session", "back", "idle"} : Goto(p, l)
          /\ UNCHANGED uinfo \/ \E e, m : SetMode(p, e, m)
        BY <1>8 DEF Accepted, Write, Back, Forget
    <2> QED
        BY <1>4, <1>7, <2>1 DEF Elsewhere, Stages, Paging_
<1>9. CASE Quit(p) \/ PeerGone(p)
    <2>1. Goto(p, "back") /\ uin' = uin /\ \E e : uinfo' = [uinfo EXCEPT ![p] = e]
        BY <1>9 DEF Quit, PeerGone, Leave
    <2> QED
        BY <1>4, <2>1 DEF Elsewhere, Stages, Paging_
<1>10. CASE ServicePage(p)
    <2>1. /\ uin' = uin /\ pc' = pc /\ pc[p] = "session"
          /\ UNCHANGED uinfo \/ \E e : uinfo' = [uinfo EXCEPT ![p] = e]
        BY <1>10 DEF ServicePage, Keep, local
    <2> QED
        BY <1>0, <1>o, <2>1 DEF EntriesOK, Paging_
<1>11. CASE TalkReply(p)
    <2>1. /\ uin' = uin /\ pc[p] = "idle"
          /\ UNCHANGED <<uinfo, pc>>
             \/ (Goto(p, "who") /\ \E e : uinfo' = [uinfo EXCEPT ![p] = e])
        BY <1>11 DEF TalkReply, Keep
    <2>2. CASE UNCHANGED <<uinfo, pc>>
        BY <1>o, <2>1, <2>2 DEF Equipped
    <2>3. CASE Goto(p, "who") /\ \E e : uinfo' = [uinfo EXCEPT ![p] = e]
        BY <1>4, <2>1, <2>3 DEF Elsewhere, Stages, Paging_
    <2> QED
        BY <2>1, <2>2, <2>3
<1>12. CASE \E key \in Bytes \cup {"other"} : Connect(p, key)
    <2>1. UNCHANGED <<uinfo, uin>> /\ \E l \in {"reason", "write"} : Goto(p, l)
        BY <1>12 DEF Connect, Dial
    <2> QED
        BY <1>4, <2>1 DEF Elsewhere, Stages, Paging_
<1>13. CASE (\E u \in Uids \ {User[p]} : Query(p, u)) \/ HangUp(p)
    <2>1. /\ uin' = uin \/ uin' = [uin EXCEPT ![p] = Nobody]
          /\ \E l \in {"query", "gone"} : Goto(p, l)
          /\ \E e : uinfo' = [uinfo EXCEPT ![p] = e]
        BY <1>13 DEF Query, HangUp, Publish, Forget, local
    <2> QED
        BY <1>4, <2>1 DEF Elsewhere, Stages, Paging_
<1> QED
    BY <1>1, <1>2, <1>3, <1>5, <1>6, <1>8, <1>9, <1>10, <1>11, <1>12, <1>13 DEF Step, Keys

LEMMA TypedInit == Init => TypedInv
<1> SUFFICES ASSUME Init PROVE TypedInv
    OBVIOUS
<1>1. EntriesOK
    BY DEF Init, EntriesOK, Entry, Empty, Modes
<1>2. LocalsOK
    BY PagesAssumption DEF Init, LocalsOK, Stages, Kinds, Bytes, NoCall, Nobody
<1>3. SocksOK
    <2>1. <<>> \in Seq(Slots)
        OBVIOUS
    <2>2. Closed \in Socket
        BY <2>1 DEF Closed, Socket, Nobody
    <2> QED
        BY <2>2 DEF Init, SocksOK
<1>4. Equipped
    BY DEF Init, Equipped, Paging_
<1> QED
    BY <1>1, <1>2, <1>3, <1>4, TypesAre DEF TypedInv

LEMMA TypedStep == TypedInv /\ [Next]_vars => TypedInv'
<1> SUFFICES ASSUME TypedInv, [Next]_vars PROVE TypedInv'
    OBVIOUS
<1>1. CASE Next
    <2>1. PICK p \in Slots : Step(p) \/ Keys(p)
        BY <1>1 DEF Next
    <2>2. EntriesOK' /\ LocalsOK' /\ SocksOK'
        <3>1. CASE Step(p)
            BY <3>1, CallerTypes, SessionTypes, AnswerTypes DEF Step
        <3>2. CASE Keys(p)
            BY <3>2, CallerTypes, SessionTypes, AnswerTypes, OtherTypes DEF Keys
        <3> QED
            BY <2>1, <3>1, <3>2
    <2>3. TypeOK'
        BY <2>2 DEF TypeOK, EntriesOK, LocalsOK, SocksOK
    <2> QED
        BY <2>1, <2>3, EquippedKeeps DEF TypedInv
<1>2. CASE UNCHANGED vars
    BY <1>2 DEF vars, local, TypedInv, TypeOK, Equipped
<1> QED
    BY <1>1, <1>2

(* Entries, locals and ports keep their types: what is published names an  *)
(* account of the table, and what is left open is a port.                  *)
THEOREM TypesHold == Spec => []TypeOK
<1>1. TypedInv => TypeOK
    BY DEF TypedInv
<1> QED
    BY TypedInit, TypedStep, <1>1, PTL DEF Spec

-----------------------------------------------------------------------------
(***************************************************************************)
(* Both ends run the same program.  The answerer learns it in its second   *)
(* search, the caller's is what it published.  Mated says when the two     *)
(* must agree: from that search on, as long as the caller is still at the  *)
(* page the answerer copied and, once it has taken a call, has taken this  *)
(* one.  It rests on                                                       *)
(*   - Copied: the slot the answerer copied is the one whose port it is,   *)
(*     so that a second search that ends there has met the same page;      *)
(*   - Shut: who has taken a call listens no longer, so that no answerer   *)
(*     connects to a page that has become a session;                       *)
(*   - Side: a caller is connected to no port, an answerer has none.       *)
(***************************************************************************)
Linked(q, p) ==
    /\ ui[q].port = uinfo[p].sockaddr /\ ui[q].port # 0
    /\ \/ pc[q] = "prompt" /\ pc[p] \in Paging_
       \/ /\ pc[q] \in {"reason", "write", "session"} /\ fd[q] # 0
          /\ pc[p] \in Paging_ \/ (pc[p] \in {"read", "session"} /\ Peer(p) = q)

Mated(q, p) == Linked(q, p) => kind[q] = kind[p] \/ q \in mixed

Copied(q, p) ==
    uinfo[p].sockaddr # 0 /\ ui[q].port = uinfo[p].sockaddr => ui[q].slot = p

Shut(p) ==
    pc[p] \in {"read", "session"} /\ uinfo[p].sockaddr # 0 => ~sock[Port(p)].open

Side(p) ==
    /\ pc[p] \in {"idle", "ask", "read", "query", "who", "prompt"} \cup Paging_ => fd[p] = 0
    /\ pc[p] \in {"who", "prompt", "reason", "write"} => uinfo[p].sockaddr = 0

MateInv ==
    /\ CallInv /\ TypedInv
    /\ \A p \in Slots : Shut(p) /\ Side(p)
    /\ \A p, q \in Slots : Mated(q, p) /\ Copied(q, p)

(* What is others' in a step of r: their locals, and the ports in their hands. *)
SocksKept(r) == \A n \in Ports : n # Port(r) =>
    /\ sock'[n].peer \in {sock[n].peer, Nobody}
    /\ sock'[n].open => sock[n].open

Private(r) ==
    /\ Locally(r) /\ SocksKept(r)
    /\ \A q \in Slots \ {r} : q \in mixed' <=> q \in mixed

LEMMA PortKept ==
    ASSUME MateInv, NEW r \in Slots, Private(r), NEW p \in Slots, p # r,
           uinfo[p].sockaddr # 0
    PROVE  /\ Port(p)' = Port(p) /\ Peer(p)' \in {Peer(p), Nobody}
           /\ sock'[Port(p)].open => sock[Port(p)].open
<1>1. Port(p) \in Ports
    BY TypesAre, EntryType DEF MateInv, TypedInv, Port, Entry
<1>2. Port(p) # Port(r)
    BY DEF MateInv, CallInv, Apart, Port
<1>3. Port(p)' = Port(p)
    BY DEF Private, Locally, Alone, Port
<1> QED
    BY <1>1, <1>2, <1>3 DEF Private, SocksKept, Peer

(* So only the pairs that r is of are to be looked at. *)
LEMMA MateKeeps ==
    ASSUME MateInv, CallInv', TypedInv', NEW r \in Slots, Private(r),
           Shut(r)', Side(r)',
           \A q \in Slots : Copied(q, r)' /\ Copied(r, q)',
           \A q \in Slots \ {r} : Mated(q, r)' /\ Mated(r, q)'
    PROVE  MateInv'
<1>1. ASSUME NEW p \in Slots PROVE Shut(p)' /\ Side(p)'
    <2>1. CASE p = r
        BY <2>1
    <2>2. CASE p # r
        <3>1. uinfo'[p] = uinfo[p] /\ pc'[p] = pc[p] /\ fd'[p] = fd[p]
            BY <2>2 DEF Private, Locally, Alone
        <3>2. Side(p)'
            BY <3>1 DEF MateInv, Side
        <3>3. Shut(p)'
            BY <2>2, <3>1, PortKept DEF MateInv, Shut, Port
        <3> QED
            BY <3>2, <3>3
    <2> QED
        BY <2>1, <2>2
<1>2. ASSUME NEW p \in Slots, NEW q \in Slots PROVE Copied(q, p)'
    <2>1. CASE p = r \/ q = r
        BY <2>1
    <2>2. CASE p # r /\ q # r
        BY <2>2 DEF MateInv, Copied, Private, Locally, Alone
    <2> QED
        BY <2>1, <2>2
<1>3. ASSUME NEW p \in Slots, NEW q \in Slots PROVE Mated(q, p)'
    <2>1. CASE p # q /\ (p = r \/ q = r)
        BY <2>1
    <2>2. CASE p = q
        BY <2>2 DEF Mated
    <2>3. CASE p # r /\ q # r
        <3>1. /\ uinfo'[p] = uinfo[p] /\ pc'[p] = pc[p] /\ kind'[p] = kind[p]
              /\ pc'[q] = pc[q] /\ fd'[q] = fd[q] /\ ui'[q] = ui[q] /\ kind'[q] = kind[q]
              /\ q \in mixed' <=> q \in mixed
            BY <2>3 DEF Private, Locally, Alone
        <3>2. Linked(q, p)' => Linked(q, p)
            <4>1. q # Nobody
                BY Numbers
            <4> QED
                BY <2>3, <3>1, <4>1, PortKept DEF Linked
        <3> QED
            BY <3>1, <3>2 DEF MateInv, Mated
    <2> QED
        BY <2>1, <2>2, <2>3
<1> QED
    BY <1>1, <1>2, <1>3 DEF MateInv

(* What most steps of r are: as a caller it keeps its page, or is at none   *)
(* any more; as an answerer it goes on as it was, or is connected no longer.*)
AsCaller(r) ==
    \/ uinfo'[r].sockaddr = 0
    \/ pc'[r] \notin {"read", "session"} \cup Paging_
    \/ /\ kind'[r] = kind[r]
       /\ pc'[r] \in {"read", "session"} => ~sock'[Port(r)].open
       /\ \/ pc[r] \in Paging_
          \/ /\ pc[r] \in {"read", "session"} /\ pc'[r] \in {"read", "session"}
             /\ sock'[Port(r)].peer = sock[Port(r)].peer

AsAnswerer(r) ==
    \/ fd'[r] = 0 /\ pc'[r] # "prompt"
    \/ /\ ui'[r] = ui[r] /\ fd'[r] = fd[r] /\ kind'[r] = kind[r]
       /\ r \in mixed' <=> r \in mixed
       /\ pc[r] \in {"reason", "write", "session"}
       /\ pc'[r] \in {"reason", "write", "session"}

Plain(r) ==
    /\ uinfo'[r].sockaddr \in {uinfo[r].sockaddr, 0}
    /\ ui'[r] = ui[r] \/ ui'[r].port = 0
    /\ AsCaller(r) /\ AsAnswerer(r)

LEMMA PlainKeeps ==
    ASSUME MateInv, CallInv', TypedInv', NEW r \in Slots, Private(r), Plain(r), Side(r)'
    PROVE  MateInv'
<1>1. \A q \in Slots : q # r =>
         /\ uinfo'[q] = uinfo[q] /\ pc'[q] = pc[q] /\ kind'[q] = kind[q]
         /\ fd'[q] = fd[q] /\ ui'[q] = ui[q]
         /\ q \in mixed' <=> q \in mixed
    BY DEF Private, Locally, Alone
<1>2. Port(r)' \in {Port(r), 0}
    BY DEF Plain, Port
<1>3. Shut(r)'
    BY <1>2 DEF Plain, AsCaller, Shut, Port, Paging_
<1>4. ASSUME NEW q \in Slots PROVE Copied(q, r)' /\ Copied(r, q)'
    <2>1. Copied(q, r) /\ Copied(r, q)
        BY DEF MateInv
    <2> QED
        BY <1>1, <2>1 DEF Plain, Copied
<1>5. ASSUME NEW q \in Slots, q # r PROVE Mated(q, r)'
    <2> SUFFICES ASSUME Linked(q, r)' PROVE kind'[q] = kind'[r] \/ q \in mixed'
        BY DEF Mated
    <2>1. uinfo'[r].sockaddr = uinfo[r].sockaddr /\ uinfo[r].sockaddr # 0
        BY DEF Linked, Plain
    <2>2. pc'[r] \in {"read", "session"} \cup Paging_
        BY DEF Linked
    <2>3. /\ kind'[r] = kind[r]
          /\ \/ pc[r] \in Paging_
             \/ /\ pc[r] \in {"read", "session"} /\ pc'[r] \in {"read", "session"}
                /\ sock'[Port(r)].peer = sock[Port(r)].peer
        BY <2>1, <2>2 DEF Plain, AsCaller
    <2>4. ui[q].port = uinfo[r].sockaddr /\ ui[q].port # 0 /\ pc'[q] = pc[q] /\ fd'[q] = fd[q]
        BY <1>1, <1>5, <2>1 DEF Linked
    <2>5. ASSUME pc[r] \in Paging_ PROVE Linked(q, r)
        BY <2>4, <2>5 DEF Linked
    <2>6. ASSUME pc[r] \notin Paging_ PROVE Linked(q, r)
        <3>1. Peer(r)' = Peer(r)
            BY <2>1, <2>3, <2>6 DEF Peer, Port
        <3>2. pc'[r] \notin Paging_
            BY <2>3, <2>6 DEF Paging_
        <3> QED
            BY <2>3, <2>4, <2>6, <3>1, <3>2 DEF Linked
    <2>7. Linked(q, r)
        BY <2>5, <2>6
    <2> QED
        BY <1>1, <1>5, <2>3, <2>7 DEF MateInv, Mated
<1>6. ASSUME NEW p \in Slots, p # r PROVE Mated(r, p)'
    <2> SUFFICES ASSUME Linked(r, p)' PROVE kind'[r] = kind'[p] \/ r \in mixed'
        BY DEF Mated
    <2>1. /\ ui'[r] = ui[r] /\ fd'[r] = fd[r] /\ kind'[r] = kind[r]
          /\ r \in mixed' <=> r \in mixed
          /\ pc[r] \in {"reason", "write", "session"}
          /\ pc'[r] \in {"reason", "write", "session"}
        BY DEF Linked, Plain, AsAnswerer
    <2>2. uinfo[p].sockaddr # 0 /\ uinfo'[p] = uinfo[p] /\ pc'[p] = pc[p] /\ r # Nobody
        BY <1>1, <1>6, Numbers DEF Linked
    <2>3. Peer(p)' \in {Peer(p), Nobody}
        BY <1>6, <2>2, PortKept
    <2>4. Linked(r, p)
        BY <2>1, <2>2, <2>3 DEF Linked
    <2> QED
        BY <1>1, <1>6, <2>1, <2>4 DEF MateInv, Mated
<1> QED
    BY <1>3, <1>4, <1>5, <1>6, MateKeeps

-----------------------------------------------------------------------------
(* The steps of a process change its own port, or what waits at another's. *)
LEMMA SocksStep ==
    ASSUME SocksOK, NEW r \in Slots, Step(r) \/ Keys(r)
    PROVE  SocksKept(r)
<1> USE DEF SocksKept
<1>1. CASE UNCHANGED sock
    BY <1>1
<1>2. CASE \/ Choose(r) \/ GiveUp(r) \/ Ring(r) \/ RingAgain(r) \/ CalleeLeft(r) \/ Accepted(r)
           \/ ServicePage(r) \/ Back(r) \/ TalkReply(r) \/ WhoCallsMe(r)
           \/ NoConnection(r) \/ Reason(r) \/ QueryEnd(r)
           \/ \E u \in Uids \ {User[r]} : Query(r, u)
    BY <1>1, <1>2 DEF Choose, GiveUp, Ring, RingAgain, CalleeLeft, Accepted, ServicePage,
                      Back, TalkReply, WhoCallsMe, NoConnection, Reason, QueryEnd, Query
<1>3. CASE Listen(r)
    BY <1>3 DEF Listen, SocksOK
<1>4. CASE sock' = Close(Port(r))
    BY <1>4 DEF Close, SocksOK
<1>5. CASE Cancel(r) \/ Refused(r) \/ Quit(r) \/ PeerGone(r)
    <2>1. UNCHANGED sock \/ sock' = Close(Port(r))
        BY <1>5 DEF Cancel, Refused, Quit, PeerGone, Leave
    <2> QED
        BY <1>1, <1>4, <2>1
<1>6. CASE Accept(r)
    <2> DEFINE n == Port(r)
               a == [sock EXCEPT ![n].open = FALSE]
               b == [a EXCEPT ![n].backlog = <<>>]
    <2>1. sock' = [b EXCEPT ![n].peer = Head(sock[n].backlog)]
        BY <1>6 DEF Accept
    <2>2. \A m \in Ports : m # n => a[m] = sock[m] /\ m \in DOMAIN a
        BY DEF SocksOK
    <2>3. \A m \in Ports : m # n => b[m] = a[m] /\ m \in DOMAIN b
        BY <2>2
    <2>4. \A m \in Ports : m # n => sock'[m] = b[m]
        BY <2>1, <2>3
    <2> QED
        BY <2>2, <2>3, <2>4
<1>7. CASE \E k \in Kinds : Page(r, k)
    <2>1. PICK n : sock' = [sock EXCEPT ![n].owner = r]
        BY <1>7 DEF Page
    <2>2. \A m \in Ports : sock'[m].peer = sock[m].peer /\ sock'[m].open = sock[m].open
        BY <2>1 DEF SocksOK, Socket
    <2> QED
        BY <2>2
<1>8. CASE \E key \in Bytes \cup {"other"} : Connect(r, key)
    <2>1. PICK n : sock' = [sock EXCEPT ![n].backlog = Append(@, r)]
        BY <1>8 DEF Connect, Dial
    <2>2. \A m \in Ports : sock'[m].peer = sock[m].peer /\ sock'[m].open = sock[m].open
        BY <2>1 DEF SocksOK, Socket
    <2> QED
        BY <2>2
<1>9. CASE Write(r)
    <2>1. sock' = sock \/ sock' = [sock EXCEPT ![fd[r]].sent[r] = answer[r]]
        BY <1>9 DEF Write
    <2>2. \A m \in Ports : sock'[m] = sock[m] \/ sock'[m] = [sock[m] EXCEPT !.sent[r] = answer[r]]
        BY <2>1 DEF SocksOK
    <2>3. \A x \in Socket : /\ [x EXCEPT !.sent[r] = answer[r]].peer = x.peer
                            /\ [x EXCEPT !.sent[r] = answer[r]].open = x.open
        BY DEF Socket
    <2>4. \A m \in Ports : sock[m] \in Socket
        BY DEF SocksOK
    <2> QED
        BY <2>2, <2>3, <2>4
<1>10. CASE HangUp(r)
    <2>1. \A m \in Ports : sock'[m] = Closed \/ sock'[m] = sock[m]
        BY <1>10 DEF HangUp
    <2>2. Closed.peer = Nobody /\ ~Closed.open
        BY DEF Closed
    <2> QED
        BY <2>1, <2>2
<1> QED
    BY <1>2, <1>3, <1>5, <1>6, <1>7, <1>8, <1>9, <1>10 DEF Step, Keys

LEMMA MateFacts ==
    ASSUME MateInv, NEW r \in Slots
    PROVE  /\ Tables /\ Fields(uinfo[r]) /\ EntriesOK /\ LocalsOK /\ SocksOK /\ Equipped
           /\ Numbered(r) /\ Shown(r) /\ Side(r) /\ Shut(r) /\ CallInv
BY TypesAre DEF MateInv, TypedInv, CallInv, PageInv, Own

(* The frame of a step of r, from the form of its assignments. *)
LEMMA PrivateFrame ==
    ASSUME MateInv, NEW r \in Slots, Step(r) \/ Keys(r),
           uinfo' = uinfo \/ \E f : uinfo' = [uinfo EXCEPT ![r] = f],
           utmp' = utmp \/ \E f : utmp' = [utmp EXCEPT ![r] = f],
           pc' = pc \/ \E f : pc' = [pc EXCEPT ![r] = f],
           uin' = uin \/ \E f : uin' = [uin EXCEPT ![r] = f],
           kind' = kind \/ \E f : kind' = [kind EXCEPT ![r] = f],
           ui' = ui \/ \E f : ui' = [ui EXCEPT ![r] = f],
           fd' = fd \/ \E f : fd' = [fd EXCEPT ![r] = f],
           mixed' \in {mixed, mixed \ {r}, mixed \cup {r}}
    PROVE  Private(r)
<1>1. SocksKept(r)
    BY SocksStep, MateFacts
<1>2. Locally(r)
    BY Framed, MateFacts
<1> QED
    BY <1>1, <1>2 DEF Private

(* The caller: a page, its end, and the call it takes. *)
LEMMA CallerMates ==
    ASSUME MateInv, CallInv', TypedInv', NEW r \in Slots,
           Choose(r) \/ GiveUp(r) \/ Ring(r) \/ Listen(r) \/ RingAgain(r)
           \/ CalleeLeft(r) \/ Cancel(r) \/ Accept(r) \/ Refused(r) \/ NoConnection(r)
    PROVE  MateInv'
<1>o. /\ Tables /\ Fields(uinfo[r]) /\ EntriesOK /\ LocalsOK /\ SocksOK
      /\ Shown(r) /\ Side(r) /\ Shut(r)
    BY MateFacts
<1>a. Step(r) \/ Keys(r)
    BY DEF Step, Keys
<1>1. CASE Choose(r) \/ GiveUp(r) \/ Ring(r) \/ Listen(r) \/ RingAgain(r) \/ NoConnection(r)
    <2>1. /\ UNCHANGED <<uinfo, utmp, kind, ui, fd, mixed>>
          /\ \E l \in {"ask", "back"} \cup Paging_ :
                /\ Goto(r, l)
                /\ pc[r] \in {"idle", "ask", "prompt"} \cup Paging_
                /\ l \in Paging_ => pc[r] \in Paging_
          /\ uin' = uin \/ \E q : uin' = [uin EXCEPT ![r] = q]
        <3>1. CASE RingAgain(r)
            <4>1. pc' = [pc EXCEPT ![r] = "wait"] /\ pc[r] = "wait"
                BY <1>o, <3>1 DEF RingAgain, Waiting, LocalsOK
            <4> QED
                BY <3>1, <4>1 DEF RingAgain, local, Goto, Paging_
        <3> QED
            BY <1>1, <3>1 DEF Choose, GiveUp, Ring, Listen, NoConnection, local, Paging_
    <2>2. Private(r)
        BY <1>a, <2>1, PrivateFrame DEF Goto
    <2>3. /\ pc'[r] \in {"ask", "back"} \cup Paging_ /\ fd'[r] = 0
          /\ pc'[r] \in Paging_ => pc[r] \in Paging_
        BY <1>o, <2>1 DEF Goto, Side, LocalsOK
    <2>4. Plain(r)
        BY <2>1, <2>3 DEF Plain, AsCaller, AsAnswerer, Paging_
    <2>5. Side(r)'
        BY <2>3 DEF Side, Paging_
    <2> QED
        BY <2>2, <2>4, <2>5, PlainKeeps
<1>2. CASE CalleeLeft(r) \/ Cancel(r) \/ Accept(r) \/ Refused(r)
    <2>1. PICK e \in {Hide(uinfo[r]), Deaf(uinfo[r])}, l \in {"back", "read"} :
              Keep(r, e) /\ Goto(r, l) /\ (l = "read" => Accept(r))
        BY <1>2 DEF CalleeLeft, Cancel, Accept, Refused
    <2>2. UNCHANGED <<uin, kind, ui, fd, mixed>> /\ pc[r] \in {"wait", "read"}
          /\ (Accept(r) => pc[r] = "wait")
        BY <1>2 DEF CalleeLeft, Cancel, Accept, Refused, Waiting, CanRead, local
    <2>3. e.sockaddr = uinfo[r].sockaddr
        BY <1>o, Hidden
    <2>4. Private(r)
        BY <1>a, <2>1, <2>2, PrivateFrame DEF Keep, Goto
    <2>5. pc'[r] = l /\ uinfo'[r].sockaddr = uinfo[r].sockaddr /\ fd'[r] = 0
        BY <1>o, <2>1, <2>2, <2>3 DEF Keep, Goto, LocalsOK, EntriesOK, Side, Paging_
    <2>6. ASSUME l = "read", uinfo[r].sockaddr # 0 PROVE ~sock'[Port(r)].open
        <3> DEFINE n == Port(r)
                   a == [sock EXCEPT ![n].open = FALSE]
                   b == [a EXCEPT ![n].backlog = <<>>]
        <3>1. n \in Ports
            BY <1>o, <2>6, EntryType DEF Port, Entry
        <3>2. sock' = [b EXCEPT ![n].peer = Head(sock[n].backlog)]
            BY <2>1, <2>6 DEF Accept
        <3>3. a \in [Ports -> Socket] /\ a[n].open = FALSE
            BY <1>o, <3>1 DEF SocksOK, Socket
        <3> HIDE DEF a
        <3>4. b \in [Ports -> [owner : Slots \cup {Nobody}, open : BOOLEAN,
                    backlog : {<<>>} \cup Seq(Slots), peer : Slots \cup {Nobody},
                    sent : [Slots -> Bytes \cup {""}]]] /\ b[n].open = FALSE
            BY <3>1, <3>3 DEF Socket
        <3> HIDE DEF b
        <3>5. sock'[n].open = FALSE
            BY <3>1, <3>2, <3>4
        <3> QED
            BY <3>5
    <2>7. Plain(r)
        BY <2>1, <2>2, <2>5, <2>6 DEF Plain, AsCaller, AsAnswerer, Paging_
    <2>8. Side(r)'
        BY <2>5 DEF Side, Paging_
    <2> QED
        BY <2>4, <2>7, <2>8, PlainKeeps
<1> QED
    BY <1>1, <1>2

(* A new port is in nobody's copy. *)
LEMMA PageMates ==
    ASSUME MateInv, CallInv', TypedInv', NEW r \in Slots, NEW k \in Kinds, Page(r, k)
    PROVE  MateInv'
<1>o. EntriesOK /\ LocalsOK /\ Equipped /\ Side(r) /\ pages \in Nat
    BY MateFacts DEF LocalsOK
<1>1. uinfo' = [uinfo EXCEPT ![r] = uinfo'[r]] /\ uinfo'[r].sockaddr = pages + 1
    BY <1>o, PagedPort
<1>2. /\ UNCHANGED <<uin, ui, fd, mixed>> /\ pc[r] = "ask" /\ Goto(r, "ring")
      /\ kind' = [kind EXCEPT ![r] = k]
      /\ utmp' = utmp \/ \E f : utmp' = [utmp EXCEPT ![r] = f]
    BY DEF Page, SetMode, Keep, Publish
<1>3. Step(r) \/ Keys(r)
    BY DEF Keys
<1>4. Private(r)
    BY <1>1, <1>2, <1>3, PrivateFrame DEF Goto
<1>5. pc'[r] = "ring" /\ fd'[r] = 0
    BY <1>o, <1>2 DEF Goto, LocalsOK, Side
<1>6. Shut(r)' /\ Side(r)'
    BY <1>5 DEF Shut, Side, Paging_
<1>7. \A q \in Slots : ui'[q].port # uinfo'[r].sockaddr
    <2>1. \A q \in Slots : ui[q].port \in 0 .. pages
        BY DEF MateInv, CallInv, Numbered
    <2> QED
        BY <1>o, <1>1, <1>2, <2>1
<1>8. ASSUME NEW q \in Slots PROVE Copied(q, r)' /\ Copied(r, q)'
    <2>1. Copied(q, r)'
        BY <1>7 DEF Copied
    <2>2. q # r => Copied(r, q)'
        BY <1>2, <1>4 DEF Copied, MateInv, Private, Locally, Alone
    <2> QED
        BY <2>1, <2>2
<1>9. ASSUME NEW q \in Slots \ {r} PROVE Mated(q, r)' /\ Mated(r, q)'
    BY <1>5, <1>7 DEF Mated, Linked
<1> QED
    BY <1>4, <1>6, <1>8, <1>9, MateKeeps

(* Who has taken a call and is not cut off reads the byte of its answerer. *)
LEMMA AcceptedMates ==
    ASSUME MateInv, CallInv', TypedInv', NEW r \in Slots, Accepted(r)
    PROVE  MateInv'
<1>o. /\ Tables /\ Fields(uinfo[r]) /\ EntriesOK /\ LocalsOK /\ SocksOK
      /\ Shut(r) /\ Side(r)
    BY MateFacts
<1>1. PICK c \in Read(r) \ {"n", "m"} :
         LET k == IF c = "other" THEN "talk" ELSE kind[r]
         IN  kind' = [kind EXCEPT ![r] = k] /\ SetMode(r, uinfo[r], k)
    BY DEF Accepted
<1>2. PICK k : /\ k = IF c = "other" THEN "talk" ELSE kind[r]
               /\ kind' = [kind EXCEPT ![r] = k] /\ SetMode(r, uinfo[r], k)
    BY <1>1
<1>3. PICK f : ModeSet(r, uinfo[r], k, f)
    BY <1>o, <1>2, ModeIsSet
<1>4. /\ UNCHANGED <<uin, ui, fd, mixed, sock>> /\ pc[r] = "read" /\ Goto(r, "session")
      /\ CanRead(r)
    BY DEF Accepted, CanRead
<1>5. Step(r) \/ Keys(r)
    BY DEF Step
<1>6. Private(r)
    BY <1>2, <1>3, <1>4, <1>5, PrivateFrame DEF ModeSet, Goto
<1>7. /\ pc'[r] = "session" /\ kind'[r] = k /\ fd'[r] = 0
      /\ uinfo'[r].sockaddr = uinfo[r].sockaddr
    BY <1>o, <1>2, <1>3, <1>4 DEF Goto, LocalsOK, Side, ModeSet, EntriesOK
<1>8. Shut(r)' /\ Side(r)'
    BY <1>o, <1>4, <1>7 DEF Shut, Side, Port, Paging_
<1>9. ASSUME NEW q \in Slots PROVE Copied(q, r)' /\ Copied(r, q)'
    <2>1. Copied(q, r) /\ Copied(r, q)
        BY DEF MateInv
    <2> QED
        BY <1>4, <1>6, <1>7, <2>1 DEF Copied, Private, Locally, Alone
<1>10. ASSUME NEW q \in Slots, q # r PROVE Mated(q, r)'
    <2> SUFFICES ASSUME Linked(q, r)' PROVE kind'[q] = kind'[r] \/ q \in mixed'
        BY DEF Mated
    <2>1. /\ pc'[q] = pc[q] /\ kind'[q] = kind[q] /\ fd' = fd /\ ui' = ui /\ mixed' = mixed
        BY <1>4, <1>6, <1>10 DEF Private, Locally, Alone
    <2>2. Peer(r)' = Peer(r)
        BY <1>4, <1>7 DEF Peer, Port
    <2>3. /\ ui[q].port = uinfo[r].sockaddr /\ ui[q].port # 0
          /\ pc[q] \in {"reason", "write", "session"} /\ fd[q] # 0 /\ Peer(r) = q
        BY <1>7, <2>1, <2>2 DEF Linked, Paging_
    <2>4. Linked(q, r)
        BY <1>4, <2>3 DEF Linked
    <2>5. fd[q] = Port(r)
        BY <2>3 DEF MateInv, CallInv, Numbered, Port
    <2>6. Port(r) \in Ports
        BY <1>o, <2>3, EntryType DEF Port, Entry
    <2>7. sock[Port(r)].sent[q] \in Bytes
        BY <1>o, <1>4, <2>3, <2>5, <2>6 DEF CanRead, CallerCut, SocksOK, Socket
    <2>8. c = sock[Port(r)].sent[q] /\ c # "other"
        BY <2>3, <2>7 DEF Read, Bytes
    <2>9. kind'[r] = kind[r]
        BY <1>2, <1>7, <2>8
    <2> QED
        BY <2>1, <2>4, <2>9 DEF MateInv, Mated
<1>11. ASSUME NEW q \in Slots PROVE Mated(r, q)'
    BY <1>7 DEF Mated, Linked
<1> QED
    BY <1>6, <1>8, <1>9, <1>10, <1>11, MateKeeps

(* A session and its end; the answerer once it is connected; the rest. *)
LEMMA SessionMates ==
    ASSUME MateInv, CallInv', TypedInv', NEW r \in Slots,
           Quit(r) \/ PeerGone(r) \/ ServicePage(r) \/ Back(r) \/ Reason(r) \/ Write(r)
           \/ (\E u \in Uids \ {User[r]} : Query(r, u)) \/ QueryEnd(r) \/ HangUp(r)
    PROVE  MateInv'
<1>o. /\ Tables /\ Fields(uinfo[r]) /\ EntriesOK /\ LocalsOK /\ SocksOK
      /\ Shut(r) /\ Side(r) /\ Shown(r)
    BY MateFacts
<1>a. Step(r) \/ Keys(r)
    BY DEF Step, Keys
<1>1. CASE Quit(r) \/ PeerGone(r)
    <2>1. Leave(r)
        BY <1>1 DEF Quit, PeerGone
    <2> DEFINE e == IF uinfo[r].mode = "talk"
                    THEN [uinfo[r] EXCEPT !.mode = OldMode(r)] ELSE uinfo[r]
               f == IF IsCaller(r) THEN [e EXCEPT !.destuid = 0] ELSE e
    <2>2. Fields(e) /\ e.sockaddr = uinfo[r].sockaddr
        <3>1. [uinfo[r] EXCEPT !.mode = OldMode(r)] =
                [active |-> uinfo[r].active, mode |-> OldMode(r),
                 sockactive |-> uinfo[r].sockactive, sockaddr |-> uinfo[r].sockaddr,
                 destuid |-> uinfo[r].destuid]
            BY <1>o, OneField
        <3> QED
            BY <3>1, <1>o DEF Fields
    <2>3. /\ uinfo' = [uinfo EXCEPT ![r] = f]
          /\ utmp' = [utmp EXCEPT ![r] = IF uinfo[r].mode = "talk" THEN e ELSE @]
          /\ fd' = [fd EXCEPT ![r] = 0] /\ Goto(r, "back") /\ UNCHANGED <<uin, kind, ui, mixed>>
        BY <2>1 DEF Leave
    <2> HIDE DEF e
    <2>4. f.sockaddr = uinfo[r].sockaddr
        BY <2>2, DestIsSet
    <2> HIDE DEF f
    <2>5. Private(r)
        BY <1>a, <2>3, PrivateFrame DEF Goto
    <2>6. fd'[r] = 0 /\ pc'[r] = "back" /\ uinfo'[r].sockaddr = uinfo[r].sockaddr
        BY <1>o, <2>3, <2>4 DEF Goto, LocalsOK, EntriesOK
    <2>7. Plain(r) /\ Side(r)'
        BY <2>3, <2>6 DEF Plain, AsCaller, AsAnswerer, Side, Paging_
    <2> QED
        BY <2>5, <2>7, PlainKeeps
<1>2. CASE ServicePage(r)
    <2>1. UNCHANGED <<pc, utmp, uin, kind, ui, fd, mixed, sock>> /\ pc[r] = "session"
        BY <1>2 DEF ServicePage, Keep, local
    <2>2. PICK f : uinfo' = [uinfo EXCEPT ![r] = f] /\ f.sockaddr = uinfo[r].sockaddr
        <3>1. CASE UNCHANGED uinfo
            BY <1>o, <3>1 DEF EntriesOK
        <3>2. CASE \E u : uinfo' = [uinfo EXCEPT ![r] = [uinfo[r] EXCEPT !.destuid = u]]
            <4>1. \A u : [uinfo[r] EXCEPT !.destuid = u].sockaddr = uinfo[r].sockaddr
                BY <1>o, DestIsSet
            <4> QED
                BY <3>2, <4>1
        <3> QED
            BY <1>2, <3>1, <3>2 DEF ServicePage, Keep
    <2>3. Private(r)
        BY <1>a, <2>1, <2>2, PrivateFrame
    <2>4. uinfo'[r].sockaddr = uinfo[r].sockaddr
        BY <1>o, <2>2 DEF EntriesOK
    <2>5. uinfo[r].sockaddr # 0 => ~sock[Port(r)].open
        BY <1>o, <2>1 DEF Shut
    <2>6. Plain(r) /\ Side(r)'
        BY <2>1, <2>4, <2>5 DEF Plain, AsCaller, AsAnswerer, Side, Paging_
    <2> QED
        BY <2>3, <2>6, PlainKeeps
<1>3. CASE Back(r)
    <2> DEFINE e == [uinfo[r] EXCEPT !.sockaddr = 0]
    <2>1. e = [active |-> uinfo[r].active, mode |-> uinfo[r].mode,
               sockactive |-> uinfo[r].sockactive, sockaddr |-> 0,
               destuid |-> uinfo[r].destuid]
        BY <1>o, OneField
    <2>2. Fields(e) /\ e.sockaddr = 0
        BY <2>1 DEF Fields
    <2>3. SetMode(r, e, "menu")
        BY <1>3 DEF Back
    <2> HIDE DEF e
    <2>4. PICK f : ModeSet(r, e, "menu", f)
        BY <2>2, <2>3, ModeIsSet
    <2>5. /\ uin' = [uin EXCEPT ![r] = Nobody] /\ kind' = [kind EXCEPT ![r] = "talk"]
          /\ ui' = [ui EXCEPT ![r] = NoCall] /\ fd' = [fd EXCEPT ![r] = 0]
          /\ Goto(r, "idle") /\ mixed' = mixed \ {r}
        BY <1>3 DEF Back, Forget
    <2>6. Private(r)
        BY <1>a, <2>4, <2>5, PrivateFrame DEF ModeSet, Goto
    <2>7. fd'[r] = 0 /\ pc'[r] = "idle" /\ uinfo'[r].sockaddr = 0 /\ ui'[r].port = 0
        BY <1>o, <2>2, <2>4, <2>5 DEF Goto, ModeSet, LocalsOK, EntriesOK, NoCall
    <2>8. Plain(r) /\ Side(r)'
        BY <2>7 DEF Plain, AsCaller, AsAnswerer, Side, Paging_
    <2> QED
        BY <2>6, <2>8, PlainKeeps
<1>4. CASE Reason(r)
    <2>1. /\ pc[r] = "reason" /\ Goto(r, "write")
          /\ UNCHANGED <<uinfo, utmp, uin, kind, ui, fd, mixed>>
        BY <1>4 DEF Reason, local
    <2>2. Private(r)
        BY <1>a, <2>1, PrivateFrame DEF Goto
    <2>3. pc'[r] = "write" /\ uinfo'[r].sockaddr = 0
        BY <1>o, <2>1 DEF Goto, LocalsOK, Side
    <2>4. Plain(r) /\ Side(r)'
        BY <2>1, <2>3 DEF Plain, AsCaller, AsAnswerer, Side, Paging_
    <2> QED
        BY <2>2, <2>4, PlainKeeps
<1>5. CASE Write(r)
    <2>1. pc[r] = "write" /\ UNCHANGED <<uin, kind, ui, mixed>> /\ uinfo[r].sockaddr = 0
        BY <1>5, <1>o DEF Write, Side
    <2>2. CASE SetMode(r, uinfo[r], kind[r]) /\ Goto(r, "session") /\ UNCHANGED fd
        <3>1. PICK f : ModeSet(r, uinfo[r], kind[r], f)
            BY <2>2, <1>o, ModeIsSet
        <3>2. Private(r)
            BY <1>a, <2>1, <2>2, <3>1, PrivateFrame DEF ModeSet, Goto
        <3>3. pc'[r] = "session" /\ uinfo'[r].sockaddr = 0
            BY <1>o, <2>1, <2>2, <3>1 DEF ModeSet, Goto, LocalsOK, EntriesOK
        <3>4. Plain(r) /\ Side(r)'
            BY <2>1, <2>2, <3>3 DEF Plain, AsCaller, AsAnswerer, Side, Paging_
        <3> QED
            BY <3>2, <3>4, PlainKeeps
    <2>3. CASE /\ fd' = [fd EXCEPT ![r] = 0] /\ Goto(r, "back")
               /\ UNCHANGED <<uinfo, utmp>>
        <3>1. Private(r)
            BY <1>a, <2>1, <2>3, PrivateFrame DEF Goto
        <3>2. pc'[r] = "back" /\ fd'[r] = 0
            BY <1>o, <2>3 DEF Goto, LocalsOK
        <3>3. Plain(r) /\ Side(r)'
            BY <2>1, <2>3, <3>2 DEF Plain, AsCaller, AsAnswerer, Side, Paging_
        <3> QED
            BY <3>1, <3>3, PlainKeeps
    <2> QED
        BY <1>5, <2>2, <2>3 DEF Write
<1>6. CASE \E u \in Uids \ {User[r]} : Query(r, u)
    <2>1. PICK u : Query(r, u)
        BY <1>6
    <2> DEFINE e == [uinfo[r] EXCEPT !.mode = "query"]
               f == [e EXCEPT !.destuid = u]
    <2>2. Publish(r, f) /\ pc[r] = "idle" /\ Goto(r, "query")
          /\ UNCHANGED <<uin, kind, ui, fd, mixed>>
        BY <2>1 DEF Query, local
    <2>3. e = [active |-> uinfo[r].active, mode |-> "query",
               sockactive |-> uinfo[r].sockactive, sockaddr |-> uinfo[r].sockaddr,
               destuid |-> uinfo[r].destuid]
        BY <1>o, OneField
    <2>4. Fields(e) /\ e.sockaddr = 0
        BY <2>2, <2>3, <1>o DEF Shown, Fields
    <2> HIDE DEF e
    <2>5. f.sockaddr = 0
        BY <2>4, DestIsSet
    <2> HIDE DEF f
    <2>6. Private(r)
        BY <1>a, <2>2, PrivateFrame DEF Publish, Goto
    <2>7. pc'[r] = "query" /\ fd'[r] = 0 /\ uinfo'[r].sockaddr = 0
        BY <1>o, <2>2, <2>5 DEF Publish, Goto, Side, LocalsOK, EntriesOK
    <2>8. Plain(r) /\ Side(r)'
        BY <2>2, <2>7 DEF Plain, AsCaller, AsAnswerer, Side, Paging_
    <2> QED
        BY <2>6, <2>8, PlainKeeps
<1>7. CASE QueryEnd(r)
    <2> DEFINE f == [uinfo[r] EXCEPT !.destuid = 0]
    <2>1. f.sockaddr = uinfo[r].sockaddr
        BY <1>o, DestIsSet
    <2>2. /\ Keep(r, f) /\ pc[r] = "query" /\ Goto(r, "back")
          /\ UNCHANGED <<uin, kind, ui, fd, mixed>>
        BY <1>7 DEF QueryEnd, local
    <2> HIDE DEF f
    <2>3. Private(r)
        BY <1>a, <2>2, PrivateFrame DEF Keep, Goto
    <2>4. pc'[r] = "back" /\ fd'[r] = 0 /\ uinfo'[r].sockaddr = uinfo[r].sockaddr
        BY <1>o, <2>1, <2>2 DEF Keep, Goto, Side, LocalsOK, EntriesOK
    <2>5. Plain(r) /\ Side(r)'
        BY <2>2, <2>4 DEF Plain, AsCaller, AsAnswerer, Side, Paging_
    <2> QED
        BY <2>3, <2>5, PlainKeeps
<1>8. CASE HangUp(r)
    <2>1. /\ \E e : Publish(r, e)
          /\ uin' = [uin EXCEPT ![r] = Nobody] /\ kind' = [kind EXCEPT ![r] = "talk"]
          /\ ui' = [ui EXCEPT ![r] = NoCall] /\ fd' = [fd EXCEPT ![r] = 0]
          /\ Goto(r, "gone") /\ mixed' = mixed \ {r}
        BY <1>8 DEF HangUp, Forget
    <2>2. Private(r)
        BY <1>a, <2>1, PrivateFrame DEF Publish, Goto
    <2>3. pc'[r] = "gone" /\ fd'[r] = 0 /\ ui'[r].port = 0
        BY <1>o, <2>1 DEF Goto, LocalsOK, NoCall
    <2>4. uinfo'[r].sockaddr = 0
        <3> DEFINE h == Hide(uinfo[r])
                   e == [h EXCEPT !.active = FALSE]
                   f == [e EXCEPT !.sockaddr = 0]
        <3>1. Publish(r, f)
            BY <1>8 DEF HangUp
        <3>2. h \in Entry
            BY <1>o, EntryType
        <3> HIDE DEF h
        <3>3. e \in Entry
            BY <3>2, FieldTypes
        <3> HIDE DEF e
        <3>4. f.sockaddr = 0
            BY <3>3 DEF Entry
        <3> HIDE DEF f
        <3> QED
            BY <1>o, <3>1, <3>4 DEF Publish, EntriesOK
    <2>5. Plain(r) /\ Side(r)'
        BY <2>3, <2>4 DEF Plain, AsCaller, AsAnswerer, Side, Paging_
    <2> QED
        BY <2>2, <2>5, PlainKeeps
<1> QED
    BY <1>1, <1>2, <1>3, <1>4, <1>5, <1>6, <1>7, <1>8

(* What is copied is a slot and its port; what the second search finds     *)
(* there is the page of that port; and only a page is connected to.        *)
LEMMA ReplyMates ==
    ASSUME MateInv, CallInv', TypedInv', NEW r \in Slots, TalkReply(r)
    PROVE  MateInv'
<1>o. /\ Tables /\ Fields(uinfo[r]) /\ EntriesOK /\ LocalsOK /\ SocksOK
      /\ Shown(r) /\ Side(r)
    BY MateFacts
<1>a. Step(r) \/ Keys(r)
    BY DEF Step
<1> DEFINE s == cmpunums(r)
<1>1. pc[r] = "idle" /\ UNCHANGED <<uin, kind, fd, mixed, utmp>>
      /\ uinfo[r].sockaddr = 0 /\ fd[r] = 0
    BY <1>o DEF TalkReply, Keep, Shown, Side
<1>2. CASE UNCHANGED <<uinfo, ui, pc>>
    <2>1. Private(r)
        BY <1>a, <1>1, <1>2, PrivateFrame
    <2>2. Plain(r) /\ Side(r)'
        BY <1>1, <1>2 DEF Plain, AsCaller, AsAnswerer, Side
    <2> QED
        BY <2>1, <2>2, PlainKeeps
<1>3. CASE /\ s # Nobody /\ Keep(r, [uinfo[r] EXCEPT !.destuid = User[s]])
           /\ ui' = [ui EXCEPT ![r] = [slot |-> s, port |-> utmp[s].sockaddr]]
           /\ Goto(r, "who")
    <2>1. s \in Slots
        BY <1>3, SearchFits
    <2>2. [uinfo[r] EXCEPT !.destuid = User[s]].sockaddr = 0
        BY <1>o, <1>1, DestIsSet
    <2> HIDE DEF s
    <2>3. Private(r)
        BY <1>a, <1>1, <1>3, PrivateFrame DEF Keep, Goto
    <2>4. /\ pc'[r] = "who" /\ fd'[r] = 0 /\ uinfo'[r].sockaddr = 0
          /\ ui'[r].slot = s /\ ui'[r].port = utmp[s].sockaddr
        BY <1>o, <1>1, <1>3, <2>2 DEF Keep, Goto, LocalsOK, EntriesOK
    <2>5. Shut(r)' /\ Side(r)'
        BY <2>4 DEF Shut, Side
    <2>6. ASSUME NEW q \in Slots PROVE Copied(q, r)' /\ Copied(r, q)'
        <3>1. Copied(q, r)'
            BY <2>4 DEF Copied
        <3>2. CASE q # r
            <4>1. uinfo'[q] = uinfo[q]
                BY <2>3, <3>2 DEF Private, Locally, Alone
            <4>2. uinfo[q].sockaddr # 0 /\ utmp[s].sockaddr = uinfo[q].sockaddr => s = q
                BY <2>1 DEF MateInv, CallInv, Apart
            <4> QED
                BY <2>4, <3>1, <4>1, <4>2 DEF Copied
        <3> QED
            BY <3>1, <3>2
    <2>7. ASSUME NEW q \in Slots \ {r} PROVE Mated(q, r)' /\ Mated(r, q)'
        BY <2>4 DEF Mated, Linked
    <2> QED
        BY <2>3, <2>5, <2>6, <2>7, MateKeeps
<1> QED
    BY <1>2, <1>3 DEF TalkReply

LEMMA WhoMates ==
    ASSUME MateInv, CallInv', TypedInv', NEW r \in Slots, WhoCallsMe(r)
    PROVE  MateInv'
<1>o. /\ Tables /\ Fields(uinfo[r]) /\ EntriesOK /\ LocalsOK /\ SocksOK
      /\ Shown(r) /\ Side(r) /\ CallInv
    BY MateFacts
<1>a. Step(r) \/ Keys(r)
    BY DEF Step
<1> DEFINE s == who_callme(r, User[ui[r].slot])
           v == IF s = Nobody THEN 0 ELSE User[s]
           k == IF s # Nobody /\ utmp[s].mode = "page_five" THEN "five" ELSE "talk"
<1>1. /\ pc[r] = "who" /\ UNCHANGED <<uin, ui, fd, utmp>> /\ Goto(r, "prompt")
      /\ Keep(r, [uinfo[r] EXCEPT !.destuid = v])
      /\ kind' = [kind EXCEPT ![r] = k]
      /\ mixed' = IF s = ui[r].slot THEN mixed \ {r} ELSE mixed \cup {r}
    BY DEF WhoCallsMe, Keep
<1>2. [uinfo[r] EXCEPT !.destuid = v].sockaddr = 0
    BY <1>o, <1>1, DestIsSet DEF Side
<1> HIDE DEF s, v
<1>3. Private(r)
    BY <1>a, <1>1, PrivateFrame DEF Keep, Goto
<1>4. /\ pc'[r] = "prompt" /\ fd'[r] = 0 /\ uinfo'[r].sockaddr = 0 /\ kind'[r] = k
    BY <1>o, <1>1, <1>2 DEF Keep, Goto, LocalsOK, EntriesOK, Side
<1>5. Shut(r)' /\ Side(r)'
    BY <1>4 DEF Shut, Side
<1>6. ASSUME NEW q \in Slots PROVE Copied(q, r)' /\ Copied(r, q)'
    <2>1. Copied(q, r)' /\ Copied(r, q)
        BY <1>4 DEF Copied, MateInv
    <2>2. q # r => uinfo'[q] = uinfo[q]
        BY <1>3 DEF Private, Locally, Alone
    <2> QED
        BY <1>1, <2>1, <2>2 DEF Copied
<1>7. ASSUME NEW q \in Slots, q # r PROVE Mated(q, r)'
    BY <1>4 DEF Mated, Linked
<1>8. ASSUME NEW p \in Slots, p # r PROVE Mated(r, p)'
    <2> SUFFICES ASSUME Linked(r, p)' PROVE kind'[r] = kind'[p] \/ r \in mixed'
        BY DEF Mated
    <2>1. uinfo'[p] = uinfo[p] /\ pc'[p] = pc[p] /\ kind'[p] = kind[p]
        BY <1>3, <1>8 DEF Private, Locally, Alone
    <2>2. pc[p] \in Paging_ /\ ui[r].slot = p
        BY <1>1, <1>4, <2>1 DEF Linked, MateInv, Copied
    <2>3. CASE s # p
        BY <1>1, <2>2, <2>3
    <2>4. CASE s = p
        <3>1. utmp[p].mode = IF kind[p] = "five" THEN "page_five" ELSE "page"
            BY <1>o, <2>2 DEF CallInv, PageInv, Own, PageOf
        <3>2. kind[p] \in Kinds /\ p # Nobody
            BY <1>o, Numbers DEF LocalsOK
        <3> QED
            BY <1>4, <2>1, <2>4, <3>1, <3>2 DEF Kinds
    <2> QED
        BY <2>3, <2>4
<1> QED
    BY <1>3, <1>5, <1>6, <1>7, <1>8, MateKeeps

LEMMA ConnectMates ==
    ASSUME MateInv, CallInv', TypedInv', NEW r \in Slots,
           \E key \in Bytes \cup {"other"} : Connect(r, key)
    PROVE  MateInv'
<1>o. EntriesOK /\ LocalsOK /\ Side(r)
    BY MateFacts
<1>a. Step(r) \/ Keys(r)
    BY DEF Keys
<1>1. PICK l \in {"reason", "write"} : Goto(r, l)
    BY DEF Connect, Dial
<1>2. /\ pc[r] = "prompt" /\ fd' = [fd EXCEPT ![r] = ui[r].port]
      /\ UNCHANGED <<uinfo, utmp, uin, kind, ui, mixed>>
      /\ sock[ui[r].port].open
    BY DEF Connect, Dial, Reachable
<1>3. Private(r)
    BY <1>a, <1>1, <1>2, PrivateFrame DEF Goto
<1>4. pc'[r] = l /\ uinfo'[r].sockaddr = 0
    BY <1>o, <1>1, <1>2 DEF Goto, LocalsOK, Side
<1>5. Shut(r)' /\ Side(r)'
    BY <1>4 DEF Shut, Side, Paging_
<1>6. ASSUME NEW q \in Slots PROVE Copied(q, r)' /\ Copied(r, q)'
    BY <1>2 DEF Copied, MateInv
<1>7. ASSUME NEW q \in Slots, q # r PROVE Mated(q, r)'
    BY <1>4 DEF Mated, Linked
<1>8. ASSUME NEW p \in Slots, p # r PROVE Mated(r, p)'
    <2> SUFFICES ASSUME Linked(r, p)' PROVE kind'[r] = kind'[p] \/ r \in mixed'
        BY DEF Mated
    <2>1. pc'[p] = pc[p] /\ uinfo[p].sockaddr = ui[r].port /\ ui[r].port # 0
        BY <1>2, <1>3, <1>8 DEF Private, Locally, Alone, Linked
    <2>2. pc[p] \notin {"read", "session"}
        BY <1>2, <2>1 DEF MateInv, Shut, Port
    <2>3. pc[p] \in Paging_
        BY <2>1, <2>2 DEF Linked
    <2>4. Linked(r, p)
        BY <1>2, <2>1, <2>3 DEF Linked
    <2> QED
        BY <1>2, <2>4 DEF MateInv, Mated
<1> QED
    BY <1>3, <1>5, <1>6, <1>7, <1>8, MateKeeps

LEMMA MateInit == Init => MateInv
<1> SUFFICES ASSUME Init PROVE MateInv
    OBVIOUS
<1>1. CallInv /\ TypedInv
    BY InitCallInv, TypedInit
<1>2. \A p \in Slots : Shut(p) /\ Side(p)
    BY DEF Init, Shut, Side
<1>3. \A p, q \in Slots : Mated(q, p) /\ Copied(q, p)
    BY DEF Init, Mated, Linked, Copied, NoCall, Empty
<1> QED
    BY <1>1, <1>2, <1>3 DEF MateInv

LEMMA MateStep == MateInv /\ [Next]_vars => MateInv'
<1> SUFFICES ASSUME MateInv, [Next]_vars PROVE MateInv'
    OBVIOUS
<1>o. CallInv' /\ TypedInv'
    BY StepCallInv, TypedStep DEF MateInv
<1>1. CASE Next
    <2>1. PICK r \in Slots : Step(r) \/ Keys(r)
        BY <1>1 DEF Next
    <2>2. CASE Step(r)
        BY <1>o, <2>2, CallerMates, AcceptedMates, SessionMates, ReplyMates, WhoMates DEF Step
    <2>3. CASE Keys(r)
        BY <1>o, <2>3, CallerMates, PageMates, SessionMates, ConnectMates DEF Keys
    <2> QED
        BY <2>1, <2>2, <2>3
<1>2. CASE UNCHANGED vars
    BY <1>o, <1>2 DEF vars, local, MateInv, Shut, Side, Mated, Linked, Copied, Peer, Port
<1> QED
    BY <1>1, <1>2

LEMMA MateInvSame == MateInv => SameKind
<1> SUFFICES ASSUME MateInv, NEW q \in Slots, pc[q] = "session", fd[q] # 0, Attended(q),
                    NEW p, p = sock[fd[q]].owner, pc[p] = "session"
             PROVE  kind[p] = kind[q] \/ q \in mixed
    BY DEF SameKind
<1>1. p \in Slots /\ Port(p) = fd[q] /\ Peer(p) = q
    BY DEF Attended
<1>2. ui[q].port = fd[q]
    BY DEF MateInv, CallInv, Numbered
<1>3. Linked(q, p)
    BY <1>1, <1>2 DEF Linked, Port
<1> QED
    BY <1>1, <1>3 DEF MateInv, Mated

(***************************************************************************)
(* Whoever is in a session with whom: both play five or both talk, unless  *)
(* another line of the caller's account came in between the two searches   *)
(* of the answerer (talk.c: talkreply, who_callme).  For any processes,    *)
(* accounts and number of pages.                                           *)
(***************************************************************************)
THEOREM SameKindHolds == Spec => []SameKind
BY MateInit, MateStep, MateInvSame, PTL DEF Spec
===============================================================================
