---------------------------- MODULE AccountsProofs ----------------------------
(* The account file and the cache of its ids, for any processes and names. *)
EXTENDS Accounts, SequenceTheorems, WellFoundedInduction, TLAPS

(***************************************************************************)
(* The types, in the groups of variables the steps change.                 *)
(***************************************************************************)
FileOK == passwd \in Seq(Record) /\ Len(passwd) <= MaxUsers
SharedOK ==
    /\ cache \in [Slots -> Name \cup {NoName, New}] /\ number \in 0 .. MaxUsers
    /\ aged \in BOOLEAN /\ updating \in BOOLEAN
    /\ ulock \in Proc \cup {NoProc} /\ plock \in Proc \cup {NoProc}
    /\ online \subseteq Proc /\ late \subseteq Proc
    /\ upset \subseteq {"reload", "taken", "entered"}
LocalsOK ==
    /\ pc \in [Proc -> Stages] /\ role \in [Proc -> Roles]
    /\ back \in [Proc -> {"name", "slot"}]
    /\ name \in [Proc -> Name \cup {NoName}]
    /\ num \in [Proc -> 0 .. MaxUsers] /\ rec \in [Proc -> Record]
    /\ pos \in [Proc -> 1 .. MaxUsers + 1] /\ size \in [Proc -> 0 .. MaxUsers]
Types == FileOK /\ SharedOK /\ LocalsOK

(***************************************************************************)
(* What is so of a process at each of its stages, whatever happened:       *)
(*   - only the one with the lock of PASSFILE looks for a free slot and    *)
(*     takes it;                                                           *)
(*   - the slot it works on is one of the file;                            *)
(*   - between reading its record again and writing it, the session's copy *)
(*     is the record, unless somebody else wrote.                          *)
(***************************************************************************)
Looking == {"resolve", "trylock", "fill", "close"}
Askers == {"register", "newcomer", "login", "delete", "level"}
Working == {"refresh", "write", "session", "leave"}
Accounted == Working \cup {"password", "enter", "check", "confirm", "edit"}
Placed == Accounted \cup {"cachenew", "form", "cacheuser", "cachegone"}
Taking == {"slot", "put", "cachenew"}

Control(p) ==
    /\ pc[p] = "off" => back[p] = "name"
    /\ pc[p] # "off" => name[p] \in Name
    /\ (pc[p] \in Looking /\ back[p] = "name") \/ pc[p] \in {"name", "get"}
       => role[p] \in Askers
    /\ (pc[p] \in Looking /\ back[p] = "slot") \/ pc[p] \in Taking
       => plock = p
    /\ pc[p] \in {"get", "put"} => num[p] \in Slots
    /\ pc[p] \in Placed => num[p] \in 1 .. Len(passwd)
    /\ p \in online <=> pc[p] \in Working
    /\ pc[p] = "write" /\ p \notin late =>
          /\ rec[p].level = passwd[num[p]].level
          /\ rec[p].count = passwd[num[p]].count

(***************************************************************************)
(* And while none of the mishaps happened: the record it works on is the   *)
(* one it looked up, and nobody deletes an account a session is using.     *)
(* The cache is then the file even while it is rebuilt: it differs only in *)
(* slots that a process has written to the file and has yet to put in the  *)
(* cache, and only a new account's is past the end of the cache.           *)
(***************************************************************************)
Right(p) == LET s == num[p] IN
    /\ pc[p] = "fill" => size[p] = Len(passwd)
    /\ pc[p] = "get" => Id(s) \in {name[p], NoName}
    /\ pc[p] = "put" => Id(s) = NoName /\ cache[s] = NoName /\ s <= Len(passwd) + 1
    /\ pc[p] = "cachenew" => Id(s) = New /\ cache[s] \in {NoName, New}
    /\ pc[p] = "form" => Id(s) = New /\ cache[s] = New
    /\ pc[p] = "cacheuser" => Id(s) = name[p] /\ cache[s] \in {New, name[p]}
    /\ pc[p] = "cachegone" => Id(s) = NoName
    /\ pc[p] \in Accounted => rec[p].id = name[p] /\ Id(s) = name[p]

Spared == \A p \in Proc : pc[p] = "confirm" => \A q \in online : num[q] # num[p]
Cached ==
    /\ \A s \in Slots \ Between : cache[s] = Id(s)
    /\ number <= Len(passwd)
    /\ \A s \in number + 1 .. Len(passwd) :
          \E p \in Proc : pc[p] = "cachenew" /\ num[p] = s
Upheld == (\A p \in Proc : Right(p)) /\ Spared /\ Cached
AccountInv ==
    Types /\ (\A p \in Proc : Control(p)) /\ (upset = {} => Upheld)

-----------------------------------------------------------------------------
(* Only process p moves. *)
Alone(p) == \A q \in Proc \ {p} :
    /\ pc'[q] = pc[q] /\ role'[q] = role[q] /\ back'[q] = back[q]
    /\ name'[q] = name[q] /\ num'[q] = num[q] /\ rec'[q] = rec[q]
    /\ pos'[q] = pos[q] /\ size'[q] = size[q]

\* A slot of the file and the record in it.
LEMMA FileSlots ==
    ASSUME FileOK
    PROVE  /\ Len(passwd) \in 0 .. MaxUsers
           /\ \A s \in 1 .. Len(passwd) :
                /\ passwd[s] \in Record /\ s \in Slots /\ Id(s) = passwd[s].id
           /\ \A s \in Slots : s > Len(passwd) => Id(s) = NoName
<1>1. Len(passwd) \in Nat /\ passwd \in [1 .. Len(passwd) -> Record]
    BY LenProperties DEF FileOK
<1> QED
    BY <1>1, BoundAssumption DEF FileOK, Id, Slots

\* First is one of the slots, if there are any.
LEMMA FirstOne ==
    ASSUME NEW S \in SUBSET Nat, S # {}
    PROVE  First(S) \in S
<1> DEFINE R == OpToRel(<, Nat)
<1>1. \A x, y \in S : x < y => <<x, y>> \in R
    BY DEF OpToRel
<1> HIDE DEF R
<1>2. IsWellFoundedOn(R, Nat)
    BY NatLessThanWellFounded DEF R
<1>3. PICK x \in S : \A y \in S : <<y, x>> \notin R
    BY <1>2, WFMin
<1>4. \A y \in S : x <= y
    <2>1. \A y \in S : ~(y < x)
        BY <1>1, <1>3
    <2> QED
        BY <2>1
<1>5. \E z \in S : \A y \in S : z <= y
    BY <1>3, <1>4
<1> QED
    BY <1>5 DEF First

(* substitute_record: the record is in its slot, every other one is as it was. *)
LEMMA PutFile ==
    ASSUME FileOK, NEW p \in Proc, NEW s \in Slots, NEW r \in Record, Put(p, s, r)
    PROVE  /\ FileOK' /\ Len(passwd') = (IF s > Len(passwd) THEN s ELSE Len(passwd))
           /\ passwd'[s] = r /\ Id(s)' = r.id
           /\ \A t \in Slots \ {s} : Id(t)' = Id(t)
           /\ \A t \in 1 .. Len(passwd) : t # s => passwd'[t] = passwd[t]
<1> DEFINE n == IF s > Len(passwd) THEN s ELSE Len(passwd)
           e(t) == IF t = s THEN r ELSE IF t <= Len(passwd) THEN passwd[t] ELSE Empty
<1>1. /\ Len(passwd) \in 0 .. MaxUsers
      /\ \A t \in 1 .. Len(passwd) : passwd[t] \in Record
    BY FileSlots
<1>2. passwd' = [t \in 1 .. n |-> e(t)]
    BY DEF Put, Stored
<1>3. n \in 0 .. MaxUsers
    BY <1>1, BoundAssumption DEF Slots
<1>4. Empty \in Record /\ Empty.id = NoName
    BY BoundAssumption DEF Empty, Record
<1>5. \A t \in 1 .. n : e(t) \in Record
    BY <1>1, <1>4
<1>6. passwd' \in [1 .. n -> Record]
    BY <1>2, <1>5
<1>7. passwd' \in Seq(Record)
    BY <1>3, <1>6, SeqDef
<1>8. Len(passwd') = n
    <2>1. Len(passwd') \in Nat /\ DOMAIN passwd' = 1 .. Len(passwd')
        BY <1>7, LenProperties
    <2>2. DOMAIN passwd' = 1 .. n
        BY <1>2
    <2> HIDE DEF n
    <2>3. n >= 1 /\ n \in Nat
        BY <1>3, BoundAssumption DEF n, Slots
    <2>4. n \in 1 .. Len(passwd')
        BY <2>1, <2>2, <2>3
    <2>5. Len(passwd') \in 1 .. n
        BY <2>1, <2>2, <2>4
    <2> QED
        BY <2>3, <2>4, <2>5
<1>9. s \in 1 .. n
    BY <1>1, BoundAssumption DEF Slots
<1>10. passwd'[s] = r
    BY <1>2, <1>9
<1>11. Id(s)' = r.id
    BY <1>3, <1>8, <1>9, <1>10 DEF Id
<1>12. ASSUME NEW t \in Slots \ {s} PROVE Id(t)' = Id(t)
    <2>1. CASE t <= Len(passwd)
        BY <1>1, <1>2, <1>8, <2>1, BoundAssumption DEF Id, Slots
    <2>2. CASE ~(t <= Len(passwd))
        BY <1>1, <1>2, <1>4, <1>8, <2>2, BoundAssumption DEF Id, Slots
    <2> QED
        BY <2>1, <2>2
<1>13. ASSUME NEW t \in 1 .. Len(passwd), t # s PROVE passwd'[t] = passwd[t]
    <2>1. t \in 1 .. n
        BY <1>1, BoundAssumption DEF Slots
    <2> QED
        BY <1>2, <1>13, <2>1
<1>14. Len(passwd') <= MaxUsers
    BY <1>3, <1>8, BoundAssumption
<1> HIDE DEF e
<1> QED
    BY <1>7, <1>8, <1>10, <1>11, <1>12, <1>13, <1>14 DEF FileOK

-----------------------------------------------------------------------------
(* What a step of one process leaves of what is so of the others. *)
LEMMA ControlOthers ==
    ASSUME Types, FileOK', \A q \in Proc : Control(q), NEW p \in Proc, Alone(p),
           Len(passwd) <= Len(passwd'),
           \A q \in Proc \ {p} : (plock = q => plock' = q) /\ (q \in online' <=> q \in online),
           \A q \in Proc \ {p} : q \notin late' /\ num[q] \in 1 .. Len(passwd) =>
               q \notin late /\ passwd'[num[q]] = passwd[num[q]]
    PROVE  \A q \in Proc \ {p} : Control(q)'
<1> SUFFICES ASSUME NEW q \in Proc \ {p} PROVE Control(q)'
    OBVIOUS
<1>1. Control(q)
    OBVIOUS
<1>2. /\ pc'[q] = pc[q] /\ role'[q] = role[q] /\ back'[q] = back[q]
      /\ name'[q] = name[q] /\ num'[q] = num[q] /\ rec'[q] = rec[q]
    BY DEF Alone
<1>3. Len(passwd) \in 0 .. MaxUsers /\ Len(passwd') \in Nat
    BY FileSlots, LenProperties DEF FileOK, Types
<1>4. pc'[q] \in Placed => num'[q] \in 1 .. Len(passwd')
    BY <1>1, <1>2, <1>3, BoundAssumption DEF Control
<1>5. pc'[q] = "write" /\ q \notin late' =>
          /\ rec'[q].level = passwd'[num'[q]].level
          /\ rec'[q].count = passwd'[num'[q]].count
    BY <1>1, <1>2 DEF Control, Placed, Accounted, Working
<1> QED
    BY <1>1, <1>2, <1>4, <1>5 DEF Control

LEMMA RightOthers ==
    ASSUME Types, FileOK', \A q \in Proc : Control(q) /\ Right(q), NEW p \in Proc, Alone(p),
           Len(passwd) <= Len(passwd'),
           \A q \in Proc \ {p} : pc[q] = "fill" => Len(passwd') = Len(passwd),
           \A q \in Proc \ {p} : \A t \in Slots :
               num[q] = t /\ pc[q] \in Placed \cup {"get", "put"} => Id(t)' = Id(t),
           \A t \in Slots : cache'[t] = cache[t] \/ cache'[t] = Id(t)
    PROVE  \A q \in Proc \ {p} : Right(q)'
<1> SUFFICES ASSUME NEW q \in Proc \ {p} PROVE Right(q)'
    OBVIOUS
<1>1. Control(q) /\ Right(q)
    OBVIOUS
<1>2. /\ pc'[q] = pc[q] /\ role'[q] = role[q] /\ back'[q] = back[q]
      /\ name'[q] = name[q] /\ num'[q] = num[q] /\ rec'[q] = rec[q] /\ size'[q] = size[q]
    BY DEF Alone
<1>3. Len(passwd) \in 0 .. MaxUsers /\ Len(passwd') \in Nat
    BY FileSlots, LenProperties DEF FileOK, Types
<1>4. CASE pc[q] = "fill"
    BY <1>1, <1>2, <1>4 DEF Right, Accounted, Working
<1>5. CASE pc[q] \in Placed \cup {"get", "put"}
    <2>1. PICK t \in Slots : t = num[q]
        BY <1>1, <1>3, <1>5, BoundAssumption DEF Control, Slots
    <2>2. Id(t)' = Id(t) /\ (cache'[t] = cache[t] \/ cache'[t] = Id(t))
        BY <1>5, <2>1
    <2>3. Id(num[q])' = Id(t) /\ num'[q] = t
        BY <1>2, <2>1, <2>2 DEF Id
    <2>4. t \in 0 .. MaxUsers
        BY BoundAssumption DEF Slots
    <2>5. CASE pc[q] = "put"
        BY <1>1, <1>2, <1>3, <2>1, <2>2, <2>3, <2>4, <2>5 DEF Right, Accounted, Working
    <2>6. CASE pc[q] \in {"get", "cachenew", "form", "cacheuser", "cachegone"}
        BY <1>1, <1>2, <2>1, <2>2, <2>3, <2>6 DEF Right, Accounted, Working
    <2>7. CASE pc[q] \in Accounted
        BY <1>1, <1>2, <2>1, <2>2, <2>3, <2>7 DEF Right, Accounted, Working
    <2> QED
        BY <1>5, <2>5, <2>6, <2>7 DEF Placed
<1>6. CASE pc[q] \notin Placed \cup {"get", "put", "fill"}
    BY <1>2, <1>6 DEF Right, Placed
<1> QED
    BY <1>4, <1>5, <1>6

LEMMA SparedKept ==
    ASSUME Spared,
           \A q \in Proc : pc'[q] = "confirm" => pc[q] = "confirm" /\ num'[q] = num[q],
           online' \subseteq online, \A q \in online' : num'[q] = num[q]
    PROVE  Spared'
BY DEF Spared

\* Processes that have written a slot and are to put it in the cache.
Writing == {"cachenew", "cacheuser", "cachegone"}

\* Entries of the cache are made those of the file.
LEMMA CachedKept ==
    ASSUME Types, Cached, UNCHANGED passwd,
           number' \in Nat, number <= number', number' <= Len(passwd),
           \A t \in Slots : cache'[t] = cache[t] \/ cache'[t] = Id(t),
           \A q \in Proc : pc[q] \in Writing =>
               \/ pc'[q] = pc[q] /\ num'[q] = num[q]
               \/ num[q] <= number' /\ (num[q] \in Slots => cache'[num[q]] = Id(num[q]))
    PROVE  Cached'
<1>1. \A t \in Slots : Id(t)' = Id(t)
    BY DEF Id
<1>2. ASSUME NEW t \in Slots, t \notin Between' PROVE cache'[t] = Id(t)
    <2>1. CASE t \in Between
        <3>1. PICK q \in Proc : pc[q] \in Writing /\ num[q] = t
            BY <2>1 DEF Between, Writing
        <3>2. ~(pc'[q] = pc[q] /\ num'[q] = num[q])
            BY <1>2, <3>1 DEF Between, Writing
        <3> QED
            BY <1>2, <3>1, <3>2
    <2>2. CASE t \notin Between
        BY <1>2, <2>2 DEF Cached
    <2> QED
        BY <2>1, <2>2
<1>3. ASSUME NEW t \in number' + 1 .. Len(passwd)
      PROVE  \E q \in Proc : pc'[q] = "cachenew" /\ num'[q] = t
    <2>1. Len(passwd) \in 0 .. MaxUsers /\ number \in 0 .. MaxUsers
        BY FileSlots DEF Types, SharedOK
    <2>2. t \in number + 1 .. Len(passwd) /\ ~(t <= number')
        <3>1. \A a, b, m \in Nat : a <= b =>
                  \A i \in b + 1 .. m : i \in a + 1 .. m /\ ~(i <= b)
            OBVIOUS
        <3>2. number \in Nat /\ Len(passwd) \in Nat
            BY <2>1, BoundAssumption
        <3> QED
            BY <3>1, <3>2
    <2>3. PICK q \in Proc : pc[q] = "cachenew" /\ num[q] = t
        BY <2>2 DEF Cached
    <2>4. pc'[q] = pc[q] /\ num'[q] = num[q]
        BY <2>2, <2>3 DEF Writing
    <2> QED
        BY <2>3, <2>4
<1> QED
    BY <1>1, <1>2, <1>3 DEF Cached

-----------------------------------------------------------------------------
(* Steps that do not write the file. *)
LEMMA Unwritten ==
    ASSUME AccountInv, NEW p \in Proc, Alone(p), LocalsOK', SharedOK', UNCHANGED passwd,
           late \ {p} \subseteq late', upset \subseteq upset',
           \A q \in Proc \ {p} : (plock = q => plock' = q) /\ (q \in online' <=> q \in online),
           Control(p)',
           upset' = {} =>
               /\ Right(p)' /\ Spared'
               /\ number <= number' /\ number' <= Len(passwd)
               /\ \A t \in Slots : cache'[t] = cache[t] \/ cache'[t] = Id(t)
               /\ pc[p] \in Writing =>
                      num[p] <= number' /\ (num[p] \in Slots => cache'[num[p]] = Id(num[p]))
    PROVE  AccountInv'
<1>1. Types /\ \A q \in Proc : Control(q)
    BY DEF AccountInv
<1>2. Types'
    BY <1>1 DEF Types, FileOK
<1>3. Len(passwd) \in Nat
    BY <1>1, LenProperties DEF Types, FileOK
<1>4. FileOK' /\ Len(passwd) <= Len(passwd')
    BY <1>2, <1>3 DEF Types
<1>5. \A q \in Proc \ {p} : q \notin late' /\ num[q] \in 1 .. Len(passwd) =>
          q \notin late /\ passwd'[num[q]] = passwd[num[q]]
    OBVIOUS
<1>6. \A q \in Proc : Control(q)'
    BY <1>1, <1>4, <1>5, ControlOthers
<1>7. ASSUME upset' = {} PROVE Upheld'
    <2>1. upset = {}
        BY <1>7
    <2>2. (\A q \in Proc : Right(q)) /\ Cached
        BY <2>1 DEF AccountInv, Upheld
    <2>3. \A t \in Slots : Id(t)' = Id(t)
        BY DEF Id
    <2>4. \A q \in Proc : Right(q)'
        BY <1>1, <1>4, <1>7, <2>2, <2>3, RightOthers
    <2>5. \A q \in Proc : pc[q] \in Writing =>
              \/ pc'[q] = pc[q] /\ num'[q] = num[q]
              \/ num[q] <= number' /\ (num[q] \in Slots => cache'[num[q]] = Id(num[q]))
        BY <1>7 DEF Alone
    <2>6. number' \in Nat
        BY DEF SharedOK
    <2>7. Cached'
        BY <1>1, <1>7, <2>2, <2>5, <2>6, CachedKept
    <2> QED
        BY <1>7, <2>4, <2>7 DEF Upheld
<1> QED
    BY <1>2, <1>6, <1>7 DEF AccountInv

LEMMA Quietly ==
    ASSUME AccountInv, NEW p \in Proc, Alone(p), LocalsOK', SharedOK',
           UNCHANGED <<passwd, cache, number>>, pc[p] \notin Writing,
           late \ {p} \subseteq late', upset \subseteq upset',
           \A q \in Proc \ {p} : (plock = q => plock' = q) /\ (q \in online' <=> q \in online),
           Control(p)', upset' = {} => Right(p)' /\ Spared'
    PROVE  AccountInv'
<1>1. ASSUME upset' = {}
      PROVE  /\ Right(p)' /\ Spared' /\ number <= number' /\ number' <= Len(passwd)
             /\ \A t \in Slots : cache'[t] = cache[t] \/ cache'[t] = Id(t)
    <2>1. number \in 0 .. MaxUsers /\ upset = {}
        BY <1>1 DEF AccountInv, Types, SharedOK
    <2>2. number <= Len(passwd)
        BY <2>1 DEF AccountInv, Upheld, Cached
    <2>3. number <= number
        BY <2>1
    <2> QED
        BY <1>1, <2>2, <2>3
<1> QED
    BY <1>1, Unwritten

LEMMA OffStep ==
    ASSUME Types, NEW p \in Proc, Off(p)
    PROVE  LocalsOK' /\ Alone(p) /\ pc'[p] = "off" /\ back'[p] = "name"
<1>1. Empty \in Record
    BY BoundAssumption DEF Empty, Record
<1>2. LocalsOK'
    BY <1>1, BoundAssumption DEF Off, Goto, Types, LocalsOK, Stages, Roles
<1>3. Alone(p) /\ pc'[p] = "off" /\ back'[p] = "name"
    BY DEF Off, Goto, Types, LocalsOK, Alone
<1> QED
    BY <1>2, <1>3

\* The process is done, or gives up.
LEMMA Ended ==
    ASSUME AccountInv, NEW p \in Proc, Off(p), SharedOK',
           UNCHANGED <<passwd, cache, number, upset>>, pc[p] \notin Writing,
           late \ {p} \subseteq late', online' = online \ {p},
           \A q \in Proc \ {p} : plock = q => plock' = q
    PROVE  AccountInv'
<1>1. Types /\ LocalsOK' /\ Alone(p) /\ pc'[p] = "off" /\ back'[p] = "name"
    BY OffStep DEF AccountInv
<1>2. Control(p)'
    BY <1>1 DEF Control, Looking, Taking, Placed, Accounted, Working
<1>3. Right(p)'
    BY <1>1 DEF Right, Accounted, Working
<1>4. ASSUME Spared PROVE Spared'
    BY <1>1, <1>4, SparedKept DEF Alone, Types, SharedOK
<1>5. upset = {} => Spared
    BY DEF AccountInv, Upheld
<1> QED
    BY <1>1, <1>2, <1>3, <1>4, <1>5, Quietly

\* It goes to another stage with what it has.
LEMMA KeepStep ==
    ASSUME Types, NEW p \in Proc, NEW l \in Stages, Goto(p, l), Keep(p)
    PROVE  /\ LocalsOK' /\ Alone(p) /\ pc'[p] = l
           /\ UNCHANGED <<role, back, name, num, rec, pos, size>>
<1>1. pc' = [pc EXCEPT ![p] = l] /\ UNCHANGED <<role, back, name, num, rec, pos, size>>
    BY DEF Goto, Keep, lookup
<1>2. LocalsOK'
    BY <1>1 DEF Types, LocalsOK
<1>3. Alone(p) /\ pc'[p] = l
    BY <1>1 DEF Types, LocalsOK, Alone
<1> QED
    BY <1>1, <1>2, <1>3

\* Nobody comes to wait for an answer before deleting, and no session starts.
LEMMA StillSpared ==
    ASSUME Types, Spared, NEW p \in Proc, Alone(p), pc'[p] # "confirm", UNCHANGED online,
           p \in online => UNCHANGED num
    PROVE  Spared'
<1>1. \A q \in Proc : pc'[q] = "confirm" => pc[q] = "confirm" /\ num'[q] = num[q]
    BY DEF Alone
<1>2. \A q \in online' : num'[q] = num[q]
    BY DEF Alone, Types, SharedOK
<1> QED
    BY <1>1, <1>2, SparedKept

LEMMA LookingSteps ==
    ASSUME AccountInv, NEW p \in Proc, Resolve(p) \/ TryLock(p) \/ ClearFlag(p)
    PROVE  AccountInv'
<1>o. Types /\ FileOK /\ SharedOK /\ LocalsOK /\ Control(p) /\ (upset = {} => Spared)
    BY DEF AccountInv, Types, Upheld
<1>n. pc[p] \in Looking /\ pc[p] \notin Writing /\ pc[p] \notin Working /\ p \notin online
    BY <1>o DEF Resolve, TryLock, ClearFlag, Looking, Writing, Working, Control
<1>s. Looking \cup {"name", "slot"} \subseteq Stages /\ back[p] \in {"name", "slot"}
    BY <1>o DEF Looking, Stages, LocalsOK
<1>1. UNCHANGED <<passwd, cache, number, late, upset, plock, online, role, back, name, num, rec>>
    BY DEF Resolve, TryLock, ClearFlag, Keep, lookup, unread, unlocked, ucache
<1>2. SharedOK'
    BY <1>o, <1>1 DEF Resolve, TryLock, ClearFlag, unlocked, ucache, SharedOK
<1>3. PICK l \in {"trylock", "fill", back[p]} : Goto(p, l)
    BY DEF Resolve, TryLock, ClearFlag
<1>4. pc'[p] = l /\ pc' \in [Proc -> Stages]
    BY <1>o, <1>s, <1>3 DEF Goto, LocalsOK, Looking
<1>5. /\ pos' \in [Proc -> 1 .. MaxUsers + 1] /\ size' \in [Proc -> 0 .. MaxUsers]
      /\ \A q \in Proc \ {p} : pos'[q] = pos[q] /\ size'[q] = size[q]
      /\ l = "fill" => size'[p] = Len(passwd)
    <2>1. CASE TryLock(p) /\ ulock = NoProc
        <3>1. pos' = [pos EXCEPT ![p] = 1] /\ size' = [size EXCEPT ![p] = Len(passwd)]
            BY <2>1 DEF TryLock
        <3>2. Len(passwd) \in 0 .. MaxUsers /\ 1 \in 1 .. MaxUsers + 1
            BY <1>o, FileSlots, BoundAssumption
        <3> QED
            BY <1>o, <3>1, <3>2 DEF LocalsOK
    <2>2. CASE ~(TryLock(p) /\ ulock = NoProc)
        <3>1. UNCHANGED <<pos, size>> /\ Goto(p, IF pc[p] = "resolve" /\ aged /\ ~updating
                                                THEN "trylock" ELSE back[p])
            BY <2>2 DEF Resolve, TryLock, ClearFlag, Keep
        <3>2. l # "fill"
            BY <1>o, <1>s, <1>4, <3>1 DEF Goto, LocalsOK
        <3> QED
            BY <1>o, <3>1, <3>2 DEF LocalsOK
    <2> QED
        BY <2>1, <2>2
<1>6. LocalsOK'
    BY <1>o, <1>1, <1>4, <1>5 DEF LocalsOK
<1>7. Alone(p)
    BY <1>o, <1>1, <1>3, <1>5 DEF Goto, LocalsOK, Alone
<1>8. Control(p)'
    BY <1>o, <1>n, <1>s, <1>1, <1>4 DEF Control, Looking, Taking, Placed, Accounted, Working
<1>9. Right(p)'
    BY <1>s, <1>1, <1>4, <1>5 DEF Right, Looking, Accounted, Working
<1>10. upset' = {} => Spared'
    BY <1>o, <1>s, <1>1, <1>4, <1>7, StillSpared
<1> QED
    BY <1>1, <1>2, <1>6, <1>7, <1>8, <1>9, <1>10, <1>n, Quietly

\* Somebody asks for a name, or a user is to be looked up.
LEMMA AskSteps ==
    ASSUME AccountInv, NEW p \in Proc, NEW n \in Name,
           \/ AskName(p, n) \/ Login(p, n)
           \/ \E r \in {"delete", "level"} : Manage(p, r, n)
    PROVE  AccountInv'
<1>o. Types /\ FileOK /\ SharedOK /\ LocalsOK /\ Control(p) /\ (upset = {} => Spared)
    BY DEF AccountInv, Types, Upheld
<1>1. UNCHANGED <<passwd, cache, number, late, upset, plock, online>>
    BY DEF AskName, Login, Manage, unread, unlocked, ucache
<1>2. PICK r \in {"register", "login", "delete", "level"} : Ask(p, r, n)
    BY DEF AskName, Login, Manage
<1>3. SharedOK'
    BY <1>o, <1>1 DEF AskName, Login, Manage, unlocked, ucache, SharedOK
<1>4. /\ pc[p] = "off" /\ pc' = [pc EXCEPT ![p] = "resolve"]
      /\ role' = [role EXCEPT ![p] = r] /\ name' = [name EXCEPT ![p] = n]
      /\ UNCHANGED <<back, num, rec, pos, size>>
    BY <1>2 DEF Ask, Goto
<1>5. LocalsOK'
    BY <1>o, <1>4 DEF LocalsOK, Stages, Roles
<1>6. Alone(p) /\ pc'[p] = "resolve" /\ role'[p] = r /\ name'[p] = n
    BY <1>o, <1>4 DEF LocalsOK, Alone
<1>7. p \notin online /\ pc[p] \notin Writing
    BY <1>o, <1>4 DEF Control, Working, Writing
<1>8. Control(p)'
    BY <1>o, <1>1, <1>4, <1>6, <1>7
       DEF Control, Looking, Askers, Taking, Placed, Accounted, Working
<1>9. Right(p)'
    BY <1>6 DEF Right, Accounted, Working
<1>10. upset' = {} => Spared'
    BY <1>o, <1>1, <1>6, <1>7, StillSpared
<1> QED
    BY <1>1, <1>3, <1>5, <1>6, <1>7, <1>8, <1>9, <1>10, Quietly

\* No such user.
LEMMA NotFoundKeeps ==
    ASSUME AccountInv, NEW p \in Proc, pc[p] \in {"name", "get"}, NotFound(p),
           late' = late \ {p},
           UNCHANGED <<passwd, cache, number, aged, updating, plock, online, upset>>
    PROVE  AccountInv'
<1>o. Types /\ FileOK /\ SharedOK /\ LocalsOK /\ Control(p) /\ (upset = {} => Spared)
    BY DEF AccountInv, Types, Upheld
<1>1. p \notin online /\ pc[p] \notin Writing
    BY <1>o DEF Control, Working, Writing
<1>2. SharedOK'
    BY <1>o DEF NotFound, SharedOK
<1>3. CASE role[p] = "register"
    <2>1. /\ pc' = [pc EXCEPT ![p] = "alloc"] /\ num' = [num EXCEPT ![p] = 0]
          /\ UNCHANGED <<role, back, name, rec, pos, size>>
        BY <1>3 DEF NotFound, Goto
    <2>2. LocalsOK'
        BY <1>o, <2>1, BoundAssumption DEF LocalsOK, Stages
    <2>3. Alone(p) /\ pc'[p] = "alloc"
        BY <1>o, <2>1 DEF LocalsOK, Alone
    <2>4. Control(p)'
        BY <1>o, <1>1, <2>1, <2>3
           DEF Control, Looking, Taking, Placed, Accounted, Working
    <2>5. Right(p)'
        BY <2>3 DEF Right, Accounted, Working
    <2>6. upset' = {} => Spared'
        BY <1>o, <1>1, <2>3, StillSpared
    <2> QED
        BY <1>1, <1>2, <2>2, <2>3, <2>4, <2>5, <2>6, Quietly
<1>4. CASE role[p] # "register"
    BY <1>1, <1>2, <1>4, Ended DEF NotFound
<1> QED
    BY <1>3, <1>4

\* A slot that is found in the cache has that id in the file, or is about to
\* be deleted there.
LEMMA Found ==
    ASSUME AccountInv, upset = {}, NEW n \in Name, NEW s \in Slots, cache[s] = n
    PROVE  Id(s) \in {n, NoName}
<1>1. (\A p \in Proc : Right(p)) /\ Cached
    BY DEF AccountInv, Upheld
<1>2. CASE s \in Between
    <2>1. PICK q \in Proc : pc[q] \in {"cachenew", "cacheuser", "cachegone"} /\ num[q] = s
        BY <1>2 DEF Between
    <2>2. Right(q)
        BY <1>1
    <2> QED
        BY <2>1, <2>2, NameAssumption DEF Right
<1>3. CASE s \notin Between
    BY <1>1, <1>3 DEF Cached
<1> QED
    BY <1>2, <1>3

LEMMA searchuserKeeps ==
    ASSUME AccountInv, NEW p \in Proc, searchuser(p)
    PROVE  AccountInv'
<1>o. Types /\ FileOK /\ SharedOK /\ LocalsOK /\ Control(p) /\ (upset = {} => Spared)
    BY DEF AccountInv, Types, Upheld
<1>1. pc[p] = "name" /\ late' = late \ {p}
      /\ UNCHANGED <<passwd, cache, number, aged, updating, plock, online, upset>>
    BY DEF searchuser
<1>2. CASE Matches(name[p]) = {}
    BY <1>1, <1>2, NotFoundKeeps DEF searchuser
<1>3. CASE Matches(name[p]) # {}
    <2> DEFINE s == First(Matches(name[p]))
    <2>1. s \in Matches(name[p])
        BY <1>3, FirstOne DEF Matches
    <2>2. s \in Slots /\ cache[s] = name[p]
        BY <1>o, <2>1, BoundAssumption DEF Matches, SharedOK, Slots
    <2>3. /\ pc' = [pc EXCEPT ![p] = "get"] /\ num' = [num EXCEPT ![p] = s]
          /\ UNCHANGED <<ulock, role, back, name, rec, pos, size>>
        BY <1>3 DEF searchuser, Goto
    <2> HIDE DEF s
    <2>4. LocalsOK'
        BY <1>o, <2>2, <2>3, BoundAssumption DEF LocalsOK, Stages, Slots
    <2>5. Alone(p) /\ pc'[p] = "get" /\ num'[p] = s
        BY <1>o, <2>3 DEF LocalsOK, Alone
    <2>6. p \notin online /\ pc[p] \notin Writing
        BY <1>o, <1>1 DEF Control, Working, Writing
    <2>7. SharedOK'
        BY <1>o, <1>1, <2>3 DEF SharedOK
    <2>8. Control(p)'
        BY <1>o, <1>1, <2>2, <2>3, <2>5, <2>6
           DEF Control, Looking, Taking, Placed, Accounted, Working
    <2>9. upset' = {} => Right(p)'
        <3> SUFFICES ASSUME upset = {} PROVE Right(p)'
            BY <1>1
        <3>1. name[p] \in Name
            BY <1>o, <1>1 DEF Control
        <3>2. Id(s) \in {name[p], NoName}
            BY <2>2, <3>1, Found
        <3>3. Id(num[p])' = Id(s)
            BY <1>1, <2>5 DEF Id
        <3> QED
            BY <2>3, <2>5, <3>2, <3>3 DEF Right, Accounted, Working
    <2>10. upset' = {} => Spared'
        BY <1>o, <1>1, <2>5, <2>6, StillSpared
    <2> QED
        BY <1>1, <2>4, <2>5, <2>6, <2>7, <2>8, <2>9, <2>10, Quietly
<1> QED
    BY <1>2, <1>3

LEMMA getuserKeeps ==
    ASSUME AccountInv, NEW p \in Proc, getuser(p)
    PROVE  AccountInv'
<1>o. Types /\ FileOK /\ SharedOK /\ LocalsOK /\ Control(p) /\ (upset = {} => Spared)
    BY DEF AccountInv, Types, Upheld
<1>1. pc[p] = "get" /\ late' = late \ {p}
      /\ UNCHANGED <<passwd, cache, number, aged, updating, plock, online, upset>>
    BY DEF getuser
<1>n. p \notin online /\ pc[p] \notin Writing /\ online' = online \ {p}
    BY <1>o, <1>1 DEF Control, Working, Writing
<1>2. CASE Id(num[p]) = NoName
    BY <1>1, <1>2, NotFoundKeeps DEF getuser
<1>3. CASE Id(num[p]) # NoName /\ role[p] = "register"
    <2>1. ulock' = NoProc /\ Off(p)
        BY <1>3 DEF getuser
    <2>2. SharedOK'
        BY <1>o, <1>1, <2>1 DEF SharedOK
    <2> QED
        BY <1>1, <1>n, <2>1, <2>2, Ended
<1>4. CASE Id(num[p]) # NoName /\ role[p] # "register"
    <2>1. num[p] \in 1 .. Len(passwd)
        <3>1. num[p] \in Slots
            BY <1>o, <1>1 DEF Control
        <3> QED
            BY <1>o, <1>4, <3>1, FileSlots, BoundAssumption DEF Slots
    <2>2. passwd[num[p]] \in Record /\ Id(num[p]) = passwd[num[p]].id
        BY <1>o, <2>1, FileSlots
    <2>3. role[p] \in {"login", "newcomer", "delete", "level"}
        BY <1>o, <1>1, <1>4 DEF Control, Askers
    <2>4. /\ rec' = [rec EXCEPT ![p] = passwd[num[p]]]
          /\ UNCHANGED <<ulock, role, back, name, num, pos, size>>
        BY <1>4 DEF getuser
    <2>5. PICK l \in {"password", "enter", "check", "edit"} : pc' = [pc EXCEPT ![p] = l]
        BY <1>4, <2>3 DEF getuser, Goto
    <2>6. LocalsOK'
        BY <1>o, <2>2, <2>4, <2>5 DEF LocalsOK, Stages
    <2>7. Alone(p) /\ pc'[p] = l /\ rec'[p] = passwd[num[p]]
        BY <1>o, <2>4, <2>5 DEF LocalsOK, Alone
    <2>8. SharedOK'
        BY <1>o, <1>1, <2>4 DEF SharedOK
    <2>9. Control(p)'
        BY <1>o, <1>1, <1>n, <2>1, <2>4, <2>7
           DEF Control, Looking, Taking, Placed, Accounted, Working
    <2>10. upset' = {} => Right(p)'
        <3> SUFFICES ASSUME upset = {} PROVE Right(p)'
            BY <1>1
        <3>1. Id(num[p]) = name[p]
            BY <1>1, <1>4 DEF AccountInv, Upheld, Right
        <3>2. Id(num[p])' = Id(num[p])
            BY <1>1, <2>4 DEF Id
        <3> QED
            BY <2>2, <2>4, <2>7, <3>1, <3>2 DEF Right, Accounted, Working
    <2>11. upset' = {} => Spared'
        BY <1>o, <1>1, <1>n, <2>7, StillSpared
    <2> QED
        BY <1>1, <1>n, <2>6, <2>7, <2>8, <2>9, <2>10, <2>11, Quietly
<1> QED
    BY <1>2, <1>3, <1>4

-----------------------------------------------------------------------------
(* Taking a slot. *)
LEMMA LockPasswdKeeps ==
    ASSUME AccountInv, NEW p \in Proc, LockPasswd(p)
    PROVE  AccountInv'
<1>o. Types /\ FileOK /\ SharedOK /\ LocalsOK /\ Control(p) /\ (upset = {} => Spared)
    BY DEF AccountInv, Types, Upheld
<1>1. /\ pc[p] = "alloc" /\ plock = NoProc /\ plock' = p
      /\ UNCHANGED <<passwd, cache, number, aged, updating, ulock, late, upset, online>>
    BY DEF LockPasswd, unread, ucache
<1>2. /\ pc' = [pc EXCEPT ![p] = "resolve"] /\ back' = [back EXCEPT ![p] = "slot"]
      /\ UNCHANGED <<role, name, num, rec, pos, size>>
    BY DEF LockPasswd, Goto
<1>3. SharedOK'
    BY <1>o, <1>1 DEF SharedOK
<1>4. LocalsOK'
    BY <1>o, <1>2 DEF LocalsOK, Stages
<1>5. Alone(p) /\ pc'[p] = "resolve" /\ back'[p] = "slot"
    BY <1>o, <1>2 DEF LocalsOK, Alone
<1>6. p \notin online /\ pc[p] \notin Writing
    BY <1>o, <1>1 DEF Control, Working, Writing
<1>7. Control(p)'
    BY <1>o, <1>1, <1>2, <1>5, <1>6
       DEF Control, Looking, Taking, Placed, Accounted, Working
<1>8. Right(p)'
    BY <1>5 DEF Right, Accounted, Working
<1>9. upset' = {} => Spared'
    BY <1>o, <1>1, <1>5, <1>6, StillSpared
<1>10. \A q \in Proc \ {p} : plock = q => plock' = q
    BY <1>1, ProcAssumption
<1> QED
    BY <1>1, <1>3, <1>4, <1>5, <1>6, <1>7, <1>8, <1>9, <1>10, Quietly

\* The slot searchnewuser finds is free in the file too, not past its end by
\* more than one, and nobody else is taking it.
LEMMA FreeSlot ==
    ASSUME AccountInv, NEW p \in Proc, pc[p] = "slot", upset = {}, NEW s \in Slots,
           \/ s <= number /\ cache[s] = NoName
           \/ s = number + 1
    PROVE  Id(s) = NoName /\ cache[s] = NoName /\ s <= Len(passwd) + 1
<1>o. Types /\ FileOK /\ SharedOK /\ (\A q \in Proc : Control(q) /\ Right(q)) /\ Cached
    BY DEF AccountInv, Types, Upheld
<1>1. ASSUME NEW q \in Proc PROVE pc[q] # "cachenew"
    BY <1>o DEF Control, Taking
<1>2. number \in Nat /\ Len(passwd) \in Nat /\ number <= Len(passwd)
    BY <1>o, FileSlots, BoundAssumption DEF SharedOK, Cached
<1>3. s > number => Id(s) = NoName
    <2>1. ~(s \in number + 1 .. Len(passwd))
        BY <1>o, <1>1 DEF Cached
    <2>2. s > number => s > Len(passwd)
        BY <1>2, <2>1, BoundAssumption DEF Slots
    <2> QED
        BY <1>o, <2>2, FileSlots
<1>4. s <= Len(passwd) + 1
    BY <1>2, BoundAssumption DEF Slots
<1>5. CASE s \in Between
    <2>1. PICK q \in Proc : pc[q] \in {"cacheuser", "cachegone"} /\ num[q] = s
        BY <1>1, <1>5 DEF Between
    <2>2. Right(q) /\ Control(q)
        BY <1>o
    <2>3. CASE pc[q] = "cachegone"
        <3>1. Id(s) = NoName
            BY <2>1, <2>2, <2>3 DEF Right
        <3>2. num[q] \in 1 .. Len(passwd)
            BY <2>2, <2>3 DEF Control, Placed
        <3>3. ~(s \in number + 1 .. Len(passwd))
            BY <1>o, <1>1 DEF Cached
        <3>4. s # number + 1
            BY <1>2, <2>1, <3>2, <3>3
        <3> QED
            BY <1>4, <3>1, <3>4
    <2>4. CASE pc[q] = "cacheuser"
        <3>1. Id(s) # NoName /\ cache[s] # NoName
            BY <2>1, <2>2, <2>4, NameAssumption DEF Right, Control
        <3> QED
            BY <1>2, <1>3, <3>1
    <2> QED
        BY <2>1, <2>3, <2>4
<1>6. CASE s \notin Between
    <2>1. cache[s] = Id(s)
        BY <1>o, <1>6 DEF Cached
    <2> QED
        BY <1>2, <1>3, <1>4, <2>1
<1> QED
    BY <1>5, <1>6

LEMMA searchnewuserKeeps ==
    ASSUME AccountInv, NEW p \in Proc, searchnewuser(p)
    PROVE  AccountInv'
<1>o. Types /\ FileOK /\ SharedOK /\ LocalsOK /\ Control(p) /\ (upset = {} => Spared)
    BY DEF AccountInv, Types, Upheld
<1>1. /\ pc[p] = "slot"
      /\ UNCHANGED <<passwd, cache, number, aged, updating, ulock, late, upset, online>>
    BY DEF searchnewuser, unread, ucache
<1>n. p \notin online /\ pc[p] \notin Writing /\ plock = p /\ online' = online \ {p}
    BY <1>o, <1>1 DEF Control, Working, Writing, Taking
<1>2. CASE FreeEntries = {} /\ number = MaxUsers
    <2>1. plock' = NoProc /\ Off(p)
        BY <1>2 DEF searchnewuser
    <2>2. SharedOK'
        BY <1>o, <1>1, <2>1 DEF SharedOK
    <2> QED
        BY <1>1, <1>n, <2>1, <2>2, Ended
<1>3. CASE ~(FreeEntries = {} /\ number = MaxUsers)
    <2> DEFINE s == IF FreeEntries = {} THEN number + 1 ELSE First(FreeEntries)
    <2>1. FreeEntries # {} => First(FreeEntries) \in FreeEntries
        BY FirstOne DEF FreeEntries
    <2>2. number \in 0 .. MaxUsers
        BY <1>o DEF SharedOK
    <2>3. s \in Slots /\ \/ s <= number /\ cache[s] = NoName
                         \/ s = number + 1
        BY <1>3, <2>1, <2>2, BoundAssumption DEF FreeEntries, Slots
    <2>4. /\ pc' = [pc EXCEPT ![p] = "put"] /\ num' = [num EXCEPT ![p] = s]
          /\ UNCHANGED <<plock, role, back, name, rec, pos, size>>
        BY <1>3 DEF searchnewuser, Goto
    <2> HIDE DEF s
    <2>5. LocalsOK'
        BY <1>o, <2>3, <2>4, BoundAssumption DEF LocalsOK, Stages, Slots
    <2>6. Alone(p) /\ pc'[p] = "put" /\ num'[p] = s
        BY <1>o, <2>4 DEF LocalsOK, Alone
    <2>7. SharedOK'
        BY <1>o, <1>1, <2>4 DEF SharedOK
    <2>8. Control(p)'
        BY <1>o, <1>1, <1>n, <2>3, <2>4, <2>6
           DEF Control, Looking, Taking, Placed, Accounted, Working
    <2>9. upset' = {} => Right(p)'
        <3> SUFFICES ASSUME upset = {} PROVE Right(p)'
            BY <1>1
        <3>1. Id(s) = NoName /\ cache[s] = NoName /\ s <= Len(passwd) + 1
            BY <1>1, <2>3, FreeSlot
        <3>2. Id(num[p])' = Id(s)
            BY <1>1, <2>6 DEF Id
        <3> QED
            BY <1>1, <2>6, <3>1, <3>2 DEF Right, Accounted, Working
    <2>10. upset' = {} => Spared'
        BY <1>o, <1>1, <1>n, <2>6, StillSpared
    <2> QED
        BY <1>1, <1>n, <2>4, <2>5, <2>6, <2>7, <2>8, <2>9, <2>10, Quietly
<1> QED
    BY <1>2, <1>3

-----------------------------------------------------------------------------
(* The other steps that write nothing. *)

\* Nothing is shared but the table of sessions.
LEMMA EndSteps ==
    ASSUME AccountInv, NEW p \in Proc, Off(p), unread, UNCHANGED <<ucache, plock>>,
           pc[p] \in {"form", "password", "leave", "check", "confirm", "edit"},
           online' = online \ {p}
    PROVE  AccountInv'
<1>1. SharedOK'
    BY DEF AccountInv, Types, SharedOK, unread, ucache
<1> QED
    BY <1>1, Ended DEF unread, ucache, Writing

\* The process goes on with the record it has, still in the table or not.
LEMMA OnSteps ==
    ASSUME AccountInv, NEW p \in Proc, NEW l \in Accounted \ {"confirm", "write"}, Goto(p, l),
           UNCHANGED <<back, name, num, rec, pos, size>>, unread, unlocked,
           UNCHANGED role \/ \E r \in Roles : role' = [role EXCEPT ![p] = r],
           pc[p] \in Accounted, l \in Working <=> pc[p] \in Working
    PROVE  AccountInv'
<1>o. Types /\ FileOK /\ SharedOK /\ LocalsOK /\ Control(p) /\ (upset = {} => Spared)
    BY DEF AccountInv, Types, Upheld
<1>1. UNCHANGED <<passwd, cache, number, aged, updating, ulock, plock, late, upset, online>>
    BY DEF unread, unlocked, ucache
<1>2. SharedOK'
    BY <1>o, <1>1 DEF SharedOK
<1>3. l \in Stages
    BY DEF Accounted, Working, Stages
<1>4. LocalsOK'
    BY <1>o, <1>3 DEF Goto, LocalsOK
<1>5. Alone(p) /\ pc'[p] = l
    BY <1>o DEF Goto, LocalsOK, Alone
<1>6. pc[p] \notin Writing
    BY DEF Accounted, Working, Writing
<1>7. Control(p)'
    <2>1. l \notin {"off", "name", "get", "put", "write"} \cup Looking \cup Taking
          /\ pc[p] # "off" /\ pc[p] \in Placed /\ l \in Placed
        BY DEF Accounted, Working, Looking, Taking, Placed
    <2> QED
        BY <1>o, <1>1, <1>5, <2>1 DEF Control
<1>8. upset' = {} => Right(p)'
    <2> SUFFICES ASSUME upset = {} PROVE Right(p)'
        BY <1>1
    <2>1. rec[p].id = name[p] /\ Id(num[p]) = name[p]
        BY DEF AccountInv, Upheld, Right
    <2>2. Id(num[p])' = Id(num[p])
        BY <1>1 DEF Id
    <2> QED
        BY <1>5, <2>1, <2>2 DEF Right, Accounted, Working
<1>9. upset' = {} => Spared'
    BY <1>o, <1>1, <1>5, StillSpared
<1> QED
    BY <1>1, <1>2, <1>4, <1>5, <1>6, <1>7, <1>8, <1>9, Quietly

LEMMA u_enterKeeps ==
    ASSUME AccountInv, NEW p \in Proc, u_enter(p)
    PROVE  AccountInv'
<1>o. Types /\ FileOK /\ SharedOK /\ LocalsOK /\ Control(p) /\ (upset = {} => Spared)
    BY DEF AccountInv, Types, Upheld
<1>1. /\ pc[p] = "enter" /\ online' = online \cup {p} /\ upset \subseteq upset'
      /\ upset' \subseteq {"reload", "taken", "entered"}
      /\ UNCHANGED <<passwd, cache, number, aged, updating, ulock, plock, late>>
    BY <1>o DEF u_enter, ucache, SharedOK
<1>2. /\ pc' = [pc EXCEPT ![p] = "refresh"] /\ role' = [role EXCEPT ![p] = "login"]
      /\ UNCHANGED <<back, name, num, rec, pos, size>>
    BY DEF u_enter, Goto
<1>3. SharedOK'
    BY <1>o, <1>1 DEF SharedOK
<1>4. LocalsOK'
    BY <1>o, <1>2 DEF LocalsOK, Stages, Roles
<1>5. Alone(p) /\ pc'[p] = "refresh"
    BY <1>o, <1>2 DEF LocalsOK, Alone
<1>6. Control(p)'
    BY <1>o, <1>1, <1>2, <1>5 DEF Control, Looking, Taking, Placed, Accounted, Working
<1>7. ASSUME upset' = {} PROVE Right(p)' /\ Spared'
    <2>1. upset = {}
        BY <1>1, <1>7
    <2>2. rec[p].id = name[p] /\ Id(num[p]) = name[p] /\ Spared
        BY <1>1, <2>1 DEF AccountInv, Upheld, Right, Accounted
    <2>3. Id(num[p])' = Id(num[p])
        BY <1>1, <1>2 DEF Id
    <2>4. Right(p)'
        BY <1>2, <1>5, <2>2, <2>3 DEF Right, Accounted, Working
    <2>5. \A q \in Proc : pc[q] = "confirm" => num[q] # num[p]
        BY <1>7 DEF u_enter
    <2>6. \A q \in Proc : pc'[q] = "confirm" => pc[q] = "confirm"
        BY <1>5 DEF Alone
    <2>7. Spared'
        BY <1>1, <1>2, <2>2, <2>5, <2>6 DEF Spared
    <2> QED
        BY <2>4, <2>7
<1> QED
    BY <1>1, <1>3, <1>4, <1>5, <1>6, <1>7, Quietly DEF Writing

LEMMA set_safe_recordKeeps ==
    ASSUME AccountInv, NEW p \in Proc, set_safe_record(p)
    PROVE  AccountInv'
<1>o. Types /\ FileOK /\ SharedOK /\ LocalsOK /\ Control(p) /\ (upset = {} => Spared)
    BY DEF AccountInv, Types, Upheld
<1>1. /\ pc[p] = "refresh" /\ late' = late \ {p}
      /\ UNCHANGED <<passwd, cache, number, aged, updating, ulock, plock, upset, online>>
    BY DEF set_safe_record, unlocked, ucache
<1>2. /\ pc' = [pc EXCEPT ![p] = "write"] /\ UNCHANGED <<role, back, name, num, pos, size>>
      /\ rec' = [rec EXCEPT ![p].level = passwd[num[p]].level,
                            ![p].count = passwd[num[p]].count]
    BY DEF set_safe_record, Goto
<1>3. passwd[num[p]] \in Record
    BY <1>o, <1>1, FileSlots DEF Control, Placed, Accounted, Working
<1>4. rec' \in [Proc -> Record] /\ \A q \in Proc \ {p} : rec'[q] = rec[q]
    BY <1>o, <1>2, <1>3 DEF LocalsOK, Record
<1>5. /\ rec'[p].level = passwd[num[p]].level /\ rec'[p].count = passwd[num[p]].count
      /\ rec'[p].id = rec[p].id
    BY <1>o, <1>2 DEF LocalsOK, Record
<1>6. SharedOK'
    BY <1>o, <1>1 DEF SharedOK
<1>7. LocalsOK'
    BY <1>o, <1>2, <1>4 DEF LocalsOK, Stages
<1>8. Alone(p) /\ pc'[p] = "write"
    BY <1>o, <1>2, <1>4 DEF LocalsOK, Alone
<1>9. Control(p)'
    BY <1>o, <1>1, <1>2, <1>5, <1>8
       DEF Control, Looking, Taking, Placed, Accounted, Working
<1>10. upset' = {} => Right(p)'
    <2> SUFFICES ASSUME upset = {} PROVE Right(p)'
        BY <1>1
    <2>1. rec[p].id = name[p] /\ Id(num[p]) = name[p]
        BY <1>1 DEF AccountInv, Upheld, Right, Accounted, Working
    <2>2. Id(num[p])' = Id(num[p])
        BY <1>1, <1>2 DEF Id
    <2> QED
        BY <1>2, <1>5, <1>8, <2>1, <2>2 DEF Right
<1>11. upset' = {} => Spared'
    BY <1>o, <1>1, <1>2, <1>8, StillSpared
<1> QED
    BY <1>1, <1>6, <1>7, <1>8, <1>9, <1>10, <1>11, Quietly DEF Writing

\* d_user goes on only for an account that nobody in the table has.
LEMMA CheckOfflineKeeps ==
    ASSUME AccountInv, NEW p \in Proc, CheckOffline(p)
    PROVE  AccountInv'
<1>o. Types /\ FileOK /\ SharedOK /\ LocalsOK /\ Control(p) /\ (upset = {} => Spared)
    BY DEF AccountInv, Types, Upheld
<1>1. /\ pc[p] = "check" /\ unread /\ UNCHANGED <<ucache, plock, online>>
      /\ UNCHANGED <<passwd, cache, number, aged, updating, ulock, late, upset>>
    BY DEF CheckOffline, unread, unlocked, ucache
<1>n. p \notin online /\ online' = online \ {p}
    BY <1>o, <1>1 DEF Control, Working
<1>2. CASE \E q \in online : num[q] = num[p]
    BY <1>1, <1>2, <1>n, EndSteps DEF CheckOffline
<1>3. CASE ~\E q \in online : num[q] = num[p]
    <2>1. Goto(p, "confirm") /\ Keep(p)
        BY <1>3 DEF CheckOffline
    <2>2. /\ LocalsOK' /\ Alone(p) /\ pc'[p] = "confirm"
          /\ UNCHANGED <<role, back, name, num, rec, pos, size>>
        BY <1>o, <2>1, KeepStep DEF Stages
    <2>3. SharedOK'
        BY <1>o, <1>1 DEF SharedOK
    <2>4. Control(p)'
        BY <1>o, <1>1, <1>n, <2>2 DEF Control, Looking, Taking, Placed, Accounted, Working
    <2>5. ASSUME upset' = {} PROVE Right(p)' /\ Spared'
        <3>1. rec[p].id = name[p] /\ Id(num[p]) = name[p] /\ Spared
            BY <1>1, <2>5 DEF AccountInv, Upheld, Right, Accounted
        <3>2. Id(num[p])' = Id(num[p])
            BY <1>1, <2>2 DEF Id
        <3>3. Right(p)'
            BY <2>2, <3>1, <3>2 DEF Right
        <3>4. \A q \in Proc : pc'[q] = "confirm" => q = p \/ pc[q] = "confirm"
            BY <2>2 DEF Alone
        <3>5. Spared'
            BY <1>1, <1>3, <2>2, <3>1, <3>4 DEF Spared
        <3> QED
            BY <3>3, <3>5
    <2> QED
        BY <1>1, <2>2, <2>3, <2>4, <2>5, Quietly DEF Writing
<1> QED
    BY <1>2, <1>3

LEMMA SessionSteps ==
    ASSUME AccountInv, NEW p \in Proc,
           \/ GiveUp(p) \/ BadPassword(p) \/ Spare(p) \/ Leave(p)
           \/ Password(p) \/ do_post(p) \/ uinfo_query(p) \/ u_exit(p) \/ NotCounted(p)
    PROVE  AccountInv'
<1>o. Types /\ LocalsOK /\ Control(p)
    BY DEF AccountInv, Types
<1>1. CASE GiveUp(p) \/ BadPassword(p) \/ Spare(p)
    <2>1. pc[p] \in {"form", "password", "confirm"} /\ Off(p) /\ unread /\ unlocked
        BY <1>1 DEF GiveUp, BadPassword, Spare
    <2>2. online' = online \ {p} /\ UNCHANGED <<ucache, plock>>
        BY <1>o, <2>1 DEF Control, Working, unlocked
    <2> QED
        BY <2>1, <2>2, EndSteps
<1>2. CASE Leave(p)
    BY <1>2, EndSteps DEF Leave
<1>3. CASE Password(p)
    BY <1>3, OnSteps DEF Password, Keep, lookup, Accounted, Working
<1>4. ASSUME NEW r \in {"post", "info", "exit"}, Do(p, r) PROVE AccountInv'
    BY <1>4, OnSteps DEF Do, Accounted, Working, Roles
<1>5. CASE NotCounted(p)
    BY <1>5, OnSteps DEF NotCounted, Keep, lookup, Accounted, Working
<1> QED
    BY <1>1, <1>2, <1>3, <1>4, <1>5 DEF do_post, uinfo_query, u_exit

-----------------------------------------------------------------------------
(* The steps that write the cache: what they write is in the file. *)
LEMMA Ids ==
    ASSUME FileOK, NEW s \in Slots
    PROVE  Id(s) \in Name \cup {NoName, New}
<1>1. s > Len(passwd) => Id(s) = NoName
    BY FileSlots
<1>2. s <= Len(passwd) => s \in 1 .. Len(passwd)
    BY FileSlots, BoundAssumption DEF Slots
<1>3. s \in 1 .. Len(passwd) => Id(s) = passwd[s].id /\ passwd[s] \in Record
    BY FileSlots
<1>4. s > Len(passwd) \/ s <= Len(passwd)
    BY FileSlots, BoundAssumption DEF Slots
<1> QED
    BY <1>1, <1>2, <1>3, <1>4 DEF Record

LEMMA fillucacheKeeps ==
    ASSUME AccountInv, NEW p \in Proc, fillucache(p)
    PROVE  AccountInv'
<1>o. Types /\ FileOK /\ SharedOK /\ LocalsOK /\ Control(p) /\ (upset = {} => Upheld)
    BY DEF AccountInv, Types
<1>1. /\ pc[p] = "fill" /\ pos[p] <= size[p]
      /\ UNCHANGED <<passwd, number, aged, updating, ulock, plock, late, upset, online>>
      /\ UNCHANGED <<pc, role, back, name, num, rec, size>>
    BY DEF fillucache, unread, lookup
<1>2. pos[p] \in Slots /\ pos[p] + 1 \in 1 .. MaxUsers + 1
    BY <1>o, <1>1, BoundAssumption DEF LocalsOK, Slots
<1>3. cache' = [cache EXCEPT ![pos[p]] = Id(pos[p])] /\ pos' = [pos EXCEPT ![p] = pos[p] + 1]
    BY DEF fillucache
<1>4. SharedOK'
    BY <1>o, <1>1, <1>2, <1>3, Ids DEF SharedOK
<1>5. LocalsOK'
    BY <1>o, <1>1, <1>2, <1>3 DEF LocalsOK
<1>6. Alone(p)
    BY <1>o, <1>1, <1>3 DEF LocalsOK, Alone
<1>7. Control(p)'
    BY <1>o, <1>1 DEF Control, Looking, Taking, Placed, Accounted, Working
<1>8. ASSUME upset' = {}
      PROVE  /\ Right(p)' /\ Spared' /\ number <= number' /\ number' <= Len(passwd)
             /\ \A t \in Slots : cache'[t] = cache[t] \/ cache'[t] = Id(t)
    <2>1. Upheld
        BY <1>o, <1>1, <1>8
    <2>2. Right(p)'
        BY <1>1, <2>1 DEF Upheld, Right, Accounted, Working
    <2>3. Spared'
        BY <1>1, <2>1 DEF Upheld, Spared
    <2>4. number <= number /\ number <= Len(passwd)
        BY <1>o, <2>1 DEF Upheld, Cached, SharedOK
    <2>5. \A t \in Slots : cache'[t] = cache[t] \/ cache'[t] = Id(t)
        BY <1>o, <1>2, <1>3 DEF SharedOK
    <2> QED
        BY <1>1, <2>2, <2>3, <2>4, <2>5
<1> QED
    BY <1>1, <1>4, <1>5, <1>6, <1>7, <1>8, Unwritten DEF Writing

LEMMA PublishKeeps ==
    ASSUME AccountInv, NEW p \in Proc, Publish(p)
    PROVE  AccountInv'
<1>o. Types /\ FileOK /\ SharedOK /\ LocalsOK /\ Control(p) /\ (upset = {} => Upheld)
    BY DEF AccountInv, Types
<1>1. /\ pc[p] = "fill" /\ number' = size[p]
      /\ UNCHANGED <<passwd, cache, updating, plock, late, upset, online>>
    BY DEF Publish, unread
<1>2. /\ pc' = [pc EXCEPT ![p] = "close"] /\ pos' = [pos EXCEPT ![p] = 1]
      /\ size' = [size EXCEPT ![p] = 0] /\ UNCHANGED <<role, back, name, num, rec>>
    BY DEF Publish, Goto, lookup
<1>3. SharedOK'
    BY <1>o DEF Publish, unread, SharedOK, LocalsOK
<1>4. LocalsOK'
    BY <1>o, <1>2, BoundAssumption DEF LocalsOK, Stages
<1>5. Alone(p) /\ pc'[p] = "close"
    BY <1>o, <1>2 DEF LocalsOK, Alone
<1>6. Control(p)'
    BY <1>o, <1>1, <1>2, <1>5 DEF Control, Looking, Taking, Placed, Accounted, Working
<1>7. ASSUME upset' = {}
      PROVE  Right(p)' /\ Spared' /\ number <= number' /\ number' <= Len(passwd)
    <2>1. Upheld
        BY <1>o, <1>1, <1>7
    <2>2. Right(p)'
        BY <1>5 DEF Right, Accounted, Working
    <2>3. Spared'
        BY <1>o, <1>1, <1>2, <1>5, <2>1, StillSpared DEF Upheld
    <2>4. number' = Len(passwd) /\ number <= Len(passwd) /\ Len(passwd) \in Nat
        BY <1>o, <1>1, <2>1, LenProperties DEF Upheld, Right, Cached, FileOK
    <2> QED
        BY <2>2, <2>3, <2>4
<1> QED
    BY <1>1, <1>3, <1>4, <1>5, <1>6, <1>7, Unwritten DEF Writing

\* setuserid, of the id that is in the file.
LEMMA setuseridKeeps ==
    ASSUME AccountInv, NEW p \in Proc, pc[p] \in Writing, NEW n \in Name \cup {NoName, New},
           setuserid(num[p], n), upset = {} => n = Id(num[p]),
           unread, UNCHANGED <<aged, updating, ulock, online>>,
           plock' \in {plock, NoProc}, plock = p \/ UNCHANGED plock,
           LocalsOK', Alone(p), Control(p)', pc'[p] # "confirm", upset = {} => Right(p)'
    PROVE  AccountInv'
<1>o. Types /\ FileOK /\ SharedOK /\ LocalsOK /\ Control(p) /\ (upset = {} => Upheld)
    BY DEF AccountInv, Types
<1>1. UNCHANGED <<passwd, late, upset>>
    BY DEF unread
<1>2. num[p] \in 1 .. Len(passwd) /\ Len(passwd) \in 0 .. MaxUsers /\ number \in 0 .. MaxUsers
    BY <1>o, FileSlots DEF Writing, Control, Placed, SharedOK
<1>3. num[p] \in Slots
    BY <1>2, BoundAssumption DEF Slots
<1>4. /\ number' = (IF num[p] > number THEN num[p] ELSE number)
      /\ cache' = [cache EXCEPT ![num[p]] = n]
    BY DEF setuserid
<1>5. number' \in 0 .. MaxUsers /\ number <= number' /\ num[p] <= number'
      /\ (number <= Len(passwd) => number' <= Len(passwd))
    BY <1>2, <1>4, BoundAssumption
<1>6. SharedOK'
    BY <1>o, <1>1, <1>3, <1>4, <1>5 DEF SharedOK
<1>7. p \notin online
    BY <1>o DEF Control, Writing, Working
<1>8. ASSUME upset' = {}
      PROVE  /\ Right(p)' /\ Spared' /\ number <= number' /\ number' <= Len(passwd)
             /\ \A t \in Slots : cache'[t] = cache[t] \/ cache'[t] = Id(t)
             /\ num[p] <= number' /\ (num[p] \in Slots => cache'[num[p]] = Id(num[p]))
    <2>1. Upheld /\ Right(p)' /\ n = Id(num[p])
        BY <1>o, <1>1, <1>8
    <2>2. Spared'
        BY <1>o, <1>1, <1>7, <2>1, StillSpared DEF Upheld
    <2>3. number' <= Len(passwd)
        BY <1>5, <2>1 DEF Upheld, Cached
    <2>4. /\ \A t \in Slots : cache'[t] = cache[t] \/ cache'[t] = Id(t)
          /\ cache'[num[p]] = Id(num[p])
        BY <1>o, <1>3, <1>4, <2>1 DEF SharedOK
    <2> QED
        BY <1>5, <2>1, <2>2, <2>3, <2>4
<1>9. \A q \in Proc \ {p} : (plock = q => plock' = q) /\ (q \in online' <=> q \in online)
    OBVIOUS
<1> QED
    BY <1>1, <1>6, <1>8, <1>9, Unwritten

LEMMA CachingSteps ==
    ASSUME AccountInv, NEW p \in Proc, CacheNew(p) \/ CacheUser(p) \/ CacheGone(p)
    PROVE  AccountInv'
<1>o. Types /\ FileOK /\ SharedOK /\ LocalsOK /\ Control(p) /\ (upset = {} => Right(p))
    BY DEF AccountInv, Types, Upheld
<1>r. pc[p] \in Placed => num[p] \in Slots
    BY <1>o, FileSlots DEF Control
<1>1. CASE CacheNew(p)
    <2>1. /\ pc[p] = "cachenew" /\ Goto(p, "form") /\ Keep(p) /\ unread
          /\ setuserid(num[p], New) /\ plock' = NoProc
          /\ UNCHANGED <<aged, updating, ulock, online>>
        BY <1>1 DEF CacheNew
    <2>2. /\ LocalsOK' /\ Alone(p) /\ pc'[p] = "form"
          /\ UNCHANGED <<role, back, name, num, rec, pos, size>>
        BY <1>o, <2>1, KeepStep DEF Stages
    <2>3. plock = p /\ p \notin online
        BY <1>o, <2>1 DEF Control, Taking, Working
    <2>4. Control(p)'
        BY <1>o, <2>1, <2>2, <2>3
           DEF Control, Looking, Taking, Placed, Accounted, Working, unread
    <2>5. ASSUME upset = {} PROVE New = Id(num[p]) /\ Right(p)'
        <3>1. Id(num[p]) = New
            BY <1>o, <2>1, <2>5 DEF Right
        <3>2. Id(num[p])' = New /\ cache'[num[p]] = New
            BY <1>o, <1>r, <2>1, <2>2, <3>1 DEF Id, unread, setuserid, SharedOK, Placed
        <3> QED
            BY <2>2, <3>1, <3>2 DEF Right, Accounted, Working
    <2> QED
        BY <2>1, <2>2, <2>3, <2>4, <2>5, setuseridKeeps DEF Writing
<1>2. CASE CacheUser(p)
    <2>1. /\ pc[p] = "cacheuser" /\ unread /\ setuserid(num[p], name[p])
          /\ UNCHANGED <<aged, updating, ulock, plock, online>>
        BY <1>2 DEF CacheUser
    <2>2. /\ pc' = [pc EXCEPT ![p] = "resolve"] /\ role' = [role EXCEPT ![p] = "newcomer"]
          /\ back' = [back EXCEPT ![p] = "name"] /\ UNCHANGED <<name, num, rec, pos, size>>
        BY <1>2 DEF CacheUser, Goto
    <2>3. LocalsOK'
        BY <1>o, <2>2 DEF LocalsOK, Stages, Roles
    <2>4. Alone(p) /\ pc'[p] = "resolve" /\ role'[p] = "newcomer" /\ back'[p] = "name"
        BY <1>o, <2>2 DEF LocalsOK, Alone
    <2>5. name[p] \in Name /\ p \notin online
        BY <1>o, <2>1 DEF Control, Working
    <2>6. Control(p)'
        BY <1>o, <2>1, <2>2, <2>4, <2>5
           DEF Control, Looking, Askers, Taking, Placed, Accounted, Working, unread
    <2>7. upset = {} => name[p] = Id(num[p])
        BY <1>o, <2>1 DEF Right
    <2>8. Right(p)'
        BY <2>4 DEF Right, Accounted, Working
    <2> QED
        BY <2>1, <2>3, <2>4, <2>5, <2>6, <2>7, <2>8, setuseridKeeps DEF Writing
<1>3. CASE CacheGone(p)
    <2>1. /\ pc[p] = "cachegone" /\ unread /\ setuserid(num[p], NoName) /\ Off(p)
          /\ UNCHANGED <<aged, updating, ulock, plock, online>>
        BY <1>3 DEF CacheGone
    <2>2. LocalsOK' /\ Alone(p) /\ pc'[p] = "off" /\ back'[p] = "name"
        BY <1>o, <2>1, OffStep
    <2>3. p \notin online
        BY <1>o, <2>1 DEF Control, Working
    <2>4. Control(p)'
        BY <2>1, <2>2, <2>3 DEF Control, Looking, Taking, Placed, Accounted, Working
    <2>5. upset = {} => NoName = Id(num[p])
        BY <1>o, <2>1 DEF Right
    <2>6. Right(p)'
        BY <2>2 DEF Right, Accounted, Working
    <2> QED
        BY <2>1, <2>2, <2>4, <2>5, <2>6, setuseridKeeps DEF Writing
<1> QED
    BY <1>1, <1>2, <1>3

-----------------------------------------------------------------------------
(* The steps that write the file. *)
LEMMA PutKeeps ==
    ASSUME AccountInv, NEW p \in Proc, NEW s \in Slots, s = num[p],
           NEW r \in Record, Put(p, s, r), unlocked,
           Alone(p), LocalsOK', Control(p)',
           pc[p] \in Accounted \cup {"put", "form"}, pc'[p] # "confirm",
           p \in online => UNCHANGED num,
           s > Len(passwd) => pc'[p] = "cachenew" /\ num'[p] = s /\ r.id # NoName,
           upset' = {} =>
               /\ Right(p)'
               /\ s <= Len(passwd) + 1
               /\ r.id # Id(s) =>
                      /\ \A q \in online \ {p} : num[q] # s
                      /\ pc'[p] \in Writing /\ num'[p] = s
    PROVE  AccountInv'
<1>o. Types /\ FileOK /\ SharedOK /\ LocalsOK /\ (\A q \in Proc : Control(q))
    BY DEF AccountInv, Types
<1>1. UNCHANGED <<cache, number, aged, updating, ulock, plock, online>>
    BY DEF unlocked, ucache
<1>2. /\ late' = (late \cup {q \in Proc : q # p /\ num[q] = s}) \ {p}
      /\ upset \subseteq upset' /\ upset' \subseteq {"reload", "taken", "entered"}
    BY <1>o DEF Put, SharedOK
<1>3. SharedOK'
    BY <1>o, <1>1, <1>2 DEF SharedOK
<1>4. /\ FileOK' /\ Len(passwd') = (IF s > Len(passwd) THEN s ELSE Len(passwd))
      /\ Id(s)' = r.id
      /\ \A t \in Slots \ {s} : Id(t)' = Id(t)
      /\ \A t \in 1 .. Len(passwd) : t # s => passwd'[t] = passwd[t]
    BY <1>o, PutFile
<1>5. Types'
    BY <1>3, <1>4 DEF Types
<1>6. Len(passwd) \in 0 .. MaxUsers /\ Len(passwd) <= Len(passwd') /\ Len(passwd') \in Nat
    BY <1>o, <1>4, FileSlots, BoundAssumption DEF Slots
<1>7. \A q \in Proc \ {p} : q \notin late' /\ num[q] \in 1 .. Len(passwd) =>
          q \notin late /\ passwd'[num[q]] = passwd[num[q]]
    BY <1>2, <1>4
<1>8. \A q \in Proc : Control(q)'
    BY <1>o, <1>1, <1>4, <1>6, <1>7, ControlOthers
<1>9. ASSUME upset' = {} PROVE Upheld'
    <2>1. upset = {}
        BY <1>2, <1>9
    <2>2. (\A q \in Proc : Right(q)) /\ Spared /\ Cached
        BY <2>1 DEF AccountInv, Upheld
    <2>3. ASSUME NEW q \in Proc \ {p}, pc[q] = "fill" PROVE Len(passwd') = Len(passwd)
        <3>1. r.id = Id(s)
            BY <1>9, <2>3 DEF Put, Reloading
        <3>2. s > Len(passwd) => Id(s) = NoName
            BY <1>o, FileSlots
        <3> QED
            BY <1>4, <3>1, <3>2
    <2>4. ASSUME NEW q \in Proc \ {p}, NEW t \in Slots, num[q] = t PROVE Id(t)' = Id(t)
        <3>1. CASE t # s
            BY <1>4, <3>1
        <3>2. CASE t = s /\ q \in online
            BY <1>4, <1>9, <2>4, <3>2
        <3>3. CASE t = s /\ q \notin online
            <4>1. r.id = Id(s)
                BY <1>9, <2>4, <3>3 DEF Put
            <4> QED
                BY <1>4, <3>3, <4>1
        <3> QED
            BY <3>1, <3>2, <3>3
    <2>5. \A q \in Proc : Right(q)'
        BY <1>o, <1>1, <1>4, <1>6, <1>9, <2>2, <2>3, <2>4, RightOthers
    <2>6. Spared'
        BY <1>o, <1>1, <2>2, StillSpared
    <2>7. pc[p] \notin Writing
        BY DEF Accounted, Working, Writing
    <2>8. \A q \in Proc : pc[q] \in Writing => pc'[q] = pc[q] /\ num'[q] = num[q]
        BY <2>7 DEF Alone
    <2>9. Between \subseteq Between'
        BY <2>8 DEF Between, Writing
    <2>10. ASSUME NEW t \in Slots, t \notin Between' PROVE cache'[t] = Id(t)'
        <3>1. cache[t] = Id(t)
            BY <2>2, <2>9, <2>10 DEF Cached
        <3>2. CASE t = s
            <4>1. ~(pc'[p] \in Writing /\ num'[p] = s)
                BY <2>10, <3>2 DEF Between, Writing
            <4> QED
                BY <1>1, <1>4, <1>9, <3>1, <3>2, <4>1
        <3>3. CASE t # s
            BY <1>1, <1>4, <3>1, <3>3
        <3> QED
            BY <3>2, <3>3
    <2>11. number <= Len(passwd) /\ number \in Nat
        BY <1>o, <2>2 DEF SharedOK, Cached
    <2>12. ASSUME NEW t \in number + 1 .. Len(passwd')
           PROVE  \E q \in Proc : pc'[q] = "cachenew" /\ num'[q] = t
        <3>1. CASE t \in number + 1 .. Len(passwd)
            <4>1. PICK q \in Proc : pc[q] = "cachenew" /\ num[q] = t
                BY <2>2, <3>1 DEF Cached
            <4> QED
                BY <2>8, <4>1 DEF Writing
        <3>2. CASE t \notin number + 1 .. Len(passwd)
            <4>1. s > Len(passwd) /\ t = s
                <5>1. t > Len(passwd) /\ t <= Len(passwd')
                    BY <1>6, <2>11, <2>12, <3>2
                <5>2. s <= Len(passwd) + 1
                    BY <1>9
                <5> QED
                    BY <1>4, <1>6, <2>11, <2>12, <5>1, <5>2, BoundAssumption DEF Slots
            <4> QED
                BY <4>1
        <3> QED
            BY <3>1, <3>2
    <2>13. number <= Len(passwd')
        BY <1>6, <2>11
    <2>14. Cached'
        BY <1>1, <2>10, <2>12, <2>13 DEF Cached
    <2> QED
        BY <2>5, <2>6, <2>14 DEF Upheld
<1> QED
    BY <1>5, <1>8, <1>9 DEF AccountInv

\* The account of a session has the name it logged in with.
LEMMA SessionNames ==
    ASSUME AccountInv, upset = {}, NEW q \in online
    PROVE  Id(num[q]) \in Name
<1>1. q \in Proc /\ Control(q) /\ Right(q)
    BY DEF AccountInv, Types, SharedOK, Upheld
<1> QED
    BY <1>1 DEF Control, Right, Accounted, Working

LEMMA PutNewKeeps ==
    ASSUME AccountInv, NEW p \in Proc, PutNew(p)
    PROVE  AccountInv'
<1> DEFINE r == [Empty EXCEPT !.id = New]
<1>o. Types /\ FileOK /\ SharedOK /\ LocalsOK /\ Control(p) /\ (upset = {} => Right(p))
    BY DEF AccountInv, Types, Upheld
<1>1. pc[p] = "put" /\ Put(p, num[p], r) /\ Goto(p, "cachenew") /\ Keep(p) /\ unlocked
    BY DEF PutNew
<1>2. r \in Record /\ r.id = New
    BY BoundAssumption DEF Empty, Record
<1>3. num[p] \in Slots /\ p \notin online /\ plock = p
    BY <1>o, <1>1 DEF Control, Working, Taking
<1> HIDE DEF r
<1>4. /\ LocalsOK' /\ Alone(p) /\ pc'[p] = "cachenew"
      /\ UNCHANGED <<role, back, name, num, rec, pos, size>>
    BY <1>o, <1>1, KeepStep DEF Stages
<1>5. /\ Len(passwd') = (IF num[p] > Len(passwd) THEN num[p] ELSE Len(passwd))
      /\ Id(num[p])' = New
    <2>1. PICK s \in Slots : s = num[p]
        BY <1>3
    <2>2. Id(s)' = New /\ Len(passwd') = (IF s > Len(passwd) THEN s ELSE Len(passwd))
        BY <1>o, <1>1, <1>2, <2>1, PutFile
    <2> QED
        BY <1>4, <2>1, <2>2 DEF Id
<1>6. UNCHANGED <<cache, plock, online>> /\ upset \subseteq upset'
    BY <1>1 DEF unlocked, ucache, Put
<1>7. num[p] \in 1 .. Len(passwd')
    BY <1>o, <1>3, <1>5, FileSlots, BoundAssumption DEF Slots
<1>8. Control(p)'
    BY <1>o, <1>1, <1>3, <1>4, <1>6, <1>7
       DEF Control, Looking, Taking, Placed, Accounted, Working
<1>9. ASSUME upset' = {}
      PROVE  /\ Right(p)' /\ num[p] <= Len(passwd) + 1
             /\ \A q \in online \ {p} : num[q] # num[p]
    <2>1. upset = {}
        BY <1>6, <1>9
    <2>2. Id(num[p]) = NoName /\ cache[num[p]] = NoName /\ num[p] <= Len(passwd) + 1
        BY <1>o, <1>1, <2>1 DEF Right
    <2>3. \A q \in online : num[q] # num[p]
        BY <2>1, <2>2, SessionNames, NameAssumption
    <2>4. Right(p)'
        BY <1>4, <1>5, <1>6, <2>2 DEF Right, Accounted, Working
    <2> QED
        BY <2>2, <2>3, <2>4
<1> QED
    BY <1>1, <1>2, <1>3, <1>4, <1>8, <1>9, PutKeeps, NameAssumption DEF Writing

\* The record of a slot in the file is replaced.
LEMMA PutInFile ==
    ASSUME Types, NEW p \in Proc, num[p] \in 1 .. Len(passwd), NEW r \in Record,
           Put(p, num[p], r)
    PROVE  /\ num[p] \in Slots /\ Len(passwd') = Len(passwd)
           /\ num'[p] = num[p] => Id(num[p])' = r.id
           /\ num[p] <= Len(passwd) + 1 /\ ~(num[p] > Len(passwd))
<1>1. PICK s \in 1 .. Len(passwd) : s = num[p]
    OBVIOUS
<1>2. s \in Slots /\ Len(passwd) \in 0 .. MaxUsers
    BY FileSlots DEF Types
<1>3. Id(s)' = r.id /\ Len(passwd') = (IF s > Len(passwd) THEN s ELSE Len(passwd))
    BY <1>1, <1>2, PutFile DEF Types
<1>4. num'[p] = num[p] => Id(num[p])' = r.id
    BY <1>1, <1>3 DEF Id
<1> QED
    BY <1>1, <1>2, <1>3, <1>4, BoundAssumption

LEMMA PutUserKeeps ==
    ASSUME AccountInv, NEW p \in Proc, PutUser(p)
    PROVE  AccountInv'
<1> DEFINE r == [id |-> name[p], level |-> {"post"}, count |-> 0]
<1>o. Types /\ FileOK /\ SharedOK /\ LocalsOK /\ Control(p) /\ (upset = {} => Right(p))
    BY DEF AccountInv, Types, Upheld
<1>1. pc[p] = "form" /\ Put(p, num[p], r) /\ Goto(p, "cacheuser") /\ Keep(p) /\ unlocked
    BY DEF PutUser
<1>2. num[p] \in 1 .. Len(passwd) /\ p \notin online /\ name[p] \in Name
    BY <1>o, <1>1 DEF Control, Working, Placed
<1>3. r \in Record /\ r.id = name[p]
    BY <1>2, BoundAssumption DEF Record, Perms
<1> HIDE DEF r
<1>4. /\ LocalsOK' /\ Alone(p) /\ pc'[p] = "cacheuser"
      /\ UNCHANGED <<role, back, name, num, rec, pos, size>>
    BY <1>o, <1>1, KeepStep DEF Stages
<1>5. /\ num[p] \in Slots /\ Len(passwd') = Len(passwd) /\ Id(num[p])' = name[p]
      /\ num[p] <= Len(passwd) + 1 /\ ~(num[p] > Len(passwd))
    BY <1>o, <1>1, <1>2, <1>3, <1>4, PutInFile
<1>6. UNCHANGED <<cache, plock, online>> /\ upset \subseteq upset'
    BY <1>1 DEF unlocked, ucache, Put
<1>7. Control(p)'
    BY <1>o, <1>1, <1>2, <1>4, <1>5, <1>6
       DEF Control, Looking, Taking, Placed, Accounted, Working
<1>8. ASSUME upset' = {}
      PROVE  Right(p)' /\ \A q \in online \ {p} : num[q] # num[p]
    <2>1. upset = {}
        BY <1>6, <1>8
    <2>2. Id(num[p]) = New /\ cache[num[p]] = New
        BY <1>o, <1>1, <2>1 DEF Right
    <2>3. \A q \in online : num[q] # num[p]
        BY <2>1, <2>2, SessionNames, NameAssumption
    <2>4. Right(p)'
        BY <1>4, <1>5, <1>6, <2>2 DEF Right, Accounted, Working
    <2> QED
        BY <2>3, <2>4
<1> QED
    BY <1>1, <1>3, <1>4, <1>5, <1>7, <1>8, PutKeeps DEF Writing

\* d_user
LEMMA DeleteKeeps ==
    ASSUME AccountInv, NEW p \in Proc, Delete(p)
    PROVE  AccountInv'
<1> DEFINE r == [rec[p] EXCEPT !.id = NoName, !.level = {}]
<1>o. Types /\ FileOK /\ SharedOK /\ LocalsOK /\ Control(p)
    BY DEF AccountInv, Types
<1>1. pc[p] = "confirm" /\ Put(p, num[p], r) /\ Goto(p, "cachegone") /\ Keep(p) /\ unlocked
    BY DEF Delete
<1>2. num[p] \in 1 .. Len(passwd) /\ p \notin online
    BY <1>o, <1>1 DEF Control, Working, Placed, Accounted
<1>3. r \in Record /\ r.id = NoName
    BY <1>o DEF LocalsOK, Record
<1> HIDE DEF r
<1>4. /\ LocalsOK' /\ Alone(p) /\ pc'[p] = "cachegone"
      /\ UNCHANGED <<role, back, name, num, rec, pos, size>>
    BY <1>o, <1>1, KeepStep DEF Stages
<1>5. /\ num[p] \in Slots /\ Len(passwd') = Len(passwd) /\ Id(num[p])' = NoName
      /\ num[p] <= Len(passwd) + 1 /\ ~(num[p] > Len(passwd))
    BY <1>o, <1>1, <1>2, <1>3, <1>4, PutInFile
<1>6. UNCHANGED <<cache, plock, online>> /\ upset \subseteq upset'
    BY <1>1 DEF unlocked, ucache, Put
<1>7. Control(p)'
    BY <1>o, <1>1, <1>2, <1>4, <1>5, <1>6
       DEF Control, Looking, Taking, Placed, Accounted, Working
<1>8. ASSUME upset' = {}
      PROVE  Right(p)' /\ \A q \in online \ {p} : num[q] # num[p]
    <2>1. upset = {}
        BY <1>6, <1>8
    <2>2. \A q \in online : num[q] # num[p]
        BY <1>1, <2>1 DEF AccountInv, Upheld, Spared
    <2>3. Right(p)'
        BY <1>4, <1>5 DEF Right, Accounted, Working
    <2> QED
        BY <2>2, <2>3
<1> QED
    BY <1>1, <1>3, <1>4, <1>5, <1>7, <1>8, PutKeeps DEF Writing, Accounted

\* A copy of the record goes back with its id.
LEMMA Rewritten ==
    ASSUME AccountInv, NEW p \in Proc, pc[p] \in Accounted, NEW r \in Record,
           r.id = rec[p].id, Put(p, num[p], r), unlocked,
           \/ Off(p) /\ pc[p] \notin Working
           \/ /\ rec' = [rec EXCEPT ![p] = r] /\ UNCHANGED <<back, name, num, pos, size>>
              /\ UNCHANGED role \/ role' = [role EXCEPT ![p] = "exit"]
              /\ \E l \in Working \cup {"enter"} :
                    Goto(p, l) /\ l # "write" /\ (l \in Working <=> pc[p] \in Working)
    PROVE  AccountInv'
<1>o. Types /\ FileOK /\ SharedOK /\ LocalsOK /\ Control(p) /\ (upset = {} => Right(p))
    BY DEF AccountInv, Types, Upheld
<1>1. num[p] \in 1 .. Len(passwd) /\ pc[p] # "off" /\ (p \in online <=> pc[p] \in Working)
    BY <1>o DEF Control, Placed, Accounted, Working
<1>2. /\ num[p] \in Slots /\ Len(passwd') = Len(passwd)
      /\ num'[p] = num[p] => Id(num[p])' = r.id
      /\ num[p] <= Len(passwd) + 1 /\ ~(num[p] > Len(passwd))
    BY <1>o, <1>1, PutInFile
<1>3. UNCHANGED <<cache, plock, online>> /\ upset \subseteq upset'
    BY DEF unlocked, ucache, Put
<1>4. upset = {} => rec[p].id = name[p] /\ Id(num[p]) = name[p]
    BY <1>o DEF Right
<1>5. CASE Off(p) /\ pc[p] \notin Working
    <2>1. LocalsOK' /\ Alone(p) /\ pc'[p] = "off" /\ back'[p] = "name"
        BY <1>o, <1>5, OffStep
    <2>2. Control(p)'
        BY <1>1, <1>3, <1>5, <2>1
           DEF Control, Looking, Taking, Placed, Accounted, Working
    <2>3. Right(p)'
        BY <2>1 DEF Right, Accounted, Working
    <2>4. p \notin online
        BY <1>1, <1>5
    <2> QED
        BY <1>2, <1>3, <1>4, <2>1, <2>2, <2>3, <2>4, PutKeeps
<1>6. CASE /\ rec' = [rec EXCEPT ![p] = r] /\ UNCHANGED <<back, name, num, pos, size>>
           /\ UNCHANGED role \/ role' = [role EXCEPT ![p] = "exit"]
           /\ \E l \in Working \cup {"enter"} :
                 Goto(p, l) /\ l # "write" /\ (l \in Working <=> pc[p] \in Working)
    <2>1. PICK l \in Working \cup {"enter"} :
              Goto(p, l) /\ l # "write" /\ (l \in Working <=> pc[p] \in Working)
        BY <1>6
    <2>2. l \in Stages /\ l \in Accounted
        BY DEF Working, Stages, Accounted
    <2>3. LocalsOK'
        BY <1>o, <1>6, <2>1, <2>2 DEF Goto, LocalsOK, Roles
    <2>4. Alone(p) /\ pc'[p] = l /\ rec'[p] = r
        BY <1>o, <1>6, <2>1 DEF Goto, LocalsOK, Alone
    <2>5. Control(p)'
        <3>1. l \notin {"off", "name", "get", "put", "write"} \cup Looking \cup Taking
              /\ l \in Placed
            BY <2>1, <2>2 DEF Working, Looking, Taking, Placed
        <3> QED
            BY <1>o, <1>1, <1>2, <1>3, <1>6, <2>1, <2>4, <3>1 DEF Control
    <2>6. upset' = {} => Right(p)'
        <3>1. Id(num[p])' = r.id
            BY <1>2, <1>6
        <3>2. upset' = {} => upset = {}
            BY <1>3
        <3> QED
            BY <1>4, <1>6, <2>1, <2>4, <3>1, <3>2 DEF Right, Accounted, Working
    <2>7. pc'[p] # "confirm"
        BY <2>4 DEF Working
    <2> QED
        BY <1>2, <1>3, <1>4, <1>6, <2>3, <2>4, <2>5, <2>6, <2>7, PutKeeps
<1> QED
    BY <1>5, <1>6

LEMMA RewritingSteps ==
    ASSUME AccountInv, NEW p \in Proc,
           \/ Revive(p) \/ WriteBack(p) \/ offline(p)
           \/ x_level(p) \/ x_denylevel(p) \/ onekeyactivation(p)
    PROVE  AccountInv'
<1>o. Types /\ SharedOK /\ LocalsOK /\ rec[p] \in Record
    BY DEF AccountInv, Types, LocalsOK
<1>1. CASE Revive(p)
    <2> DEFINE r == [rec[p] EXCEPT !.level = rec[p].level \ {"suicide"}]
    <2>1. rec' = [rec EXCEPT ![p] = r]
        BY <1>o, <1>1 DEF Revive, LocalsOK
    <2>2. rec'[p] = r /\ r \in Record /\ r.id = rec[p].id
        BY <1>o, <2>1 DEF LocalsOK, Record
    <2> HIDE DEF r
    <2>3. pc[p] = "password" /\ Put(p, num[p], r) /\ Goto(p, "enter")
          /\ UNCHANGED <<role, back, name, num, pos, size>> /\ unlocked
        BY <1>1, <2>2 DEF Revive
    <2>4. \E l \in Working \cup {"enter"} :
              Goto(p, l) /\ l # "write" /\ (l \in Working <=> pc[p] \in Working)
        BY <2>3 DEF Working
    <2>5. pc[p] \in Accounted
        BY <2>3 DEF Accounted, Working
    <2> QED
        BY <2>1, <2>2, <2>3, <2>4, <2>5, Rewritten
<1>2. CASE WriteBack(p)
    <2>1. Written(p) \in Record /\ Written(p).id = rec[p].id
        BY <1>o, <1>2, BoundAssumption DEF WriteBack, Written, Record
    <2>2. pc[p] = "write" /\ Put(p, num[p], Written(p)) /\ unlocked
          /\ rec' = [rec EXCEPT ![p] = Written(p)]
          /\ UNCHANGED <<role, back, name, num, pos, size>>
        BY <1>2 DEF WriteBack
    <2>3. \E l \in {"leave", "session"} : Goto(p, l)
        BY <1>2 DEF WriteBack
    <2>4. \E l \in Working \cup {"enter"} :
              Goto(p, l) /\ l # "write" /\ (l \in Working <=> pc[p] \in Working)
        BY <2>2, <2>3 DEF Working
    <2>5. pc[p] \in Accounted
        BY <2>2 DEF Accounted, Working
    <2> QED
        BY <2>1, <2>2, <2>4, <2>5, Rewritten
<1>3. CASE offline(p)
    <2> DEFINE r == [rec[p] EXCEPT !.level = {"suicide"}]
    <2>1. rec' = [rec EXCEPT ![p] = r]
        BY <1>o, <1>3 DEF offline, LocalsOK
    <2>2. rec'[p] = r /\ r \in Record /\ r.id = rec[p].id
        BY <1>o, <2>1 DEF LocalsOK, Record, Perms
    <2> HIDE DEF r
    <2>3. pc[p] = "session" /\ Put(p, num[p], r) /\ Goto(p, "refresh")
          /\ role' = [role EXCEPT ![p] = "exit"]
          /\ UNCHANGED <<back, name, num, pos, size>> /\ unlocked
        BY <1>3, <2>2 DEF offline
    <2>4. \E l \in Working \cup {"enter"} :
              Goto(p, l) /\ l # "write" /\ (l \in Working <=> pc[p] \in Working)
        BY <2>3 DEF Working
    <2>5. pc[p] \in Accounted
        BY <2>3 DEF Accounted, Working
    <2> QED
        BY <2>1, <2>2, <2>3, <2>4, <2>5, Rewritten
<1>4. ASSUME NEW l \in SUBSET Perms, SetLevel(p, l) PROVE AccountInv'
    <2> DEFINE r == [rec[p] EXCEPT !.level = l]
    <2>1. pc[p] = "edit" /\ Off(p) /\ unlocked
        BY <1>4 DEF SetLevel
    <2>2. CASE l # rec[p].level
        <3>1. r \in Record /\ r.id = rec[p].id /\ Put(p, num[p], r)
            BY <1>o, <1>4, <2>2 DEF SetLevel, Record
        <3> HIDE DEF r
        <3> QED
            BY <2>1, <3>1, Rewritten DEF Accounted, Working
    <2>3. CASE l = rec[p].level
        <3>1. unread /\ online' = online \ {p}
            BY <1>4, <2>1, <2>3 DEF SetLevel, unlocked, AccountInv, Control, Working
        <3> QED
            BY <2>1, <3>1, EndSteps DEF unlocked
    <2> QED
        BY <2>2, <2>3
<1>5. CASE x_denylevel(p)
    <2>1. \A l \in {rec[p].level \cup {"post"}, rec[p].level \ {"post"}} : l \in SUBSET Perms
        BY <1>o DEF Record, Perms
    <2> QED
        BY <1>4, <1>5, <2>1 DEF x_denylevel
<1>6. CASE onekeyactivation(p)
    <2> DEFINE r == [rec[p] EXCEPT !.level = rec[p].level \cup {"post"}]
    <2>1. r \in Record /\ r.id = rec[p].id
        BY <1>o DEF Record, Perms
    <2>2. pc[p] = "edit" /\ Off(p) /\ unlocked /\ Put(p, num[p], r)
        BY <1>6 DEF onekeyactivation
    <2> HIDE DEF r
    <2> QED
        BY <2>1, <2>2, Rewritten DEF Accounted, Working
<1> QED
    BY <1>1, <1>2, <1>3, <1>4, <1>5, <1>6 DEF x_level

-----------------------------------------------------------------------------
\* Nothing the invariant looks at changes.
LEMMA Unmoved ==
    ASSUME AccountInv, SharedOK',
           UNCHANGED <<passwd, cache, number, plock, online, locals, late, upset>>
    PROVE  AccountInv'
<1>1. UNCHANGED <<passwd, cache, number, plock, online, late, upset>>
      /\ UNCHANGED <<pc, role, back, name, num, rec, pos, size>>
    BY DEF locals, lookup
<1>2. Types'
    BY <1>1 DEF AccountInv, Types, FileOK, LocalsOK
<1>3. \A q \in Proc : Control(q)'
    BY <1>1 DEF AccountInv, Control
<1>4. ASSUME upset' = {} PROVE Upheld'
    <2>1. (\A q \in Proc : Right(q)) /\ Spared /\ Cached
        BY <1>1, <1>4 DEF AccountInv, Upheld
    <2>2. \A q \in Proc : Right(q)'
        BY <1>1, <2>1 DEF Right, Id
    <2>3. Spared'
        BY <1>1, <2>1 DEF Spared
    <2>4. Cached'
        BY <1>1, <2>1 DEF Cached, Between, Id
    <2> QED
        BY <2>2, <2>3, <2>4 DEF Upheld
<1> QED
    BY <1>2, <1>3, <1>4 DEF AccountInv

LEMMA InitAccountInv == Init => AccountInv
<1> SUFFICES ASSUME Init PROVE AccountInv
    OBVIOUS
<1>1. FileOK /\ Len(passwd) = 0
    BY EmptySeq, BoundAssumption DEF Init, FileOK
<1>2. SharedOK
    <2>1. cache \in [Slots -> Name \cup {NoName, New}] /\ number \in 0 .. MaxUsers
        BY BoundAssumption DEF Init
    <2>2. /\ aged \in BOOLEAN /\ updating \in BOOLEAN
          /\ ulock \in Proc \cup {NoProc} /\ plock \in Proc \cup {NoProc}
          /\ online \subseteq Proc /\ late \subseteq Proc
          /\ upset \subseteq {"reload", "taken", "entered"}
        BY DEF Init
    <2> QED
        BY <2>1, <2>2 DEF SharedOK
<1>3. Empty \in Record
    BY BoundAssumption DEF Empty, Record
<1>4. LocalsOK
    BY <1>3, BoundAssumption DEF Init, LocalsOK, Stages, Roles
<1>5. \A q \in Proc : Control(q)
    BY DEF Init, Control, Looking, Taking, Placed, Accounted, Working
<1>6. \A q \in Proc : Right(q)
    BY DEF Init, Right, Accounted, Working
<1>7. Spared
    BY DEF Init, Spared
<1>8. Cached
    <2>1. \A s \in Slots : Id(s) = NoName /\ cache[s] = NoName
        BY <1>1, BoundAssumption DEF Init, Id, Slots
    <2>2. number <= Len(passwd) /\ number + 1 .. Len(passwd) = {}
        BY <1>1 DEF Init
    <2> QED
        BY <2>1, <2>2 DEF Cached
<1> QED
    BY <1>1, <1>2, <1>4, <1>5, <1>6, <1>7, <1>8 DEF AccountInv, Types, Upheld

LEMMA StepAccountInv == AccountInv /\ [Next]_vars => AccountInv'
<1> SUFFICES ASSUME AccountInv, [Next]_vars PROVE AccountInv'
    OBVIOUS
<1>1. CASE Age
    BY <1>1, Unmoved DEF Age, AccountInv, Types, SharedOK
<1>2. ASSUME NEW p \in Proc, Step(p) PROVE AccountInv'
    <2>1. CASE Resolve(p) \/ TryLock(p) \/ ClearFlag(p)
        BY <2>1, LookingSteps
    <2>2. CASE fillucache(p) \/ Publish(p)
        BY <2>2, fillucacheKeeps, PublishKeeps
    <2>3. CASE searchuser(p) \/ getuser(p)
        BY <2>3, searchuserKeeps, getuserKeeps
    <2>4. CASE \/ \E n \in Name : AskName(p, n) \/ Login(p, n)
               \/ \E n \in Name : \E r \in {"delete", "level"} : Manage(p, r, n)
        BY <2>4, AskSteps
    <2>5. CASE LockPasswd(p) \/ searchnewuser(p) \/ PutNew(p) \/ PutUser(p) \/ Delete(p)
        BY <2>5, LockPasswdKeeps, searchnewuserKeeps, PutNewKeeps, PutUserKeeps, DeleteKeeps
    <2>6. CASE CacheNew(p) \/ CacheUser(p) \/ CacheGone(p)
        BY <2>6, CachingSteps
    <2>7. CASE \/ GiveUp(p) \/ BadPassword(p) \/ Spare(p) \/ Leave(p) \/ Password(p)
               \/ do_post(p) \/ uinfo_query(p) \/ u_exit(p) \/ NotCounted(p)
        BY <2>7, SessionSteps
    <2>8. CASE u_enter(p) \/ set_safe_record(p) \/ CheckOffline(p)
        BY <2>8, u_enterKeeps, set_safe_recordKeeps, CheckOfflineKeeps
    <2>9. CASE \/ Revive(p) \/ WriteBack(p) \/ offline(p)
               \/ x_level(p) \/ x_denylevel(p) \/ onekeyactivation(p)
        BY <2>9, RewritingSteps
    <2> QED
        BY <1>2, <2>1, <2>2, <2>3, <2>4, <2>5, <2>6, <2>7, <2>8, <2>9 DEF Step
<1>3. CASE UNCHANGED vars
    BY <1>3, Unmoved DEF vars, ucache, AccountInv, Types, SharedOK
<1> QED
    BY <1>1, <1>2, <1>3 DEF Next

LEMMA Invariant == Spec => []AccountInv
BY InitAccountInv, StepAccountInv, PTL DEF Spec

(* Every variable has its type: no slot past MAXUSERS is written or cached, and
   the copies of records the processes hold are records. *)
THEOREM TypesHold == Spec => []TypeOK
<1>1. AccountInv => TypeOK
    BY DEF AccountInv, Types, FileOK, SharedOK, LocalsOK, TypeOK
<1> QED
    BY <1>1, Invariant, PTL

(* resolve_ucache and setuserid: with no rebuild at work the cache of user ids
   is the account file, but for the slots somebody is between writing and
   caching, as long as none of the mishaps the code lets through happened. *)
THEOREM CacheIsTrue == Spec => []CacheTrue
<1>1. AccountInv => CacheTrue
    <2> SUFFICES ASSUME AccountInv, upset = {} PROVE
            /\ \A s \in Slots \ Between : cache[s] = Id(s)
            /\ number <= Len(passwd)
            /\ \A s \in number + 1 .. Len(passwd) : s \in Between
        BY DEF CacheTrue
    <2>1. Cached
        BY DEF AccountInv, Upheld
    <2> QED
        BY <2>1 DEF Cached, Between
<1> QED
    BY <1>1, Invariant, PTL

(* The sessions of u_enter to u_exit: the slot a session writes to has the id
   of its copy, as long as nobody entered while d_user waited for its answer
   and the other mishaps did not happen. *)
THEOREM OwnAccountHolds == Spec => []OwnAccount
<1>1. AccountInv => OwnAccount
    <2> SUFFICES ASSUME AccountInv, upset = {}, NEW p \in online PROVE Id(num[p]) = rec[p].id
        BY DEF OwnAccount
    <2>1. p \in Proc /\ Control(p) /\ Right(p)
        BY DEF AccountInv, Types, SharedOK, Upheld
    <2> QED
        BY <2>1 DEF Control, Right, Accounted
<1> QED
    BY <1>1, Invariant, PTL

(* getnewuserid: the slot it writes "new" to holds no account and was given to
   no other registration. *)
THEOREM SlotsAreFree == Spec => SlotWasFree
<1>1. ASSUME AccountInv, [Next]_vars
      PROVE  [\A p \in Proc : PutNew(p) => upset # {} \/ Id(num[p]) = NoName]_vars
    BY <1>1 DEF AccountInv, Upheld, PutNew, Right
<1> QED
    BY <1>1, Invariant, PTL DEF Spec, SlotWasFree

(* set_safe_record and the write after it: what others wrote to the account
   before the session read it again stays, and its own login or post counts one. *)
THEOREM NothingIsLost == Spec => NothingLost
<1> DEFINE Kept == \A p \in Proc \ late : WriteBack(p) =>
              LET s == num[p] IN
              /\ passwd'[s].level = passwd[s].level
              /\ passwd'[s].count - passwd[s].count
                   = IF role[p] \in {"login", "post"} THEN 1 ELSE 0
<1>1. ASSUME AccountInv, NEW p \in Proc \ late, WriteBack(p), NEW s, s = num[p]
      PROVE  /\ passwd'[s].level = passwd[s].level
             /\ passwd'[s].count - passwd[s].count
                  = IF role[p] \in {"login", "post"} THEN 1 ELSE 0
    <2>1. Types /\ Control(p) /\ rec[p] \in Record
        BY <1>1 DEF AccountInv, Types, LocalsOK
    <2>2. pc[p] = "write" /\ Put(p, s, Written(p)) /\ Written(p).count <= MaxCount
        BY <1>1 DEF WriteBack
    <2>3. rec[p].level = passwd[s].level /\ rec[p].count = passwd[s].count
          /\ s \in 1 .. Len(passwd)
        BY <1>1, <2>1, <2>2 DEF Control, Placed, Accounted, Working
    <2>4. s \in Slots
        BY <2>1, <2>3, FileSlots DEF Types
    <2>5. Written(p) \in Record /\ Written(p).level = rec[p].level
          /\ Written(p).count = rec[p].count + IF role[p] \in {"login", "post"} THEN 1 ELSE 0
        BY <2>1, <2>2, BoundAssumption DEF Written, Record
    <2>6. passwd'[s] = Written(p)
        BY <2>1, <2>2, <2>4, <2>5, PutFile DEF Types
    <2>7. rec[p].count \in Nat
        BY <2>1, BoundAssumption DEF Record
    <2> QED
        BY <2>3, <2>5, <2>6, <2>7
<1>2. ASSUME AccountInv, [Next]_vars PROVE [Kept]_vars
    BY <1>1, <1>2
<1> QED
    BY <1>2, Invariant, PTL DEF Spec, NothingLost
===============================================================================
