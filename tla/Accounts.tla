------------------------------- MODULE Accounts -------------------------------
(***************************************************************************)
(* The account file PASSFILE and the shared cache of its user ids          *)
(* (ucache.c, register.c, and the places of main.c, bbs.c, maintain.c,     *)
(* userinfo.c, delete.c and stuff.c that write an account).                *)
(*                                                                         *)
(* An account is a slot of PASSFILE.  The cache holds the ids of all slots *)
(* and is rebuilt once a day by whoever looks a user up first; in between  *)
(* setuserid keeps it up, without a lock.  Every session keeps a copy of   *)
(* its account and writes the whole copy back.                             *)
(*                                                                         *)
(* A record is its id, its permissions and one counter, which stands for   *)
(* numposts, numlogins and stay.  The accounts are not SYSOP or guest.     *)
(***************************************************************************)
EXTENDS Naturals, Sequences, FiniteSets

CONSTANTS
    Proc, NoProc,   \* processes; nobody
    Name,           \* user ids people ask for
    NoName,         \* the id "" of a free slot
    New,            \* the id "new" of a slot being registered
    MaxUsers,       \* MAXUSERS
    MaxCount        \* bound: the counter of a record

ASSUME ProcAssumption == NoProc \notin Proc
ASSUME NameAssumption == NoName \notin Name /\ New \notin Name /\ New # NoName
ASSUME BoundAssumption == MaxUsers \in Nat \ {0} /\ MaxCount \in Nat

Perms == {"post", "suicide"}
Slots == 1 .. MaxUsers
Record == [id : Name \cup {NoName, New}, level : SUBSET Perms, count : 0 .. MaxCount]
Empty == [id |-> NoName, level |-> {}, count |-> 0]

VARIABLES
    passwd,     \* PASSFILE
    cache,      \* uidshm->userid
    number,     \* uidshm->number
    aged,       \* uidshm->uptime is more than a day ago
    updating,   \* uidshm->updating
    ulock,      \* who has the lock file ucache.lock
    plock,      \* who has the lock of PASSFILE in getnewuserid
    online,     \* processes with a slot of the user table
    pc,
    role,       \* what the process is doing
    back,       \* where it goes on after resolve_ucache
    name,       \* the id it was given
    num,        \* its slot: usernum, allocid or id
    rec,        \* its copy of the record: currentuser, newuser or lookupuser
    pos, size,  \* its rebuild of the cache: usernumber, and the size of the map
    \* What the properties remember.
    late,       \* processes whose slot was written after they last read it
    upset       \* the mishaps that nothing in the code prevents

lookup == <<role, back, name, num, rec>>
locals == <<pc, lookup, pos, size>>
ucache == <<cache, number, aged, updating, ulock>>
vars == <<passwd, ucache, plock, online, locals, late, upset>>

Roles == {"none", "register", "newcomer", "login", "post", "info", "exit",
          "delete", "level"}
Stages == {"off", "resolve", "trylock", "fill", "close", "name", "get", "alloc",
           "slot", "put", "cachenew", "form", "cacheuser", "password", "enter",
           "refresh", "write", "session", "leave", "check", "confirm", "cachegone",
           "edit"}

Init ==
    /\ passwd = << >>
    /\ cache = [s \in Slots |-> NoName]
    /\ number = 0
    /\ aged \in BOOLEAN
    /\ updating = FALSE
    /\ ulock = NoProc /\ plock = NoProc
    /\ online = {}
    /\ pc = [p \in Proc |-> "off"]
    /\ role = [p \in Proc |-> "none"]
    /\ back = [p \in Proc |-> "name"]
    /\ name = [p \in Proc |-> NoName]
    /\ num = [p \in Proc |-> 0]
    /\ rec = [p \in Proc |-> Empty]
    /\ pos = [p \in Proc |-> 1]
    /\ size = [p \in Proc |-> 0]
    /\ late = {}
    /\ upset = {}

Goto(p, stage) == pc' = [pc EXCEPT ![p] = stage]

\* The process is done; its locals are gone.
Off(p) ==
    /\ Goto(p, "off")
    /\ role' = [role EXCEPT ![p] = "none"]
    /\ back' = [back EXCEPT ![p] = "name"]
    /\ name' = [name EXCEPT ![p] = NoName]
    /\ num' = [num EXCEPT ![p] = 0]
    /\ rec' = [rec EXCEPT ![p] = Empty]
    /\ UNCHANGED <<pos, size>>

Keep(p) == UNCHANGED <<lookup, pos, size>>

Id(s) == IF s <= Len(passwd) THEN passwd[s].id ELSE NoName
Reloading == \E p \in Proc : pc[p] = "fill"

\* A write past the end of the file leaves zeroes in between.
Stored(s, r) ==
    [t \in 1 .. (IF s > Len(passwd) THEN s ELSE Len(passwd)) |->
        IF t = s THEN r ELSE IF t <= Len(passwd) THEN passwd[t] ELSE Empty]

\* substitute_record: the whole record, under the lock of the file for just
\* this write; refused for a slot below 1.
Put(p, s, r) ==
    /\ plock \in {NoProc, p}
    /\ passwd' = Stored(s, r)
    /\ late' = (late \cup {q \in Proc : q # p /\ num[q] = s}) \ {p}
    /\ upset' = upset
         \cup (IF Reloading /\ r.id # Id(s) THEN {"reload"} ELSE {})
         \cup (IF r.id # Id(s) /\ \E q \in Proc \ online : q # p /\ num[q] = s
               THEN {"taken"} ELSE {})

\* Variant: the number of entries in use is not raised.
setuserid_low(s, n) ==
    /\ number' = number
    /\ cache' = [cache EXCEPT ![s] = n]

setuserid(s, n) ==
    /\ number' = IF s > number THEN s ELSE number
    /\ cache' = [cache EXCEPT ![s] = n]

unread == UNCHANGED <<passwd, late, upset>>
unlocked == UNCHANGED <<ucache, plock, online>>

-----------------------------------------------------------------------------
(* Looking up an id.  resolve_ucache runs first, every time. *)

\* A day has passed.
Age ==
    /\ ~aged
    /\ aged' = TRUE
    /\ UNCHANGED <<passwd, cache, number, updating, ulock, plock, online, locals,
                   late, upset>>

\* The tests on the flag and the time ...
Resolve(p) ==
    /\ pc[p] = "resolve"
    /\ Goto(p, IF aged /\ ~updating THEN "trylock" ELSE back[p])
    /\ Keep(p) /\ unread /\ unlocked

\* ... and the lock, without waiting for it.
TryLock(p) ==
    /\ pc[p] = "trylock"
    /\ IF ulock = NoProc
       THEN /\ ulock' = p /\ updating' = TRUE
            /\ pos' = [pos EXCEPT ![p] = 1]
            /\ size' = [size EXCEPT ![p] = Len(passwd)]
            /\ Goto(p, "fill")
       ELSE /\ Goto(p, back[p])
            /\ UNCHANGED <<ulock, updating, pos, size>>
    /\ UNCHANGED <<cache, number, aged, plock, online, lookup>> /\ unread

\* fillucache: one entry, from a map as long as the file was at the start.
fillucache(p) ==
    /\ pc[p] = "fill" /\ pos[p] <= size[p]
    /\ cache' = [cache EXCEPT ![pos[p]] = Id(pos[p])]
    /\ pos' = [pos EXCEPT ![p] = @ + 1]
    /\ UNCHANGED <<number, aged, updating, ulock, plock, online, pc, lookup, size>>
    /\ unread

\* The number of entries and the time; the lock goes ...
Publish(p) ==
    /\ pc[p] = "fill" /\ pos[p] > size[p]
    /\ number' = size[p]
    /\ aged' = FALSE
    /\ ulock' = NoProc
    /\ Goto(p, "close")
    /\ pos' = [pos EXCEPT ![p] = 1]
    /\ size' = [size EXCEPT ![p] = 0]
    /\ UNCHANGED <<cache, updating, plock, online, lookup>> /\ unread

\* ... and the flag after it.
ClearFlag(p) ==
    /\ pc[p] = "close"
    /\ updating' = FALSE
    /\ Goto(p, back[p])
    /\ UNCHANGED <<cache, number, aged, ulock, plock, online>> /\ Keep(p) /\ unread

Matches(n) == {s \in 1 .. number : cache[s] = n}
First(S) == CHOOSE s \in S : \A t \in S : s <= t

\* No such user: new_register goes on without ucache.lock, the others give up.
NotFound(p) ==
    IF role[p] = "register"
    THEN /\ ulock' = NoProc
         /\ Goto(p, "alloc")
         /\ num' = [num EXCEPT ![p] = 0]
         /\ UNCHANGED <<role, back, name, rec, pos, size>>
    ELSE Off(p) /\ UNCHANGED ulock

\* searchuser
searchuser(p) ==
    /\ pc[p] = "name"
    /\ IF Matches(name[p]) = {}
       THEN NotFound(p)
       ELSE /\ Goto(p, "get")
            /\ num' = [num EXCEPT ![p] = First(Matches(name[p]))]
            /\ UNCHANGED <<ulock, role, back, name, rec, pos, size>>
    /\ late' = late \ {p}
    /\ UNCHANGED <<passwd, cache, number, aged, updating, plock, online, upset>>

\* getuser reads the record and takes an empty one for no user.  A name in use
\* is refused to new_register; the others have their copy now.
getuser(p) ==
    /\ pc[p] = "get"
    /\ late' = late \ {p}
    /\ IF Id(num[p]) = NoName
       THEN NotFound(p)
       ELSE IF role[p] = "register"
       THEN ulock' = NoProc /\ Off(p)
       ELSE /\ rec' = [rec EXCEPT ![p] = passwd[num[p]]]
            /\ Goto(p, CASE role[p] = "login" -> "password"
                         [] role[p] = "newcomer" -> "enter"
                         [] role[p] = "delete" -> "check"
                         [] role[p] = "level" -> "edit")
            /\ UNCHANGED <<ulock, role, back, name, num, pos, size>>
    /\ UNCHANGED <<passwd, cache, number, aged, updating, plock, online, upset>>

Ask(p, r, n) ==
    /\ pc[p] = "off"
    /\ Goto(p, "resolve")
    /\ role' = [role EXCEPT ![p] = r]
    /\ name' = [name EXCEPT ![p] = n]
    /\ UNCHANGED <<back, num, rec, pos, size>>

-----------------------------------------------------------------------------
(* new_register and getnewuserid *)

\* A name is looked up under ucache.lock, so resolve_ucache cannot get it ...
AskName(p, n) ==
    /\ ulock = NoProc
    /\ Ask(p, "register", n)
    /\ ulock' = p
    /\ UNCHANGED <<cache, number, aged, updating, plock, online>> /\ unread

\* Variant: getnewuserid looks for a slot without the lock.
LockPasswd_unheld(p) ==
    /\ pc[p] = "alloc"
    /\ plock' = p
    /\ back' = [back EXCEPT ![p] = "slot"]
    /\ Goto(p, "resolve")
    /\ UNCHANGED <<ucache, online, role, name, num, rec, pos, size>> /\ unread

\* ... which is given up before PASSFILE is locked.
LockPasswd(p) ==
    /\ pc[p] = "alloc" /\ plock = NoProc
    /\ plock' = p
    /\ back' = [back EXCEPT ![p] = "slot"]
    /\ Goto(p, "resolve")
    /\ UNCHANGED <<ucache, online, role, name, num, rec, pos, size>> /\ unread

FreeEntries == {s \in 1 .. number : cache[s] = NoName}

\* Variant: the limit is not looked at.
searchnewuser_past(p) ==
    /\ pc[p] = "slot"
    /\ num' = [num EXCEPT ![p] =
          IF FreeEntries = {} THEN number + 1 ELSE First(FreeEntries)]
    /\ Goto(p, "put")
    /\ UNCHANGED <<ucache, plock, online, role, back, name, rec, pos, size>> /\ unread

\* searchnewuser; with every slot in use the process exits.
searchnewuser(p) ==
    /\ pc[p] = "slot"
    /\ IF FreeEntries = {} /\ number = MaxUsers
       THEN /\ plock' = NoProc /\ Off(p)
       ELSE /\ num' = [num EXCEPT ![p] =
                  IF FreeEntries = {} THEN number + 1 ELSE First(FreeEntries)]
            /\ Goto(p, "put")
            /\ UNCHANGED <<plock, role, back, name, rec, pos, size>>
    /\ UNCHANGED <<ucache, online>> /\ unread

\* The slot is taken with the id "new", in the file ...
PutNew(p) ==
    /\ pc[p] = "put"
    /\ Put(p, num[p], [Empty EXCEPT !.id = New])
    /\ Goto(p, "cachenew")
    /\ Keep(p) /\ unlocked

\* ... and in the cache; PASSFILE is unlocked.
CacheNew(p) ==
    /\ pc[p] = "cachenew"
    /\ setuserid(num[p], New)
    /\ plock' = NoProc
    /\ Goto(p, "form")
    /\ UNCHANGED <<aged, updating, ulock, online>> /\ Keep(p) /\ unread

\* Three bad passwords: the slot stays "new".
GiveUp(p) ==
    /\ pc[p] = "form"
    /\ Off(p) /\ unread /\ unlocked

\* The new account, in the file ...
PutUser(p) ==
    /\ pc[p] = "form"
    /\ Put(p, num[p], [id |-> name[p], level |-> {"post"}, count |-> 0])
    /\ Goto(p, "cacheuser")
    /\ Keep(p) /\ unlocked

\* ... in the cache, and looked up again: currentuser.
CacheUser(p) ==
    /\ pc[p] = "cacheuser"
    /\ setuserid(num[p], name[p])
    /\ Goto(p, "resolve")
    /\ role' = [role EXCEPT ![p] = "newcomer"]
    /\ back' = [back EXCEPT ![p] = "name"]
    /\ UNCHANGED <<aged, updating, ulock, plock, online, name, num, rec, pos, size>>
    /\ unread

-----------------------------------------------------------------------------
(* A session *)

\* login_query: a name ...
Login(p, n) == Ask(p, "login", n) /\ unread /\ unlocked

\* ... and a password: wrong, right, or right for a user who had said farewell,
\* whose copy of before the password goes back with the permission cleared.
BadPassword(p) ==
    /\ pc[p] = "password"
    /\ Off(p) /\ unread /\ unlocked

Password(p) ==
    /\ pc[p] = "password" /\ "suicide" \notin rec[p].level
    /\ Goto(p, "enter")
    /\ Keep(p) /\ unread /\ unlocked

Revive(p) ==
    /\ pc[p] = "password" /\ "suicide" \in rec[p].level
    /\ rec' = [rec EXCEPT ![p].level = @ \ {"suicide"}]
    /\ Put(p, num[p], rec'[p])
    /\ Goto(p, "enter")
    /\ UNCHANGED <<role, back, name, num, pos, size>> /\ unlocked

\* u_enter: the session has its slot of the user table, and user_login goes on
\* to count the login.
u_enter(p) ==
    /\ pc[p] = "enter"
    /\ online' = online \cup {p}
    /\ role' = [role EXCEPT ![p] = "login"]
    /\ Goto(p, "refresh")
    /\ upset' = upset \cup (IF \E q \in Proc : pc[q] = "confirm" /\ num[q] = num[p]
                           THEN {"entered"} ELSE {})
    /\ UNCHANGED <<passwd, ucache, plock, back, name, num, rec, pos, size, late>>

\* A post, the user's own details, the end: each writes currentuser back.
Do(p, r) ==
    /\ pc[p] = "session"
    /\ role' = [role EXCEPT ![p] = r]
    /\ Goto(p, "refresh")
    /\ UNCHANGED <<back, name, num, rec, pos, size>> /\ unread /\ unlocked

do_post(p) == Do(p, "post")
uinfo_query(p) == Do(p, "info")
u_exit(p) == Do(p, "exit")

\* Variant: the copy of the session is written as it is.
set_safe_record_none(p) ==
    /\ pc[p] = "refresh"
    /\ late' = late \ {p}
    /\ Goto(p, "write")
    /\ Keep(p) /\ unlocked /\ UNCHANGED <<passwd, upset>>

\* set_safe_record: the parts others write are read again; the id is not
\* compared.
set_safe_record(p) ==
    /\ pc[p] = "refresh"
    /\ rec' = [rec EXCEPT ![p].level = passwd[num[p]].level,
                          ![p].count = passwd[num[p]].count]
    /\ late' = late \ {p}
    /\ Goto(p, "write")
    /\ UNCHANGED <<passwd, upset, role, back, name, num, pos, size>> /\ unlocked

\* A login and a post count one.
Written(p) ==
    [rec[p] EXCEPT !.count = IF role[p] \in {"login", "post"} THEN @ + 1 ELSE @]

\* The session writes its copy.
WriteBack(p) ==
    /\ pc[p] = "write" /\ Written(p).count <= MaxCount
    /\ rec' = [rec EXCEPT ![p] = Written(p)]
    /\ Put(p, num[p], Written(p))
    /\ Goto(p, IF role[p] = "exit" THEN "leave" ELSE "session")
    /\ UNCHANGED <<role, back, name, num, pos, size>> /\ unlocked

\* Bound: a full counter is not counted up.
NotCounted(p) ==
    /\ pc[p] = "write" /\ Written(p).count > MaxCount
    /\ Goto(p, "session")
    /\ Keep(p) /\ unread /\ unlocked

\* offline: the copy of the session, with the permissions of one who goes, by
\* the user's only session; then u_exit.
offline(p) ==
    /\ pc[p] = "session" /\ "post" \in rec[p].level
    /\ \A q \in online \ {p} : num[q] # num[p]
    /\ rec' = [rec EXCEPT ![p].level = {"suicide"}]
    /\ Put(p, num[p], rec'[p])
    /\ role' = [role EXCEPT ![p] = "exit"]
    /\ Goto(p, "refresh")
    /\ UNCHANGED <<back, name, num, pos, size>> /\ unlocked

\* u_exit gives the slot of the user table up.
Leave(p) ==
    /\ pc[p] = "leave"
    /\ online' = online \ {p}
    /\ Off(p) /\ unread /\ UNCHANGED <<ucache, plock>>

-----------------------------------------------------------------------------
(* What managers write *)

\* Variant: d_user does not look for sessions.
CheckOffline_not(p) ==
    /\ pc[p] = "check"
    /\ Goto(p, "confirm")
    /\ Keep(p) /\ unread /\ unlocked

\* d_user: an account none of whose sessions is in the user table ...
CheckOffline(p) ==
    /\ pc[p] = "check"
    /\ IF \E q \in online : num[q] = num[p] THEN Off(p)
       ELSE Goto(p, "confirm") /\ Keep(p)
    /\ unread /\ unlocked

\* ... and an answer: no, or the record goes, in the file ...
Spare(p) ==
    /\ pc[p] = "confirm"
    /\ Off(p) /\ unread /\ unlocked

Delete(p) ==
    /\ pc[p] = "confirm"
    /\ Put(p, num[p], [rec[p] EXCEPT !.id = NoName, !.level = {}])
    /\ Goto(p, "cachegone")
    /\ Keep(p) /\ unlocked

\* Variant: d_user leaves the cache alone.
CacheGone_not(p) ==
    /\ pc[p] = "cachegone"
    /\ Off(p) /\ unread /\ unlocked

\* ... and in the cache.
CacheGone(p) ==
    /\ pc[p] = "cachegone"
    /\ setuserid(num[p], NoName)
    /\ Off(p) /\ unread
    /\ UNCHANGED <<aged, updating, ulock, plock, online>>

\* A manager changes permissions: the copy of before the dialogue is written,
\* unless nothing changed.
SetLevel(p, l) ==
    /\ pc[p] = "edit"
    /\ IF l # rec[p].level THEN Put(p, num[p], [rec[p] EXCEPT !.level = l])
       ELSE unread
    /\ Off(p) /\ unlocked

x_level(p) == \E l \in SUBSET Perms : SetLevel(p, l)
x_denylevel(p) == \E l \in {rec[p].level \cup {"post"}, rec[p].level \ {"post"}} :
                     SetLevel(p, l)
onekeyactivation(p) ==
    /\ pc[p] = "edit"
    /\ Put(p, num[p], [rec[p] EXCEPT !.level = @ \cup {"post"}])
    /\ Off(p) /\ unlocked

Manage(p, r, n) == Ask(p, r, n) /\ unread /\ unlocked

Step(p) ==
    \/ Resolve(p) \/ TryLock(p) \/ fillucache(p) \/ Publish(p) \/ ClearFlag(p)
    \/ searchuser(p) \/ getuser(p)
    \/ \E n \in Name : AskName(p, n) \/ Login(p, n)
    \/ LockPasswd(p) \/ searchnewuser(p) \/ PutNew(p) \/ CacheNew(p)
    \/ GiveUp(p) \/ PutUser(p) \/ CacheUser(p)
    \/ BadPassword(p) \/ Password(p) \/ Revive(p) \/ u_enter(p)
    \/ do_post(p) \/ uinfo_query(p) \/ u_exit(p)
    \/ set_safe_record(p) \/ WriteBack(p) \/ NotCounted(p) \/ offline(p) \/ Leave(p)
    \/ \E n \in Name : \E r \in {"delete", "level"} : Manage(p, r, n)
    \/ CheckOffline(p) \/ Spare(p) \/ Delete(p) \/ CacheGone(p)
    \/ x_level(p) \/ x_denylevel(p) \/ onekeyactivation(p)

Next == Age \/ \E p \in Proc : Step(p)

Spec == Init /\ [][Next]_vars

-----------------------------------------------------------------------------
(* Properties *)

TypeOK ==
    /\ passwd \in Seq(Record) /\ Len(passwd) <= MaxUsers
    /\ cache \in [Slots -> Name \cup {NoName, New}]
    /\ number \in 0 .. MaxUsers
    /\ aged \in BOOLEAN /\ updating \in BOOLEAN
    /\ {ulock, plock} \subseteq Proc \cup {NoProc}
    /\ online \subseteq Proc /\ late \subseteq Proc
    /\ pc \in [Proc -> Stages] /\ role \in [Proc -> Roles]
    /\ back \in [Proc -> {"name", "slot"}]
    /\ name \in [Proc -> Name \cup {NoName}]
    /\ num \in [Proc -> 0 .. MaxUsers]
    /\ rec \in [Proc -> Record]
    /\ pos \in [Proc -> 1 .. MaxUsers + 1] /\ size \in [Proc -> 0 .. MaxUsers]
    /\ upset \subseteq {"reload", "taken", "entered"}

\* Slots whose file entry is written and whose cache entry is about to be.
Between == {num[p] : p \in {q \in Proc : pc[q] \in {"cachenew", "cacheuser", "cachegone"}}}

\* With no rebuild at work the cache is the file: what was written to a slot is
\* in its entry, and no slot is missing.  Only an account written while the
\* cache was rebuilt (resolve_ucache does not lock PASSFILE), or a slot that
\* changed its owner while somebody else had looked it up, can part the two.
CacheTrue ==
    upset = {} /\ ~Reloading
    => /\ \A s \in Slots \ Between : cache[s] = Id(s)
       /\ number <= Len(passwd)
       /\ \A s \in number + 1 .. Len(passwd) : s \in Between

\* getnewuserid never takes a slot that holds an account, or that another
\* registration was given.
SlotWasFree ==
    [][\A p \in Proc : PutNew(p) => upset # {} \/ Id(num[p]) = NoName]_vars

\* A session that writes its copy back loses nothing: between its reading the
\* record again and its write nobody wrote (late), so the permissions a manager
\* set and the counts of the user's other sessions stay.
NothingLost ==
    [][\A p \in Proc \ late : WriteBack(p) =>
          LET s == num[p] IN
          /\ passwd'[s].level = passwd[s].level
          /\ passwd'[s].count - passwd[s].count
               = IF role[p] \in {"login", "post"} THEN 1 ELSE 0]_vars

\* A session works on its own account: the slot it writes to still has the id
\* it logged in with.  Only who enters while d_user, having found no session,
\* waits for its answer can lose the account.
OwnAccount ==
    upset = {}
    => \A p \in online : Id(num[p]) = rec[p].id
=============================================================================
