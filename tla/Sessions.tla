------------------------------- MODULE Sessions -------------------------------
(***************************************************************************)
(* Login sessions.  bbsd forks one process per connection; the processes   *)
(* meet in the shared user table utmpshm (main.c, ucache.c, stat.c).       *)
(*                                                                         *)
(* A slot is claimed and given up under the lock of the ULIST file.  The   *)
(* count of a user's own sessions, the refresh of a session's own slot and *)
(* the marks the user list makes on other people's slots take no lock.     *)
(* A process name stands for its pid: a later process may get it again.    *)
(***************************************************************************)
EXTENDS Naturals, FiniteSets

CONSTANTS
    Proc, NoProc,   \* process ids, and the pid 0 of an empty slot
    User, NoUser,   \* accounts, and the uid of a slot never used
    Guest,          \* the account many people share
    Multilog,       \* accounts with PERM_MULTILOG: never counted
    Sysops,         \* accounts with PERM_SYSOP: may kick anybody
    Limit,          \* MULTI_LOGINS, one more with PERM_OBOARDS
    MaxGuest,       \* MAXGUEST
    Size,           \* USHM_SIZE
    MaxTries        \* the retries of u_enter on a full table

ASSUME ProcAssumption == NoProc \notin Proc
ASSUME UserAssumption == NoUser \notin User
ASSUME LimitAssumption == Limit \in [User -> Nat] /\ MaxGuest \in Nat
ASSUME SizeAssumption == Size \in Nat \ {0} /\ MaxTries \in Nat
ASSUME PermAssumption == Multilog \subseteq User /\ Sysops \subseteq User

Slots == 1 .. Size
Entry == [active : BOOLEAN, pid : Proc \cup {NoProc}, uid : User \cup {NoUser}]

VARIABLES
    utmp,       \* utmpshm->uinfo
    cool,       \* slots whose deactive_time is more than 60 seconds ago
    holder,     \* who has the lock of ULIST
    pc, user,   \* each process: where it is, for which account
    slot,       \* utmpent (0: none)
    scan,       \* its walk over the table: the next slot to look at
    count,      \* and the own sessions it has met
    tries,      \* full tables u_enter has met
    target,     \* the slot of the user-list line it is kicking (0: none)
    hup,        \* processes with a SIGHUP on its way
    \* What the properties remember.
    hasty       \* a slot was marked free while its owner was still running

session == <<pc, user, slot, scan, count, tries, target>>
vars == <<utmp, cool, holder, session, hup, hasty>>

Stages == {"none", "check", "enter", "find", "claim", "entered", "recheck",
           "online", "kicking", "leaving", "left"}

\* Signals reach abort_bbs's u_exit only once "started" is set.
Started == {"recheck", "online", "kicking"}
Registered == {"entered", "leaving", "left"} \cup Started

Alive(q) == q \in Proc /\ pc[q] # "none"
Vacant(s) == ~utmp[s].active \/ utmp[s].pid = NoProc
Mine(p) == [active |-> TRUE, pid |-> p, uid |-> user[p]]
OwnerRuns(s) == \E q \in Proc : slot[q] = s /\ pc[q] \in Registered

Init ==
    /\ utmp = [s \in Slots |-> [active |-> FALSE, pid |-> NoProc, uid |-> NoUser]]
    /\ cool = Slots
    /\ holder = NoProc
    /\ pc = [p \in Proc |-> "none"]
    /\ user = [p \in Proc |-> NoUser]
    /\ slot = [p \in Proc |-> 0]
    /\ scan = [p \in Proc |-> 1]
    /\ count = [p \in Proc |-> 0]
    /\ tries = [p \in Proc |-> 0]
    /\ target = [p \in Proc |-> 0]
    /\ hup = {}
    /\ hasty = FALSE

Goto(p, stage) == pc' = [pc EXCEPT ![p] = stage]

StartScan(p) ==
    /\ scan' = [scan EXCEPT ![p] = 1]
    /\ count' = [count EXCEPT ![p] = 0]

\* Variant: the lock file stays open.
Unlock_leaking(p) == holder' = holder

Unlock(p) == holder' = IF holder = p THEN NoProc ELSE holder

\* The process is gone: its lock, its locals and its pending signal with it.
Exit(p) ==
    /\ Goto(p, "none")
    /\ user' = [user EXCEPT ![p] = NoUser]
    /\ slot' = [slot EXCEPT ![p] = 0]
    /\ StartScan(p)
    /\ tries' = [tries EXCEPT ![p] = 0]
    /\ target' = [target EXCEPT ![p] = 0]
    /\ hup' = hup \ {p}
    /\ Unlock(p)

\* An end that leaves the slot as it is.
Vanish(p) ==
    /\ Exit(p)
    /\ UNCHANGED <<utmp, cool, hasty>>

-----------------------------------------------------------------------------
(* Logging in. *)

\* bbsd forks; name and password are right.
Login(p, u) ==
    /\ pc[p] = "none"
    /\ Goto(p, "check")
    /\ user' = [user EXCEPT ![p] = u]
    /\ UNCHANGED <<utmp, cool, holder, slot, scan, count, tries, target, hup, hasty>>

\* Variant: the walk goes one slot too far.
count_self_past(p) ==
    /\ pc[p] \in {"check", "recheck"} /\ scan[p] <= Size
    /\ scan' = [scan EXCEPT ![p] = @ + 1]
    /\ count' = [count EXCEPT ![p] =
          IF ~Vacant(scan[p]) /\ utmp[scan[p]].uid = user[p] THEN @ + 1 ELSE @]
    /\ UNCHANGED <<utmp, cool, holder, pc, user, slot, tries, target, hup, hasty>>

\* count_self: apply_ulist stops one short of the last slot.
count_self(p) ==
    /\ pc[p] \in {"check", "recheck"} /\ scan[p] < Size
    /\ scan' = [scan EXCEPT ![p] = @ + 1]
    /\ count' = [count EXCEPT ![p] =
          IF ~Vacant(scan[p]) /\ utmp[scan[p]].uid = user[p] THEN @ + 1 ELSE @]
    /\ UNCHANGED <<utmp, cool, holder, pc, user, slot, tries, target, hup, hasty>>

Counted(p) == scan[p] = Size

MayEnter(p) ==
    \/ user[p] \in Multilog
    \/ user[p] = Guest /\ count[p] <= MaxGuest
    \/ user[p] \notin Multilog \cup {Guest} /\ count[p] < Limit[user[p]]

\* heavyload() refuses a second session whatever the limit.
MustKick(p) ==
    /\ user[p] \notin Multilog \cup {Guest}
    /\ count[p] > 0 \/ count[p] >= Limit[user[p]]

\* multi_user_check lets the login through.
Admit(p) ==
    /\ pc[p] = "check" /\ Counted(p) /\ MayEnter(p)
    /\ Goto(p, "enter")
    /\ StartScan(p)
    /\ UNCHANGED <<utmp, cool, holder, user, slot, tries, target, hup, hasty>>

\* Too many: the process ends (a guest has no choice, others answer N).
Refuse(p) ==
    /\ pc[p] = "check" /\ Counted(p)
    /\ (user[p] = Guest /\ ~MayEnter(p)) \/ MustKick(p)
    /\ Vanish(p)

\* Variant: cmpuids2 compares only the pids.
KickOther_any(p) ==
    LET other == {s \in Slots : utmp[s].active /\ utmp[s].pid # p}
        first == CHOOSE s \in other : \A t \in other : s <= t
    IN /\ pc[p] = "check" /\ Counted(p) /\ MustKick(p)
       /\ Goto(p, "enter")
       /\ StartScan(p)
       /\ hup' = IF other # {} /\ Alive(utmp[first].pid) THEN hup \cup {utmp[first].pid}
                 ELSE hup
       /\ UNCHANGED <<utmp, cool, holder, user, slot, tries, target, hasty>>

\* Too many, and the answer is Y: SIGHUP to the first other slot of this user,
\* in use or not; nobody waits to see it go.
KickOther(p) ==
    LET other == {s \in Slots : utmp[s].uid = user[p] /\ utmp[s].pid # p}
        first == CHOOSE s \in other : \A t \in other : s <= t
    IN /\ pc[p] = "check" /\ Counted(p) /\ MustKick(p)
       /\ Goto(p, "enter")
       /\ StartScan(p)
       /\ hup' = IF other # {} /\ utmp[first].active /\ Alive(utmp[first].pid)
                 THEN hup \cup {utmp[first].pid} ELSE hup
       /\ UNCHANGED <<utmp, cool, holder, user, slot, tries, target, hasty>>

\* Variant: getnewutmpent does without the lock.
Lock_unheld(p) ==
    /\ pc[p] = "enter"
    /\ holder' = p
    /\ Goto(p, "find")
    /\ UNCHANGED <<utmp, cool, user, slot, scan, count, tries, target, hup, hasty>>

\* getnewutmpent: the lock of ULIST ...
Lock(p) ==
    /\ pc[p] = "enter" /\ holder = NoProc
    /\ holder' = p
    /\ Goto(p, "find")
    /\ UNCHANGED <<utmp, cool, user, slot, scan, count, tries, target, hup, hasty>>

FreeIn(c) == {s \in c : Vacant(s)}

\* ... the first slot free for a minute (time is only looked at here: any of
\* the slots given up since may have come to be a minute old) ...
Find(p) ==
    \E c \in SUBSET Slots : \E s \in FreeIn(c) :
       /\ pc[p] = "find" /\ cool \subseteq c
       /\ \A t \in FreeIn(c) : s <= t
       /\ cool' = c
       /\ target' = [target EXCEPT ![p] = s]
       /\ Goto(p, "claim")
       /\ UNCHANGED <<utmp, holder, user, slot, scan, count, tries, hup, hasty>>

\* Variant: the retries are not counted.
Full_retrying(p) ==
    /\ pc[p] = "find" /\ FreeIn(cool) = {}
    /\ Goto(p, "enter")
    /\ Unlock(p)
    /\ UNCHANGED <<utmp, cool, user, slot, scan, count, tries, target, hup, hasty>>

\* ... or none: u_enter tries again, and gives up in the end.
Full(p) ==
    /\ pc[p] = "find" /\ FreeIn(cool) = {} /\ tries[p] < MaxTries
    /\ tries' = [tries EXCEPT ![p] = @ + 1]
    /\ Goto(p, "enter")
    /\ Unlock(p)
    /\ UNCHANGED <<utmp, cool, user, slot, scan, count, target, hup, hasty>>

GiveUp(p) ==
    /\ pc[p] = "find" /\ FreeIn(cool) = {} /\ tries[p] >= MaxTries
    /\ Vanish(p)

\* ... the copy of uinfo into it, once a minute the sweep of dead entries,
\* and the close that unlocks.
Swept(t) ==
    [s \in Slots |-> IF t[s].active /\ ~Alive(t[s].pid)
                     THEN [t[s] EXCEPT !.active = FALSE, !.pid = NoProc] ELSE t[s]]

Claim(p) ==
    LET t == [utmp EXCEPT ![target[p]] = Mine(p)]
        dead == {s \in Slots : Swept(t)[s] # t[s]}
    IN /\ pc[p] = "claim"
       /\ \/ utmp' = t /\ cool' = cool \cup {target[p]}
          \/ utmp' = Swept(t) /\ cool' = (cool \cup {target[p]}) \ dead
       /\ slot' = [slot EXCEPT ![p] = target[p]]
       /\ target' = [target EXCEPT ![p] = 0]
       /\ Goto(p, "entered")
       /\ Unlock(p)
       /\ UNCHANGED <<user, scan, count, tries, hup, hasty>>

\* started = 1; user_login counts once more.
Start(p) ==
    /\ pc[p] = "entered"
    /\ Goto(p, "recheck")
    /\ UNCHANGED <<utmp, cool, holder, user, slot, scan, count, tries, target, hup, hasty>>

\* Variant: one session more is let through the second count.
TooMany_late(p) ==
    user[p] \notin Multilog \cup {Guest} /\ count[p] > Limit[user[p]] + 1

TooMany(p) ==
    user[p] \notin Multilog \cup {Guest} /\ count[p] > Limit[user[p]]

Stay(p) ==
    /\ pc[p] = "recheck" /\ Counted(p) /\ ~TooMany(p)
    /\ Goto(p, "online")
    /\ StartScan(p)
    /\ UNCHANGED <<utmp, cool, holder, user, slot, tries, target, hup, hasty>>

Slipped(p) ==
    /\ pc[p] = "recheck" /\ Counted(p) /\ TooMany(p)
    /\ Goto(p, "leaving")
    /\ StartScan(p)
    /\ UNCHANGED <<utmp, cool, holder, user, slot, tries, target, hup, hasty>>

-----------------------------------------------------------------------------
(* Being online, and leaving. *)

\* Every key press and change of mode copies uinfo into the own slot.
update_utmp(p) ==
    /\ pc[p] = "online"
    /\ utmp' = [utmp EXCEPT ![slot[p]] = Mine(p)]
    /\ cool' = cool \cup {slot[p]}
    /\ UNCHANGED <<holder, session, hup, hasty>>

\* The user list: SIGHUP to the process of a line, which may be one's own ...
Kick(p, s) ==
    /\ pc[p] = "online" /\ target[p] = 0
    /\ user[p] # Guest /\ utmp[s].pid # p
    /\ utmp[s].uid = user[p] \/ (user[p] \in Sysops /\ utmp[s].uid # NoUser)
    /\ hup' = IF utmp[s].active /\ Alive(utmp[s].pid) THEN hup \cup {utmp[s].pid} ELSE hup
    /\ target' = [target EXCEPT ![p] = s]
    /\ Goto(p, "kicking")
    /\ UNCHANGED <<utmp, cool, holder, user, slot, scan, count, tries, hasty>>

\* ... and a second later the line's slot is marked, whoever is in it.
Mark(p) ==
    /\ pc[p] = "kicking"
    /\ utmp' = [utmp EXCEPT ![target[p]].active = FALSE]
    /\ cool' = cool \ {target[p]}
    /\ hasty' = (hasty \/ OwnerRuns(target[p]))
    /\ target' = [target EXCEPT ![p] = 0]
    /\ Goto(p, "online")
    /\ UNCHANGED <<holder, user, slot, scan, count, tries, hup>>

\* Goodbye, an idle or lost line, a kick of oneself: abort_bbs or u_exit.
Leave(p) ==
    /\ pc[p] \in {"online", "kicking"}
    /\ Goto(p, "leaving")
    /\ UNCHANGED <<utmp, cool, holder, user, slot, scan, count, tries, target, hup, hasty>>

\* u_exit: the lock of ULIST, then the slot, the unlock and the exit.
LockToLeave(p) ==
    /\ pc[p] = "leaving" /\ holder = NoProc
    /\ holder' = p
    /\ Goto(p, "left")
    /\ UNCHANGED <<utmp, cool, user, slot, scan, count, tries, target, hup, hasty>>

u_exit(p) ==
    /\ pc[p] = "left"
    /\ utmp' = [utmp EXCEPT ![slot[p]] =
                  [active |-> FALSE, pid |-> NoProc, uid |-> user[p]]]
    /\ cool' = cool \ {slot[p]}
    /\ Exit(p)
    /\ UNCHANGED hasty

\* SIGHUP arrives: abort_bbs leaves properly only when the session has started;
\* u_exit itself has put the default action back.
Hangup(p) ==
    /\ p \in hup
    /\ IF pc[p] \in Started
       THEN /\ Goto(p, "leaving")
            /\ hup' = hup \ {p}
            /\ StartScan(p)
            /\ UNCHANGED <<utmp, cool, holder, user, slot, tries, target, hasty>>
       ELSE Vanish(p)

\* SIGKILL, a fault, or SIGHUP from the line before the session has started.
Crash(p) == pc[p] # "none" /\ Vanish(p)

\* What a process does of its own accord once it has been forked.
Run(p) ==
    \/ count_self(p) \/ Admit(p) \/ Refuse(p) \/ KickOther(p)
    \/ Find(p) \/ Full(p) \/ GiveUp(p) \/ Claim(p) \/ Start(p)
    \/ Stay(p) \/ Slipped(p) \/ Mark(p) \/ u_exit(p)

Next ==
    \E p \in Proc :
       \/ \E u \in User : Login(p, u)
       \/ Run(p) \/ Hangup(p) \/ Lock(p) \/ LockToLeave(p)
       \/ update_utmp(p) \/ Leave(p) \/ Crash(p)
       \/ \E s \in Slots : Kick(p, s)

Spec == Init /\ [][Next]_vars

\* A process keeps running, signals get delivered and the kernel serves the
\* waiters for ULIST in turn; that anybody logs in, presses a key or leaves is
\* not assumed.
Fairness ==
    \A p \in Proc : /\ WF_vars(Run(p)) /\ WF_vars(Hangup(p))
                    /\ SF_vars(Lock(p) \/ LockToLeave(p))

FairSpec == Spec /\ Fairness

-----------------------------------------------------------------------------
(* Properties. *)

TypeOK ==
    /\ utmp \in [Slots -> Entry]
    /\ cool \in SUBSET Slots
    /\ holder \in Proc \cup {NoProc}
    /\ pc \in [Proc -> Stages]
    /\ user \in [Proc -> User \cup {NoUser}]
    /\ slot \in [Proc -> 0 .. Size]
    /\ scan \in [Proc -> Slots]
    /\ count \in [Proc -> Nat]
    /\ tries \in [Proc -> 0 .. MaxTries]
    /\ target \in [Proc -> 0 .. Size]
    /\ hup \in SUBSET Proc
    /\ hasty \in BOOLEAN

\* A running session's slot shows that session and no other, whatever sweeps,
\* kicks, crashes and reused pids there have been, unless the user list marked
\* a slot before its owner had gone.
OwnSlot ==
    ~hasty =>
       \A p \in Proc : pc[p] \in {"entered"} \cup Started => utmp[slot[p]] = Mine(p)

\* However logins race between multi_user_check and u_enter, the second count
\* keeps an account's sessions within its limit (main.c:850), as far as that
\* count can see: it never looks at the last slot.
Online(u) == {p \in Proc : pc[p] \in {"online", "kicking"} /\ user[p] = u}

LoginLimit ==
    ~hasty => \A u \in User \ (Multilog \cup {Guest}) :
                 Cardinality({p \in Online(u) : slot[p] # Size}) <= Limit[u]

\* What the login screen says (main.c:408): at most Limit sessions of one account,
\* those not counted that a SIGHUP is about to end.
LoginLimitEverywhere ==
    ~hasty => \A u \in User \ (Multilog \cup {Guest}) : Cardinality(Online(u) \ hup) <= Limit[u]

\* An entry of a process that does not use it: it ended without u_exit.
Ghosts == {s \in Slots : utmp[s].active /\ ~\E p \in Proc : slot[p] = s /\ utmp[s].pid = p}

\* The SIGHUP of a login that answers Y goes to a session of the same account,
\* unless the entry it finds is a ghost whose pid belongs to somebody else now.
KicksOwnAccount ==
    [][~hasty =>
         \A p \in Proc :
            pc[p] = "check" /\ pc'[p] = "enter"
            => \A q \in hup' \ hup : user[q] = user[p] \/ \E s \in Ghosts : utmp[s].pid = q]_vars

\* A login ends: the session is online, or the process is gone.
LoginEnds ==
    \A p \in Proc :
       pc[p] \in {"check", "enter", "find", "claim", "entered", "recheck"}
          ~> pc[p] \in {"online", "none", "leaving"}

\* A kicked session goes, unless the signal killed its process outright.
KickedGoes == \A p \in Proc : p \in hup ~> pc[p] = "none"
=============================================================================
