-------------------------------- MODULE Boards --------------------------------
(***************************************************************************)
(* The board list (bcache.c, maintain.c, bbs.c).                           *)
(*                                                                         *)
(* .BOARDS has one record per board; a deleted board's record stays, blank,*)
(* and a new one is appended, so a board keeps its number.  All processes  *)
(* share a copy in memory, which resolve_boards rebuilds when the file is  *)
(* newer, under a flag and a lock file it does not wait for.  The number   *)
(* of readers of each board is counted beside the copy, by board number.   *)
(* A process rebuilds before it looks a board up: here as a step of its    *)
(* own, at any of its resting points.                                      *)
(***************************************************************************)
EXTENDS Naturals, FiniteSets

CONSTANTS
    Managers, Readers,  \* processes, by what their users do
    NoProc,
    Name, Blank,        \* board names, and the name of a deleted record
    MaxBoards,          \* MAXBOARD
    InitialBoards,      \* the boards there are at first, by number
    MaxChanges          \* records written in a behaviour

ASSUME ProcAssumption == NoProc \notin Managers \cup Readers
ASSUME RoleAssumption == Managers \cap Readers = {}
ASSUME ReadersAssumption == IsFiniteSet(Readers)
ASSUME NameAssumption == Blank \notin Name
ASSUME BoundAssumption == MaxBoards \in Nat /\ MaxChanges \in Nat
ASSUME InitialAssumption == \E n \in 0 .. MaxBoards :
    InitialBoards \in [1 .. n -> Name]

Proc == Managers \cup Readers
Slots == 1 .. MaxBoards
Record == Name \cup {Blank}

VARIABLES
    size, file,         \* .BOARDS
    number, bcache,     \* brdshm->number, ->bcache
    updating,           \* brdshm->updating
    uptime,             \* brdshm->uptime: 0, within 300 seconds, or older
    newer,              \* uptime > mtime of .BOARDS
    holder,             \* of bcache.lock
    rebuild,            \* each process: where in resolve_boards it is
    at, upto,           \* the record it is at, the size it found
    pc, name, pos,      \* its command, the board it is about, its number
    inboard,            \* brdshm->inboard
    is_inboard,         \* a reader's flag that it has been counted
    nested,             \* readers in a group inside a board
    changes,
    \* What the properties remember.
    missed,             \* a record was written while the copy was rebuilt
    stuck,              \* a process died while it rebuilt
    lost                \* a reader could not be counted out

copy == <<number, bcache, updating, uptime, newer, holder, rebuild, at, upto,
          missed, stuck>>
boards == <<size, file, changes>>
reading == <<inboard, is_inboard, nested, lost>>
vars == <<boards, copy, pc, name, pos, reading>>

\* The copy is rebuilt between two steps of a command.
Rest == {"out", "pick", "confirm", "prompt", "check", "in", "group"}
Stages == Rest \cup {"counted", "moving", "gone"}
Resolving == {"no", "look", "lock", "fill", "unflag"}

TypeOK ==
    /\ size \in 0 .. MaxBoards /\ file \in [Slots -> Record]
    /\ number \in 0 .. MaxBoards /\ bcache \in [Slots -> Record]
    /\ updating \in BOOLEAN /\ uptime \in {"zero", "recent", "old"}
    /\ newer \in BOOLEAN /\ holder \in Proc \cup {NoProc}
    /\ rebuild \in [Proc -> Resolving]
    /\ at \in [Proc -> 1 .. MaxBoards + 1] /\ upto \in [Proc -> 0 .. MaxBoards]
    /\ pc \in [Proc -> Stages] /\ name \in [Proc -> Record]
    /\ pos \in [Proc -> 0 .. MaxBoards]
    /\ inboard \in [Slots -> Nat]
    /\ is_inboard \in [Readers -> BOOLEAN]
    /\ nested \in SUBSET Readers /\ changes \in 0 .. MaxChanges
    /\ missed \in BOOLEAN /\ stuck \in BOOLEAN /\ lost \in BOOLEAN

Init ==
    /\ size = Cardinality(DOMAIN InitialBoards)
    /\ file = [i \in Slots |-> IF i \in DOMAIN InitialBoards
                               THEN InitialBoards[i] ELSE Blank]
    /\ number = size /\ bcache = file
    /\ updating = FALSE /\ uptime = "recent" /\ newer = TRUE
    /\ holder = NoProc
    /\ rebuild = [p \in Proc |-> "no"]
    /\ at = [p \in Proc |-> 1] /\ upto = [p \in Proc |-> 0]
    /\ pc = [p \in Proc |-> "out"]
    /\ name = [p \in Proc |-> Blank] /\ pos = [p \in Proc |-> 0]
    /\ inboard = [i \in Slots |-> 0]
    /\ is_inboard = [p \in Readers |-> FALSE]
    /\ nested = {} /\ changes = 0
    /\ missed = FALSE /\ stuck = FALSE /\ lost = FALSE

-----------------------------------------------------------------------------
Goto(p, l) == pc' = [pc EXCEPT ![p] = l]
Rebuild(p, l) == rebuild' = [rebuild EXCEPT ![p] = l]
command == <<pc, name, pos>>

\* Variables of a rebuild and of a command, dead once it is over.
Unused(p) == at' = [at EXCEPT ![p] = 1] /\ upto' = [upto EXCEPT ![p] = 0]
Over(p, l) ==
    /\ Goto(p, l)
    /\ name' = [name EXCEPT ![p] = Blank] /\ pos' = [pos EXCEPT ![p] = 0]

\* getbnum: the first board of that name in the copy, 0 if there is none.
Numbers(b) == {i \in 1 .. number : bcache[i] = b}
getbnum(b) == IF Numbers(b) = {} THEN 0
              ELSE CHOOSE i \in Numbers(b) : \A j \in Numbers(b) : i <= j

(* resolve_boards *)
Due == ~updating /\ uptime # "recent" /\ ~newer

Resolve(p) ==
    /\ pc[p] \in Rest /\ rebuild[p] = "no" /\ Due
    /\ Rebuild(p, "lock")
    /\ UNCHANGED <<boards, number, bcache, updating, uptime, newer, holder, at,
                   upto, missed, stuck, command, reading>>

\* The same in refresh_bcache, past uptime = 0.
Look(p) ==
    /\ rebuild[p] = "look" /\ Rebuild(p, IF Due THEN "lock" ELSE "no")
    /\ UNCHANGED <<boards, number, bcache, updating, uptime, newer, holder, at,
                   upto, missed, stuck, command, reading>>

\* filelock does not wait; the file is mapped at the size it has then.
Lock(p) ==
    /\ rebuild[p] = "lock" /\ holder = NoProc
    /\ holder' = p /\ updating' = TRUE /\ Rebuild(p, "fill")
    /\ at' = [at EXCEPT ![p] = 1] /\ upto' = [upto EXCEPT ![p] = size]
    /\ missed' = FALSE
    /\ UNCHANGED <<boards, number, bcache, uptime, newer, stuck, command, reading>>

NoLock(p) ==
    /\ rebuild[p] = "lock" /\ holder # NoProc
    /\ Rebuild(p, "no")
    /\ UNCHANGED <<boards, number, bcache, updating, uptime, newer, holder, at,
                   upto, missed, stuck, command, reading>>

fillbcache(p) ==
    /\ rebuild[p] = "fill" /\ at[p] <= upto[p]
    /\ bcache' = [bcache EXCEPT ![at[p]] = file[at[p]]]
    /\ at' = [at EXCEPT ![p] = @ + 1]
    /\ UNCHANGED <<boards, number, updating, uptime, newer, holder, rebuild, upto,
                   missed, stuck, command, reading>>

\* Variant: one board too many.
release_one_more(p) ==
    /\ rebuild[p] = "fill" /\ at[p] > upto[p]
    /\ number' = at[p]
    /\ uptime' = "recent" /\ newer' = TRUE
    /\ holder' = NoProc /\ Rebuild(p, "unflag")
    /\ UNCHANGED <<boards, bcache, updating, at, upto, missed, stuck,
                   command, reading>>

\* A record written within the second of uptime = time(NULL) leaves the file
\* no older than the copy.
Release(p) ==
    /\ rebuild[p] = "fill" /\ at[p] > upto[p]
    /\ number' = at[p] - 1
    /\ uptime' = "recent" /\ newer' \in IF missed THEN BOOLEAN ELSE {TRUE}
    /\ holder' = NoProc /\ Rebuild(p, "unflag")
    /\ UNCHANGED <<boards, bcache, updating, at, upto, missed, stuck, command, reading>>

\* Variant: the flag is left set.
unflag_forgotten(p) ==
    /\ rebuild[p] = "unflag" /\ Rebuild(p, "no") /\ Unused(p)
    /\ UNCHANGED <<boards, number, bcache, updating, uptime, newer, holder, missed,
                   stuck, command, reading>>

Unflag(p) ==
    /\ rebuild[p] = "unflag"
    /\ updating' = FALSE /\ Rebuild(p, "no") /\ Unused(p)
    /\ UNCHANGED <<boards, number, bcache, uptime, newer, holder, missed, stuck,
                   command, reading>>

Age ==
    /\ uptime = "recent" /\ uptime' = "old"
    /\ UNCHANGED <<boards, number, bcache, updating, newer, holder, rebuild, at,
                   upto, missed, stuck, command, reading>>

\* refresh_bcache, and a record written just before it.
Refresh(p) == uptime' = "zero" /\ newer' = FALSE /\ Rebuild(p, "look")
Written == missed' = (missed \/ holder # NoProc)

-----------------------------------------------------------------------------
(* The managers: d_board, m_newbrd, m_editbrd with m_editboard. *)
Free(p, l) == pc[p] = l /\ rebuild[p] = "no"
Existing == {file[i] : i \in 1 .. size}
copyrest == <<number, bcache, updating, holder, at, upto, stuck>>

d_board(p) ==
    /\ Free(p, "out") /\ Refresh(p) /\ Goto(p, "pick")
    /\ UNCHANGED <<boards, copyrest, missed, name, pos, reading>>

\* The number is the copy's, the name must be the file's.
PickDeleted(p, b) == LET i == getbnum(b) IN
    /\ Free(p, "pick") /\ i # 0 /\ i <= size /\ file[i] = b
    /\ pos' = [pos EXCEPT ![p] = i] /\ name' = [name EXCEPT ![p] = b]
    /\ Goto(p, "confirm")
    /\ UNCHANGED <<boards, copy, reading>>

Delete(p) ==
    /\ Free(p, "confirm") /\ changes < MaxChanges
    /\ file' = [file EXCEPT ![pos[p]] = Blank] /\ changes' = changes + 1
    /\ Refresh(p) /\ Written /\ Over(p, "out")
    /\ UNCHANGED <<size, copyrest, reading>>

GiveUp(p) ==
    /\ \E l \in {"pick", "confirm", "prompt"} : Free(p, l)
    /\ Over(p, "out")
    /\ UNCHANGED <<boards, copy, reading>>

m_newbrd(p, b) ==
    /\ Free(p, "out") /\ b \notin Existing
    /\ name' = [name EXCEPT ![p] = b] /\ pos' = [pos EXCEPT ![p] = 0]
    /\ Goto(p, "prompt")
    /\ UNCHANGED <<boards, copy, reading>>

\* Its own name, or one that no record has.
m_editbrd(p, i, b) ==
    /\ Free(p, "out") /\ file[i] # Blank
    /\ b = file[i] \/ b \notin Existing
    /\ name' = [name EXCEPT ![p] = b] /\ pos' = [pos EXCEPT ![p] = i]
    /\ Goto(p, "prompt")
    /\ UNCHANGED <<boards, copy, reading>>

Save(p) ==
    /\ Free(p, "prompt") /\ pos[p] # 0 /\ changes < MaxChanges
    /\ file' = [file EXCEPT ![pos[p]] = name[p]] /\ changes' = changes + 1
    /\ Refresh(p) /\ Written /\ Over(p, "check")
    /\ UNCHANGED <<size, copyrest, reading>>

Create(p) ==
    /\ Free(p, "prompt") /\ pos[p] = 0
    /\ changes < MaxChanges /\ size < MaxBoards
    /\ size' = size + 1 /\ file' = [file EXCEPT ![size + 1] = name[p]]
    /\ changes' = changes + 1
    /\ Refresh(p) /\ Written /\ Over(p, "check")
    /\ UNCHANGED <<copyrest, reading>>

\* The members' list is asked for; then the refresh that is to be forced.
Forced(p) ==
    /\ Free(p, "check") /\ Refresh(p) /\ Goto(p, "out")
    /\ UNCHANGED <<boards, copyrest, missed, name, pos, reading>>

-----------------------------------------------------------------------------
(* The readers: Read, do_select, u_exit. *)
Inc(i) == inboard' = IF i = 0 THEN inboard ELSE [inboard EXCEPT ![i] = @ + 1]
Dec(i) == inboard' = IF i = 0 THEN inboard
                     ELSE [inboard EXCEPT ![i] = IF @ > 0 THEN @ - 1 ELSE 0]

\* p is counted out of the board it is in, under the number of its name now.
CountOut(p) ==
    /\ Dec(getbnum(name[p]))
    /\ lost' = (lost \/ (pos[p] # 0 /\ getbnum(name[p]) # pos[p]))

CountIn(p, b) ==
    /\ Inc(getbnum(b)) /\ pos' = [pos EXCEPT ![p] = getbnum(b)]
    /\ name' = [name EXCEPT ![p] = b]

Read(p, b) ==
    /\ Free(p, "out") \/ Free(p, "group")
    /\ getbnum(b) # 0
    /\ CountIn(p, b) /\ Goto(p, "counted")
    /\ UNCHANGED <<boards, copy, is_inboard, nested, lost>>

Flag(p) ==
    /\ pc[p] = "counted"
    /\ is_inboard' = [is_inboard EXCEPT ![p] = TRUE] /\ Goto(p, "in")
    /\ UNCHANGED <<boards, copy, name, pos, inboard, nested, lost>>

\* Variant: a board selected from a board is only counted in.
select_in_only(p, b) ==
    /\ Free(p, "in") /\ getbnum(b) # 0
    /\ Goto(p, "moving")
    /\ name' = [name EXCEPT ![p] = b] /\ pos' = [pos EXCEPT ![p] = 0]
    /\ UNCHANGED <<boards, copy, reading>>

\* do_select: out of this board, into that one.
Select(p, b) ==
    /\ Free(p, "in") /\ getbnum(b) # 0
    /\ CountOut(p) /\ Goto(p, "moving")
    /\ name' = [name EXCEPT ![p] = b] /\ pos' = [pos EXCEPT ![p] = 0]
    /\ UNCHANGED <<boards, copy, is_inboard, nested>>

Selected(p) ==
    /\ pc[p] = "moving" /\ CountIn(p, name[p]) /\ Goto(p, "in")
    /\ UNCHANGED <<boards, copy, is_inboard, nested, lost>>

\* do_select of a group: its boards are read inside this one.
SelectGroup(p) ==
    /\ Free(p, "in") /\ p \notin nested
    /\ CountOut(p) /\ nested' = nested \cup {p} /\ Goto(p, "group")
    /\ pos' = [pos EXCEPT ![p] = 0]
    /\ UNCHANGED <<boards, copy, name, is_inboard>>

\* The end of a Read; that of the outer one follows the group's.
Leave(p) ==
    /\ Free(p, "in")
    /\ CountOut(p) /\ is_inboard' = [is_inboard EXCEPT ![p] = FALSE]
    /\ IF p \in nested
       THEN /\ Goto(p, "group") /\ pos' = [pos EXCEPT ![p] = 0]
            /\ UNCHANGED name
       ELSE Over(p, "out")
    /\ UNCHANGED <<boards, copy, nested>>

LeaveGroup(p) ==
    /\ Free(p, "group")
    /\ CountOut(p) /\ is_inboard' = [is_inboard EXCEPT ![p] = FALSE]
    /\ nested' = nested \ {p} /\ Over(p, "out")
    /\ UNCHANGED <<boards, copy>>

\* SIGHUP ends a process anywhere; the lock goes with it, the flag stays.
Died(p) ==
    /\ holder' = IF holder = p THEN NoProc ELSE holder
    /\ stuck' = (stuck \/ rebuild[p] \in {"fill", "unflag"})
    /\ Rebuild(p, "no") /\ Unused(p) /\ Over(p, "gone")
    /\ UNCHANGED <<boards, number, bcache, updating, uptime, newer, missed>>

HangUp(p) ==
    /\ pc[p] # "gone" /\ Died(p)
    /\ IF is_inboard[p]
       THEN CountOut(p)
       ELSE lost' = (lost \/ pc[p] = "counted") /\ UNCHANGED inboard
    /\ is_inboard' = [is_inboard EXCEPT ![p] = FALSE] /\ nested' = nested \ {p}

ManagerDies(p) == pc[p] # "gone" /\ Died(p) /\ UNCHANGED reading

-----------------------------------------------------------------------------
Rebuilding(p) ==
    \/ Look(p) \/ Lock(p) \/ NoLock(p) \/ fillbcache(p) \/ Release(p) \/ Unflag(p)

Manager(p) ==
    \/ d_board(p) \/ \E b \in Name : PickDeleted(p, b) \/ m_newbrd(p, b)
    \/ \E i \in 1 .. size, b \in Name : m_editbrd(p, i, b)
    \/ Delete(p) \/ GiveUp(p) \/ Save(p) \/ Create(p) \/ Forced(p) \/ ManagerDies(p)

Reader(p) ==
    \/ \E b \in Name : Read(p, b) \/ Select(p, b)
    \/ Flag(p) \/ Selected(p) \/ SelectGroup(p) \/ Leave(p) \/ LeaveGroup(p)
    \/ HangUp(p)

Next ==
    \/ \E p \in Proc : Resolve(p) \/ Rebuilding(p)
    \/ \E p \in Managers : Manager(p)
    \/ \E p \in Readers : Reader(p)
    \/ Age

Spec == Init /\ [][Next]_vars

\* The program's own steps go on, and who is connected keeps looking boards up.
FairSpec == Spec /\ WF_vars(Age)
    /\ \A p \in Proc : (SF_vars(Resolve(p)) /\ WF_vars(Rebuilding(p)))
    /\ \A r \in Readers : WF_vars(Flag(r) \/ Selected(r))

-----------------------------------------------------------------------------
SameAsFile == number = size /\ \A i \in 1 .. size : bcache[i] = file[i]

\* A copy that counts as newer than .BOARDS is .BOARDS, once nobody rebuilds
\* it, unless a record was written in the midst of its rebuild.
CopyTrue == newer /\ holder = NoProc /\ ~missed /\ ~stuck => SameAsFile

\* A count of readers never says more than there are, as long as each reader
\* could be counted out where it was counted in.
In(i) == {p \in Readers : pos[p] = i /\ pc[p] \in {"counted", "in"}}
NoGhostReaders == ~lost => \A i \in Slots : inboard[i] <= Cardinality(In(i))

\* Every change of .BOARDS comes into the copy some time, except one written
\* during somebody else's rebuild, and after a process died in its own.
Connected == \E p \in Proc : pc[p] # "gone"
ChangesShow == ~SameAsFile ~> (SameAsFile \/ missed \/ stuck \/ ~Connected)
=============================================================================
