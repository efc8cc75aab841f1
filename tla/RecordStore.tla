----------------------------- MODULE RecordStore -----------------------------
(***************************************************************************)
(* One record file (a board's or mailbox's .DIR, an announce index, ...)   *)
(* edited by several bbsd processes through src/record.c.                  *)
(*                                                                         *)
(* Every editing call runs open, fstat, f_exlock, change, close.  The size *)
(* is read BEFORE the lock is granted and never again, closing the file is *)
(* what releases the lock, and the result of f_exlock is ignored, so a     *)
(* wait that a signal interrupts goes on as if it held the lock.           *)
(***************************************************************************)
EXTENDS Naturals, Sequences, FiniteSets

CONSTANTS
    Proc,           \* the bbsd processes
    NoProc,         \* "nobody holds the lock"
    Name,           \* file names of articles
    NoName,         \* the empty name of a zeroed record
    Filetime,       \* the time stamp each name carries in its header
    Ops,            \* the calls each process makes on this file
    Initial,        \* the records the file starts with
    PageRecords,    \* records to a page of the mapping
    MaxInterrupts,  \* bound: waits for the lock a signal cuts short
    MaxCrashes,     \* bound: processes killed inside a call
    MaxMapFails     \* bound: mmap calls that fail

OpNames == {"append", "delete_record", "delete_file", "process", "substitute",
            "safe_sorted", "safe_linear", "move", "sort"}

Record == [name : Name \cup {NoName}, rev : 0 .. 1]
Zero == [name |-> NoName, rev |-> 0]
Call == [op : OpNames, ent : Nat, to : Nat, rec : Record]
NoCall == [op |-> "append", ent |-> 0, to |-> 0, rec |-> Zero]

ASSUME ProcAssumption == NoProc \notin Proc
ASSUME NameAssumption == NoName \notin Name
ASSUME FiletimeAssumption == Filetime \in [Name -> Nat \ {0}]
ASSUME OpsAssumption == Ops \in [Proc -> SUBSET OpNames]
ASSUME InitialAssumption == Initial \in Seq(Record)
ASSUME BoundsAssumption ==
    /\ PageRecords \in Nat \ {0}
    /\ MaxInterrupts \in Nat /\ MaxCrashes \in Nat /\ MaxMapFails \in Nat

VARIABLES
    file,       \* the records on disk
    holder,     \* the process fcntl has given the write lock to
    pc,         \* where each process is in its call
    call,       \* the call it makes and its arguments
    snap,       \* st_size of its fstat, in records
    cut,        \* the size its ftruncate will set
    used,       \* names handed out by getfilename
    interrupts, crashes, mapfails,
    \* What the properties remember; no guard of the code reads these.
    bare,       \* processes that are past f_exlock without the lock
    known,      \* the names each process's fstat counted
    gone,       \* names a call removed on purpose
    torn        \* a signal, a kill or a SIGBUS has disturbed a call

env == <<interrupts, crashes, mapfails>>
vars == <<file, holder, pc, call, snap, cut, used, env, bare, known, gone, torn>>

\* The last entry of a range that is the whole rest of the file.
ToTheEnd == 999999

Stages == {"idle", "called", "waiting", "locked", "moved", "closing"}
Critical == {"locked", "moved", "closing"}

NamesOf(s) == {s[i].name : i \in DOMAIN s} \ {NoName}
TimeOf(r) == IF r.name = NoName THEN 0 ELSE Filetime[r.name]
Smaller(a, b) == IF a < b THEN a ELSE b

-----------------------------------------------------------------------------
(* The mapping: st_size bytes are mapped, but only the pages the file still *)
(* reaches can be touched; on its last page, bytes past its end read as 0.  *)

Reach(size) ==
    Smaller(size, PageRecords * ((Len(file) + PageRecords - 1) \div PageRecords))

Mapped(p) ==
    [i \in 1 .. Reach(snap[p]) |-> IF i \in DOMAIN file THEN file[i] ELSE Zero]

Faults(p) == Reach(snap[p]) < snap[p]

\* What the file holds after m has been written through the mapping.
Stored(m) == [i \in DOMAIN file |-> IF i \in DOMAIN m THEN m[i] ELSE file[i]]

\* ftruncate to n records: cut off, or filled up with zeros.
Resized(n) == [i \in 1 .. n |-> IF i \in DOMAIN file THEN file[i] ELSE Zero]

\* memmove of everything behind id one record down.
Shifted(m, id) ==
    [i \in DOMAIN m |-> IF id <= i /\ i + 1 \in DOMAIN m THEN m[i + 1] ELSE m[i]]

\* The filechecks of a range delete keep marked articles.
Kept(r) == r.rev = 1

\* What process_records makes of m: what is kept, in its order, pushed together.
\* (A set of one sequence.)
Compacted(m, id1, id2) ==
    LET stay == {i \in DOMAIN m : i < id1 \/ id2 < i \/ Kept(m[i])}
        orders == {f \in [1 .. Cardinality(stay) -> stay] :
                      \A i, j \in DOMAIN f : i < j => f[i] < f[j]}
    IN {[n \in DOMAIN f |-> m[f[n]]] : f \in orders}

\* Variant: the record is written where it goes and nothing makes room for it.
Relocated_over(m, src, dst) ==
    IF src \notin DOMAIN m THEN m ELSE [m EXCEPT ![dst] = m[src]]

\* move_record: src goes to dst; a fault on the way loses src.
Relocated(m, src, dst) ==
    LET src_first == [i \in DOMAIN m |->
            IF src <= i /\ i < dst /\ i + 1 \in DOMAIN m THEN m[i + 1]
            ELSE IF i = dst THEN m[src] ELSE m[i]]
        dst_first == [i \in DOMAIN m |->
            IF i = dst THEN m[src]
            ELSE IF dst < i /\ i <= src THEN m[i - 1] ELSE m[i]]
    IN IF src \notin DOMAIN m THEN m
       ELSE IF src < dst THEN src_first ELSE dst_first

\* Variant: the caller's entry number is trusted.
FindName_trusting(m, ent, name) == IF ent \in DOMAIN m THEN ent ELSE 0

\* The entry number the caller had, else the first record of that name; 0: none.
FindName(m, ent, name) ==
    LET hits == {i \in DOMAIN m : m[i].name = name}
    IN IF ent \in hits THEN ent
       ELSE IF hits = {} THEN 0 ELSE CHOOSE i \in hits : \A j \in hits : i <= j

\* Variant: upper_bound, past the records of the same second.
LowerBound_upper(m, size, t) ==
    LET time(k) == IF k \in DOMAIN m THEN TimeOf(m[k]) ELSE 0
        \* w is <<low, high>>
        ub[w \in (0 .. size) \X (0 .. size)] ==
            IF w[1] >= w[2] THEN w[1]
            ELSE LET i == (w[2] + w[1]) \div 2
                 IN IF t < time(i + 1) THEN ub[<<w[1], i>>] ELSE ub[<<i + 1, w[2]>>]
    IN ub[<<0, size>>]

\* lower_bound over size records: records before the result are older than t.
LowerBound(m, size, t) ==
    LET time(k) == IF k \in DOMAIN m THEN TimeOf(m[k]) ELSE 0
        \* w is <<low, high>>
        lb[w \in (0 .. size) \X (0 .. size)] ==
            IF w[1] >= w[2] THEN w[1]
            ELSE LET i == (w[2] + w[1]) \div 2
                 IN IF t <= time(i + 1) THEN lb[<<w[1], i>>] ELSE lb[<<i + 1, w[2]>>]
    IN lb[<<0, size>>]

\* safe_substitute_record's search in a file kept in filetime order; 0: none.
FindSorted(m, size, ent, rec) ==
    LET e == Smaller(ent, size)
        low == LowerBound(m, size, TimeOf(rec))
        hits == {i \in DOMAIN m : /\ low < i
                                  /\ m[i].name = rec.name
                                  /\ \A j \in low + 1 .. i : TimeOf(m[j]) = TimeOf(rec)}
    IN IF e \notin DOMAIN m THEN 0
       ELSE IF m[e].name = rec.name THEN e
       ELSE IF hits = {} THEN 0 ELSE CHOOSE i \in hits : \A j \in hits : i <= j

\* Its search in any other file: down from the entry number, then up.
FindLinear(m, size, ent, rec) ==
    LET e == Smaller(ent, size)
        hits == {i \in DOMAIN m : m[i].name = rec.name}
        below == {i \in hits : i <= e}
    IN IF e \notin DOMAIN m \/ hits = {} THEN 0
       ELSE IF below # {} THEN CHOOSE i \in below : \A j \in below : j <= i
       ELSE CHOOSE i \in hits : \A j \in hits : i <= j

-----------------------------------------------------------------------------
Init ==
    /\ file = Initial
    /\ holder = NoProc
    /\ pc = [p \in Proc |-> "idle"]
    /\ call = [p \in Proc |-> NoCall]
    /\ snap = [p \in Proc |-> 0]
    /\ cut = [p \in Proc |-> 0]
    /\ used = NamesOf(Initial)
    /\ interrupts = 0 /\ crashes = 0 /\ mapfails = 0
    /\ bare = {}
    /\ known = [p \in Proc |-> {}]
    /\ gone = {}
    /\ torn = FALSE

Goto(p, stage) == pc' = [pc EXCEPT ![p] = stage]

\* Variant: the descriptor is not closed.
Release_leaking(p) == holder' = holder

\* close() on the file, by whatever path, gives up the process's lock.
Release(p) == holder' = IF holder = p THEN NoProc ELSE holder

\* The call is over and its locals are gone.
Return(p) ==
    /\ Goto(p, "idle")
    /\ call' = [call EXCEPT ![p] = NoCall]
    /\ snap' = [snap EXCEPT ![p] = 0]
    /\ cut' = [cut EXCEPT ![p] = 0]
    /\ known' = [known EXCEPT ![p] = {}]
    /\ bare' = bare \ {p}

\* An article file is created, then its header is appended.
Post(p) ==
    /\ pc[p] = "idle" /\ "append" \in Ops[p]
    /\ \E n \in Name \ used :
          /\ used' = used \cup {n}
          /\ call' = [call EXCEPT ![p] = [op |-> "append", ent |-> 0, to |-> 0,
                                          rec |-> [name |-> n, rev |-> 0]]]
    /\ Goto(p, "called")
    /\ UNCHANGED <<file, holder, snap, cut, env, bare, known, gone, torn>>

\* The list on the screen is read without the lock; a key picks an entry.
Pick(p) ==
    /\ pc[p] = "idle"
    /\ \E o \in Ops[p] \ {"append"}, e \in DOMAIN file, t \in DOMAIN file \cup {ToTheEnd} :
          /\ o = "process" => e <= t
          /\ o = "move" => e # t /\ t # ToTheEnd
          /\ o \notin {"process", "move"} => t = e
          /\ o = "sort" => e = 1
          /\ call' = [call EXCEPT ![p] =
                [op |-> o, ent |-> e, to |-> t,
                 rec |-> IF o \in {"substitute", "safe_sorted", "safe_linear"}
                         THEN [file[e] EXCEPT !.rev = 1 - @] ELSE file[e]]]
    /\ Goto(p, "called")
    /\ Release(p)
    /\ UNCHANGED <<file, snap, cut, used, env, bare, known, gone, torn>>

\* Variant: the number of records is rounded up past the last one.
Open_rounding(p) ==
    /\ pc[p] = "called"
    /\ Goto(p, "waiting")
    /\ snap' = [snap EXCEPT ![p] = Len(file) + 1]
    /\ known' = [known EXCEPT ![p] = NamesOf(file)]
    /\ UNCHANGED <<file, holder, call, cut, used, env, bare, gone, torn>>

\* open, and fstat except where only a write follows.
Open(p) ==
    /\ pc[p] = "called"
    /\ Goto(p, "waiting")
    /\ IF call[p].op \in {"append", "substitute"}
       THEN UNCHANGED <<snap, known>>
       ELSE /\ snap' = [snap EXCEPT ![p] = Len(file)]
            /\ known' = [known EXCEPT ![p] = NamesOf(file)]
    /\ UNCHANGED <<file, holder, call, cut, used, env, bare, gone, torn>>

\* move_record checks its arguments against that size before the lock.
Refused(p) ==
    call[p].op = "move" /\ (call[p].ent > snap[p] \/ call[p].to > snap[p])

Refuse(p) ==
    /\ pc[p] = "waiting" /\ Refused(p)
    /\ Return(p) /\ Release(p)
    /\ UNCHANGED <<file, used, env, gone, torn>>

\* Variant: the lock is shared.
f_exlock_shared(p) ==
    /\ pc[p] = "waiting" /\ ~Refused(p)
    /\ holder' = p
    /\ Goto(p, "locked")
    /\ UNCHANGED <<file, call, snap, cut, used, env, bare, known, gone, torn>>

f_exlock(p) ==
    /\ pc[p] = "waiting" /\ ~Refused(p) /\ holder \in {NoProc, p}
    /\ holder' = p
    /\ Goto(p, "locked")
    /\ UNCHANGED <<file, call, snap, cut, used, env, bare, known, gone, torn>>

\* fcntl returns EINTR (SIGUSR2: a message arrived) and nobody looks.
Interrupted(p) ==
    /\ pc[p] = "waiting" /\ ~Refused(p) /\ holder \notin {NoProc, p}
    /\ interrupts < MaxInterrupts
    /\ interrupts' = interrupts + 1
    /\ bare' = bare \cup {p}
    /\ torn' = TRUE
    /\ Goto(p, "locked")
    /\ UNCHANGED <<file, holder, call, snap, cut, used, crashes, mapfails, known, gone>>

-----------------------------------------------------------------------------
(* The calls, from the lock to the close. *)

At(p, op) == pc[p] = "locked" /\ call[p].op = op

Write(p, f) ==
    /\ file' = f
    /\ torn' = (torn \/ Faults(p))
    /\ Goto(p, "closing")
    /\ UNCHANGED <<holder, call, snap, cut, used, env, bare, known, gone>>

\* Variant: one record too many is cut off.
Moved_short(p, f, n, names) ==
    /\ file' = f
    /\ cut' = [cut EXCEPT ![p] = n - 1]
    /\ gone' = gone \cup names
    /\ torn' = (torn \/ Faults(p))
    /\ Goto(p, "moved")
    /\ UNCHANGED <<holder, call, snap, used, env, bare, known>>

\* memmove done, ftruncate to n still to come; names is what the caller removes.
Moved(p, f, n, names) ==
    /\ file' = f
    /\ cut' = [cut EXCEPT ![p] = n]
    /\ gone' = gone \cup names
    /\ torn' = (torn \/ Faults(p))
    /\ Goto(p, "moved")
    /\ UNCHANGED <<holder, call, snap, used, env, bare, known>>

GiveUp(p) == Write(p, file)

append_record(p) == At(p, "append") /\ Write(p, Append(file, call[p].rec))

delete_record(p) ==
    /\ At(p, "delete_record")
    /\ IF snap[p] = 0 \/ call[p].ent > snap[p]
       THEN GiveUp(p)
       ELSE Moved(p, Stored(Shifted(Mapped(p), call[p].ent)), snap[p] - 1,
                  IF call[p].ent \in DOMAIN file THEN {file[call[p].ent].name} ELSE {})

\* The entry number is only a hint: the name decides, under the lock.
delete_file(p) ==
    LET m == Mapped(p)
        id == FindName(m, call[p].ent, call[p].rec.name)
    IN /\ At(p, "delete_file")
       /\ call[p].ent \in DOMAIN m \/ call[p].ent > snap[p]
       /\ IF snap[p] = 0 \/ id = 0
          THEN GiveUp(p)
          ELSE Moved(p, Stored(Shifted(m, id)), snap[p] - 1, {call[p].rec.name})

\* The hint is read outside TRY, where SIGBUS is ignored: the kernel kills.
delete_file_killed(p) ==
    /\ At(p, "delete_file")
    /\ call[p].ent \notin DOMAIN Mapped(p) /\ call[p].ent <= snap[p]
    /\ Return(p) /\ Release(p)
    /\ UNCHANGED <<file, used, env, gone, torn>>

process_records(p) ==
    LET m == Mapped(p)
        dropped == {m[i].name : i \in {j \in DOMAIN m : /\ call[p].ent <= j
                                                         /\ j <= call[p].to
                                                         /\ ~Kept(m[j])}}
    IN /\ At(p, "process")
       /\ \E c \in Compacted(m, call[p].ent, call[p].to) :
             IF call[p].ent > snap[p] \/ Len(c) = Len(m)
             THEN GiveUp(p)
             ELSE Moved(p, Stored([i \in DOMAIN m |-> IF i <= Len(c) THEN c[i] ELSE m[i]]),
                        snap[p] - (Len(m) - Len(c)), dropped)

\* Written at the entry number, whatever is there now; past the end leaves a hole.
substitute_record(p) ==
    LET e == call[p].ent
        n == IF e > Len(file) THEN e ELSE Len(file)
    IN /\ At(p, "substitute")
       /\ Write(p, [Resized(n) EXCEPT ![e] = call[p].rec])

safe_substitute_record(p) ==
    LET m == Mapped(p)
        id == IF call[p].op = "safe_sorted"
              THEN FindSorted(m, snap[p], call[p].ent, call[p].rec)
              ELSE FindLinear(m, snap[p], call[p].ent, call[p].rec)
    IN /\ At(p, "safe_sorted") \/ At(p, "safe_linear")
       /\ IF snap[p] = 0 \/ id = 0
          THEN GiveUp(p)
          ELSE Write(p, Stored([m EXCEPT ![id] = call[p].rec]))

move_record(p) ==
    /\ At(p, "move")
    /\ Write(p, Stored(Relocated(Mapped(p), call[p].ent, call[p].to)))

\* qsort by filetime; a fault on the way leaves some mixture of the records.
sort_records(p) ==
    LET m == Mapped(p)
        perms == {f \in [DOMAIN m -> DOMAIN m] : \A i, j \in DOMAIN m : f[i] = f[j] => i = j}
        ordered(f) == \A i \in 1 .. Len(m) - 1 : TimeOf(m[f[i]]) <= TimeOf(m[f[i + 1]])
    IN /\ At(p, "sort")
       /\ IF snap[p] = 0 THEN GiveUp(p)
          ELSE \E f \in IF Faults(p) THEN [DOMAIN m -> DOMAIN m]
                                     ELSE {g \in perms : ordered(g)} :
                  Write(p, Stored([i \in DOMAIN m |-> m[f[i]]]))

\* Variant: the file keeps its length.
ftruncate_missing(p) == pc[p] = "moved" /\ Write(p, file)

ftruncate(p) ==
    /\ pc[p] = "moved"
    /\ Write(p, Resized(cut[p]))

close(p) ==
    /\ pc[p] = "closing"
    /\ Return(p) /\ Release(p)
    /\ UNCHANGED <<file, used, env, gone, torn>>

\* mmap fails: two of the calls return without closing, lock in hand.
MapFails(p) ==
    /\ pc[p] = "locked"
    /\ call[p].op \notin {"append", "substitute"}
    /\ mapfails < MaxMapFails
    /\ mapfails' = mapfails + 1
    /\ Return(p)
    /\ IF call[p].op \in {"move", "process"} THEN UNCHANGED holder ELSE Release(p)
    /\ UNCHANGED <<file, used, interrupts, crashes, gone, torn>>

\* SIGHUP (line lost, kicked, idle) runs abort_bbs and exits, wherever it strikes.
Crash(p) ==
    /\ pc[p] # "idle" /\ crashes < MaxCrashes
    /\ crashes' = crashes + 1
    /\ torn' = (torn \/ pc[p] = "moved")
    /\ Return(p) /\ Release(p)
    /\ UNCHANGED <<file, used, interrupts, mapfails, gone>>

Change(p) ==
    \/ append_record(p) \/ delete_record(p) \/ delete_file(p) \/ process_records(p)
    \/ substitute_record(p) \/ safe_substitute_record(p) \/ move_record(p)
    \/ sort_records(p)

Step(p) ==
    \/ Post(p) \/ Pick(p) \/ Open(p) \/ Refuse(p) \/ f_exlock(p) \/ Interrupted(p)
    \/ Change(p) \/ delete_file_killed(p) \/ ftruncate(p) \/ close(p)
    \/ MapFails(p) \/ Crash(p)

Next == \E p \in Proc : Step(p)

Spec == Init /\ [][Next]_vars

\* What a call does of its own accord.
Proceed(p) ==
    Open(p) \/ Refuse(p) \/ Change(p) \/ delete_file_killed(p) \/ ftruncate(p) \/ close(p)

\* A call in progress runs on, and the kernel serves waiters in turn.
Fairness == \A p \in Proc : WF_vars(Proceed(p)) /\ SF_vars(f_exlock(p))

FairSpec == Spec /\ Fairness

-----------------------------------------------------------------------------
(* Properties. *)

TypeOK ==
    /\ file \in Seq(Record)
    /\ holder \in Proc \cup {NoProc}
    /\ pc \in [Proc -> Stages]
    /\ call \in [Proc -> Call]
    /\ snap \in [Proc -> Nat]
    /\ cut \in [Proc -> Nat]
    /\ used \in SUBSET Name
    /\ interrupts \in Nat /\ crashes \in Nat /\ mapfails \in Nat
    /\ bare \in SUBSET Proc
    /\ known \in [Proc -> SUBSET Name]
    /\ gone \in SUBSET (Name \cup {NoName})
    /\ torn \in BOOLEAN

\* Two processes are past f_exlock together only when a signal let one of
\* them through: leaks of the lock, crashes and kills do not break exclusion.
Exclusion ==
    \A p, q \in Proc :
       /\ p # q
       /\ pc[p] \in Critical /\ pc[q] \in Critical
       => p \in bare \/ q \in bare

\* Between calls no article is listed twice, however stale the sizes the
\* deletes work from, unless a call was torn.
NoDuplicates ==
    ~torn /\ (\A p \in Proc : pc[p] # "moved") =>
       \A i, j \in DOMAIN file :
          file[i].name = file[j].name /\ file[i].name # NoName => i = j

\* A call may destroy an entry it was not asked to remove only by the
\* ftruncate to a stale size, and then only one that arrived after its fstat.
OnlyNewerLost ==
    [][~torn' =>
         \A n \in NamesOf(file) \ NamesOf(file') :
            \/ n \in gone'
            \/ \E p \in Proc : /\ pc[p] = "moved" /\ pc'[p] = "closing"
                               /\ n \notin known[p]]_vars

\* safe_substitute_record on a file in filetime order changes the record it
\* is given wherever that record has moved to since the caller read it.
SortedUpdateLands ==
    [][\A p \in Proc :
         /\ At(p, "safe_sorted") /\ pc'[p] = "closing"
         /\ \A i, j \in DOMAIN file : i <= j => TimeOf(file[i]) <= TimeOf(file[j])
         /\ Len(file) >= snap[p]
         /\ call[p].rec.name \in NamesOf(SubSeq(file, 1, snap[p]))
         => \E i \in DOMAIN file : file[i].name = call[p].rec.name
                                   /\ file'[i] = call[p].rec]_vars

\* With one process removing records, no zeroed record ever appears.
NoHoles == \A i \in DOMAIN file : file[i] # Zero

\* Every call ends: nobody waits for the lock for ever.
Returns == \A p \in Proc : pc[p] # "idle" ~> pc[p] = "idle"
=============================================================================
