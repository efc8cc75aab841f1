-------------------------- MODULE RecordStoreProofs --------------------------
(* Machine-checked facts about RecordStore, for any processes, files, calls *)
(* and bounds: who is past f_exlock together, what calls may leave in the   *)
(* file (holes, an entry twice), what they may lose, and that the update by *)
(* binary search finds its record.                                          *)
EXTENDS RecordStoreTypes

(***************************************************************************)
(* The inductive invariant behind Exclusion: a process past f_exlock holds *)
(* the lock or was let through by a signal.  The shapes of pc and bare are *)
(* all the typing that needs.                                              *)
(***************************************************************************)
Shape ==
    /\ pc \in [Proc -> Stages]
    /\ bare \in SUBSET Proc

CriticalHolds == \A p \in Proc : pc[p] \in Critical => holder = p \/ p \in bare

LockInv == Shape /\ CriticalHolds

LEMMA LockInit == Init => LockInv
BY DEF Init, LockInv, Shape, CriticalHolds, Stages, Critical

(* A call that ends gives up what it has; others keep what they have. *)
LEMMA LockReturn ==
    ASSUME LockInv, NEW p \in Proc, Return(p), Release(p)
    PROVE  LockInv'
<1>1. Shape'
    BY DEF LockInv, Shape, Return, Goto, Stages
<1>2. ASSUME NEW q \in Proc, pc'[q] \in Critical
      PROVE  holder' = q \/ q \in bare'
    <2>1. q # p /\ pc'[q] = pc[q]
        BY <1>2 DEF LockInv, Shape, Return, Goto, Critical
    <2>2. holder = q \/ q \in bare
        BY <1>2, <2>1 DEF LockInv, CriticalHolds
    <2> QED
        BY <2>1, <2>2, ProcAssumption DEF Return, Release
<1> QED
    BY <1>1, <1>2 DEF LockInv, CriticalHolds

(* Work under the lock moves only the worker's own pc, inside the section. *)
LEMMA LockWork ==
    ASSUME LockInv, NEW p \in Proc, pc[p] \in Critical,
           NEW s \in Critical, Goto(p, s), UNCHANGED <<holder, bare>>
    PROVE  LockInv'
<1>1. Shape'
    BY DEF LockInv, Shape, Goto, Stages, Critical
<1>2. \A q \in Proc : pc'[q] \in Critical => pc[q] \in Critical
    BY DEF LockInv, Shape, Goto
<1> QED
    BY <1>1, <1>2 DEF LockInv, CriticalHolds

LEMMA LockChange ==
    ASSUME LockInv, NEW p \in Proc, Change(p)
    PROVE  LockInv'
<1>1. pc[p] \in Critical
    BY DEF Change, At, Critical, append_record, delete_record, delete_file,
           process_records, substitute_record, safe_substitute_record,
           move_record, sort_records
<1>2. (\E f : Write(p, f)) \/ (\E f, n, names : Moved(p, f, n, names))
    BY DEF Change, append_record, delete_record, delete_file, process_records,
           substitute_record, safe_substitute_record, move_record, sort_records,
           GiveUp
<1>3. CASE \E f : Write(p, f)
    BY <1>1, <1>3, LockWork DEF Write, Critical
<1>4. CASE \E f, n, names : Moved(p, f, n, names)
    BY <1>1, <1>4, LockWork DEF Moved, Critical
<1> QED
    BY <1>2, <1>3, <1>4

LEMMA LockStep == LockInv /\ [Next]_vars => LockInv'
<1> SUFFICES ASSUME LockInv, [Next]_vars PROVE LockInv'
    OBVIOUS
<1>1. CASE UNCHANGED vars
    BY <1>1 DEF vars, LockInv, Shape, CriticalHolds
<1>2. CASE Next
    <2> PICK p \in Proc : Step(p)
        BY <1>2 DEF Next
    <2>1. CASE Post(p) \/ Open(p)
        <3>1. /\ UNCHANGED <<holder, bare>>
              /\ \E s \in Stages \ Critical : Goto(p, s)
            BY <2>1 DEF Post, Open, Stages, Critical
        <3> QED
            BY <3>1 DEF LockInv, Shape, CriticalHolds, Goto, Stages
    <2>2. CASE Pick(p)
        <3>1. Goto(p, "called") /\ Release(p) /\ bare' = bare
            BY <2>2 DEF Pick
        <3>2. ASSUME NEW q \in Proc, pc'[q] \in Critical
              PROVE  q # p /\ pc[q] \in Critical
            BY <3>1, <3>2 DEF LockInv, Shape, Goto, Critical
        <3> QED
            BY <3>1, <3>2, ProcAssumption
               DEF LockInv, Shape, CriticalHolds, Goto, Release, Stages
    <2>3. CASE Refuse(p)
        BY <2>3, LockReturn DEF Refuse
    <2>4. CASE f_exlock(p)
        <3>1. /\ holder \in {NoProc, p} /\ holder' = p
              /\ bare' = bare /\ Goto(p, "locked")
            BY <2>4 DEF f_exlock
        <3>2. ASSUME NEW q \in Proc, q # p, pc'[q] \in Critical
              PROVE  q \in bare
            <4>1. pc[q] \in Critical
                BY <3>1, <3>2 DEF LockInv, Shape, Goto
            <4> QED
                BY <3>1, <3>2, <4>1, ProcAssumption DEF LockInv, CriticalHolds
        <3> QED
            BY <3>1, <3>2 DEF LockInv, Shape, CriticalHolds, Goto, Stages
    <2>5. CASE Interrupted(p)
        <3>1. bare' = bare \cup {p} /\ holder' = holder /\ Goto(p, "locked")
            BY <2>5 DEF Interrupted
        <3> QED
            BY <3>1 DEF LockInv, Shape, CriticalHolds, Goto, Stages
    <2>6. CASE Change(p)
        BY <2>6, LockChange
    <2>7. CASE ftruncate(p)
        BY <2>7, LockWork DEF ftruncate, Write, Critical
    <2>8. CASE close(p) \/ delete_file_killed(p) \/ Crash(p)
        BY <2>8, LockReturn DEF close, delete_file_killed, Crash
    <2>9. CASE MapFails(p)
        <3>1. CASE Release(p)
            BY <2>9, <3>1, LockReturn DEF MapFails
        <3>2. CASE holder' = holder
            <4>1. ASSUME NEW q \in Proc, pc'[q] \in Critical
                  PROVE  q # p /\ pc[q] \in Critical
                BY <2>9, <4>1 DEF MapFails, Return, Goto, LockInv, Shape, Critical
            <4> QED
                BY <2>9, <3>2, <4>1
                   DEF MapFails, Return, Goto, LockInv, Shape, CriticalHolds, Stages
        <3> QED
            BY <2>9, <3>1, <3>2 DEF MapFails
    <2> QED
        BY <2>1, <2>2, <2>3, <2>4, <2>5, <2>6, <2>7, <2>8, <2>9 DEF Step
<1> QED
    BY <1>1, <1>2

(***************************************************************************)
(* Whatever the calls, the crashes and the leaked locks, two processes are *)
(* past f_exlock on one file only if a signal let one of them through.     *)
(***************************************************************************)
THEOREM ExclusionHolds == Spec => []Exclusion
<1>1. LockInv => Exclusion
    BY DEF LockInv, CriticalHolds, Exclusion
<1> QED
    BY LockInit, LockStep, <1>1, PTL DEF Spec
-----------------------------------------------------------------------------
(***************************************************************************)
(* Who may use which calls.  Those that go by an entry number, whatever is *)
(* there by the time they have the lock, are for a process that is the     *)
(* only one to change the file, but for deliveries at its end.             *)
(***************************************************************************)
Sole(p) == \A q \in Proc \ {p} : Ops[q] \subseteq {"append"}

OneEditor == \E p \in Proc : Sole(p)
NumberedAlone == \A p \in Proc : "substitute" \in Ops[p] => Sole(p)
ReorderedAlone ==
    \A p \in Proc : Ops[p] \cap {"substitute", "move", "sort"} # {} => Sole(p)

Opening == {"called", "waiting", "locked"}

\* What a process is doing is among its calls.
Asked == \A p \in Proc : pc[p] # "idle" => call[p].op \in Ops[p]

\* A name is handed out once, and an article on its way is listed nowhere yet.
OnItsWay(p) ==
    call[p].op = "append" /\ pc[p] \in Opening =>
       /\ call[p].rec.name \in Name \ NamesOf(file)
       /\ \A q \in Proc : /\ call[p].rec.name \notin known[q]
                          /\ p # q => call[q].rec.name # call[p].rec.name
Fresh ==
    /\ NamesOf(file) \subseteq used
    /\ \A p \in Proc : /\ call[p].rec.name \in used \cup {NoName}
                       /\ known[p] \subseteq used
                       /\ OnItsWay(p)

\* move_record has looked at its arguments.
Checked == \A p \in Proc : pc[p] = "locked" => ~Refused(p)

\* What a sole editor has read is still so.
Current(p) ==
    /\ pc[p] # "closing" => snap[p] <= Len(file)
    /\ pc[p] \in Opening /\ call[p].op # "append" =>
          /\ call[p].ent \in DOMAIN file
          /\ call[p].rec.name = file[call[p].ent].name

\* The ftruncate that follows a removal.
Shrinking ==
    \A p \in Proc : pc[p] = "moved" => cut[p] <= snap[p] /\ call[p].op # "append"

\* Until a call is torn nobody is past f_exlock without the lock.
Calm == bare # {} => torn

EditInv ==
    /\ TypeInv /\ LockInv
    /\ Asked /\ Fresh /\ Checked /\ Shrinking /\ Calm
    /\ \A p \in Proc : Sole(p) => Current(p)

LEMMA EditInit == Init => EditInv
<1> SUFFICES ASSUME Init PROVE EditInv
    OBVIOUS
<1>1. TypeInv /\ LockInv
    BY TypeInit, LockInit
<1>2. Len(file) \in Nat
    BY <1>1 DEF TypeInv, TypeOK
<1>3. Asked /\ Fresh /\ Checked /\ Shrinking /\ Calm
    BY DEF Init, Asked, Fresh, OnItsWay, Opening, Checked, Shrinking, Calm, NoCall, Zero
<1> QED
    BY <1>1, <1>2, <1>3 DEF Init, EditInv, Current, Opening

-----------------------------------------------------------------------------
(* What the parts of a call have in common. *)

(* Until a call is torn, one process at a time is past f_exlock. *)
LEMMA OneWorker ==
    ASSUME EditInv, ~torn, NEW p \in Proc, NEW q \in Proc,
           pc[p] \in Critical, pc[q] \in Critical
    PROVE  p = q
BY DEF EditInv, Calm, LockInv, CriticalHolds

LEMMA NamesAre ==
    ASSUME NEW N, NEW s \in Seq(Record), \A i \in 1 .. Len(s) : s[i].name \in N \cup {NoName}
    PROVE  NamesOf(s) \subseteq N
BY DEF NamesOf

LEMMA ChangeNames ==
    ASSUME TypeInv, NEW p \in Proc, Change(p)
    PROVE  NamesOf(file') \subseteq NamesOf(file) \cup {call[p].rec.name}
<1> DEFINE N == NamesOf(file) \cup {call[p].rec.name}
           R == {r \in Record : r.name \in N \cup {NoName}}
<1>1. file \in Seq(Record) /\ call[p].rec \in Record
    BY DEF TypeInv, TypeOK, Call
<1>2. file \in Seq(R)
    <2>1. \A i \in 1 .. Len(file) : file[i] \in R
        BY <1>1 DEF NamesOf
    <2> HIDE DEF R
    <2> QED
        BY <1>1, <2>1
<1>3. R \in SUBSET Record /\ Zero \in R /\ call[p].rec \in R
    BY <1>1, ZeroRecord DEF Zero
<1>4. file' \in Seq(R)
    <2> HIDE DEF R
    <2> QED
        BY <1>2, <1>3, Written
<1>5. file' \in Seq(Record) /\ \A i \in 1 .. Len(file') : file'[i] \in R
    <2>1. \A i \in 1 .. Len(file') : file'[i] \in R
        BY <1>4
    <2> HIDE DEF R
    <2> QED
        BY <1>3, <1>4, <2>1
<1> QED
    BY <1>5, NamesAre

LEMMA ResizedNames ==
    ASSUME TypeInv, NEW n \in Nat
    PROVE  NamesOf(Resized(n)) \subseteq NamesOf(file)
<1>1. file \in Seq(Record)
    BY DEF TypeInv, TypeOK
<1>2. Resized(n) \in Seq(Record) /\ Len(Resized(n)) = n
    BY <1>1, ResizedType, ZeroRecord
<1>3. \A i \in 1 .. n : Resized(n)[i].name \in NamesOf(file) \cup {NoName}
    BY <1>1 DEF Resized, NamesOf, Zero
<1> QED
    BY <1>2, <1>3, NamesAre

(* A change under the lock, as the others see it. *)
Worked(p, s) ==
    /\ pc[p] \in {"locked", "moved"} /\ s \in {"moved", "closing"} /\ Goto(p, s)
    /\ UNCHANGED <<holder, call, snap, used, env, bare, known>>

LEMMA ChangeWorks ==
    ASSUME NEW p \in Proc, Change(p)
    PROVE  /\ Worked(p, "closing") \/ Worked(p, "moved")
           /\ pc[p] = "locked" /\ torn' = (torn \/ Faults(p))
BY DEF Change, At, append_record, delete_record, delete_file, process_records,
       substitute_record, safe_substitute_record, move_record, sort_records,
       GiveUp, Write, Moved, Worked

LEMMA TruncateWorks ==
    ASSUME NEW p \in Proc, ftruncate(p)
    PROVE  Worked(p, "closing") /\ pc[p] = "moved" /\ torn' = (torn \/ Faults(p))
BY DEF ftruncate, Write, Worked
(* What a removal leaves for its ftruncate. *)
LEMMA ChangeCuts ==
    ASSUME TypeInv, NEW p \in Proc, Change(p), pc'[p] = "moved"
    PROVE  /\ cut'[p] <= snap[p] /\ call[p].op # "append"
           /\ \A q \in Proc : q # p => cut'[q] = cut[q]
<1>1. pc \in [Proc -> Stages] /\ cut \in [Proc -> Nat] /\ snap[p] \in Nat
      /\ call[p].ent \in Nat /\ call[p].to \in Nat
    BY DEF TypeInv, TypeOK, Call
<1>2. ~(\E f : Write(p, f))
    BY <1>1 DEF Write, Goto
<1>3. ASSUME NEW f, NEW n \in Nat, NEW names, n <= snap[p], Moved(p, f, n, names)
      PROVE  cut'[p] <= snap[p] /\ \A q \in Proc : q # p => cut'[q] = cut[q]
    BY <1>1, <1>3 DEF Moved
<1>4. CASE delete_record(p) \/ delete_file(p)
    <2>1. /\ snap[p] - 1 \in Nat /\ snap[p] - 1 <= snap[p]
          /\ \E f, names : Moved(p, f, snap[p] - 1, names)
        BY <1>1, <1>2, <1>4 DEF delete_record, delete_file, GiveUp
    <2> QED
        BY <1>3, <1>4, <2>1 DEF delete_record, delete_file, At
<1>5. CASE process_records(p)
    <2> DEFINE m == Mapped(p)
    <2>1. m \in Seq(Record) /\ Len(m) \in Nat /\ Len(m) <= snap[p]
        BY MappedType, ZeroRecord DEF TypeInv, TypeOK
    <2> HIDE DEF m
    <2>2. PICK c \in Compacted(m, call[p].ent, call[p].to) :
             \E f, names : Moved(p, f, snap[p] - (Len(m) - Len(c)), names)
        BY <1>2, <1>5 DEF process_records, GiveUp, m
    <2>3. Len(c) \in Nat /\ Len(c) <= Len(m)
        BY <1>1, <2>1, CompactedType
    <2>4. snap[p] - (Len(m) - Len(c)) \in Nat /\ snap[p] - (Len(m) - Len(c)) <= snap[p]
        BY <1>1, <2>1, <2>3
    <2> QED
        BY <1>3, <1>5, <2>2, <2>4 DEF process_records, At
<1> QED
    BY <1>2, <1>4, <1>5
       DEF Change, append_record, substitute_record, safe_substitute_record,
           move_record, sort_records, GiveUp

LEMMA WorkKeeps ==
    ASSUME EditInv, TypeInv', LockInv', NEW p \in Proc, NEW s, Worked(p, s),
           torn' = (torn \/ Faults(p)),
           NamesOf(file') \subseteq NamesOf(file) \cup {call[p].rec.name},
           s = "moved" => /\ cut'[p] <= snap[p] /\ call[p].op # "append"
                          /\ \A q \in Proc : q # p => cut'[q] = cut[q],
           s = "closing" => cut' = cut,
           s = "moved" => Len(file') >= Len(file),
           call[p].op = "append" => /\ Len(file') >= Len(file)
                                    /\ \A i \in DOMAIN file : file'[i] = file[i]
    PROVE  EditInv'
<1>1. /\ pc \in [Proc -> Stages] /\ snap \in [Proc -> Nat] /\ call \in [Proc -> Call]
      /\ file \in Seq(Record) /\ file' \in Seq(Record)
      /\ pc' = [pc EXCEPT ![p] = s] /\ UNCHANGED <<call, snap, used, known, bare>>
    BY DEF EditInv, TypeInv, TypeOK, Worked, Goto
<1>2. \A q \in Proc : pc'[q] \in Opening => q # p /\ pc[q] = pc'[q]
    BY <1>1 DEF Worked, Opening
<1>3. Asked' /\ Checked' /\ Shrinking' /\ Calm'
    <2>1. Asked'
        BY <1>1 DEF EditInv, Asked, Worked
    <2>2. Checked'
        BY <1>1, <1>2 DEF EditInv, Checked, Refused, Opening
    <2>3. Shrinking'
        BY <1>1 DEF EditInv, Shrinking, Worked
    <2>4. Calm'
        BY <1>1 DEF EditInv, Calm
    <2> QED
        BY <2>1, <2>2, <2>3, <2>4
<1>4. Fresh'
    <2>1. NamesOf(file') \subseteq used'
        <3>1. NoName \notin NamesOf(file')
            BY DEF NamesOf
        <3> QED
            BY <1>1, <3>1 DEF EditInv, Fresh
    <2>2. ASSUME NEW q \in Proc PROVE OnItsWay(q)'
        <3>1. SUFFICES ASSUME call[q].op = "append", pc'[q] \in Opening
                       PROVE  OnItsWay(q)'
            BY <1>1 DEF OnItsWay
        <3>2. q # p /\ pc[q] \in Opening
            BY <1>2, <3>1
        <3>3. /\ call[q].rec.name \in Name \ NamesOf(file)
              /\ \A t \in Proc : /\ call[q].rec.name \notin known[t]
                                 /\ q # t => call[t].rec.name # call[q].rec.name
            BY <3>1, <3>2 DEF EditInv, Fresh, OnItsWay
        <3>4. call[q].rec.name \notin NamesOf(file')
            BY <3>2, <3>3
        <3> QED
            BY <1>1, <3>3, <3>4 DEF OnItsWay
    <2> QED
        BY <1>1, <2>1, <2>2 DEF EditInv, Fresh
<1>5. ASSUME NEW q \in Proc, Sole(q) PROVE Current(q)'
    <2>1. Current(q)
        BY <1>5 DEF EditInv
    <2>2. CASE q = p
        BY <1>1, <2>1, <2>2 DEF Current, Opening, Worked
    <2>3. CASE q # p
        <3>1. call[p].op = "append"
            BY <1>5, <2>3 DEF EditInv, Asked, Sole, Worked
        <3> QED
            BY <1>1, <2>1, <2>3, <3>1 DEF Current
    <2> QED
        BY <2>2, <2>3
<1> QED
    BY <1>3, <1>4, <1>5 DEF EditInv, Sole

(* The end of a call forgets what the call knew. *)
LEMMA ReturnKeeps ==
    ASSUME EditInv, TypeInv', LockInv', NEW p \in Proc, Return(p),
           UNCHANGED <<file, used>>, torn => torn'
    PROVE  EditInv'
<1>1. /\ pc \in [Proc -> Stages] /\ call \in [Proc -> Call] /\ snap \in [Proc -> Nat]
      /\ cut \in [Proc -> Nat] /\ known \in [Proc -> SUBSET Name] /\ file \in Seq(Record)
      /\ Len(file) \in Nat
    <2>1. TypeOK
        BY DEF EditInv, TypeInv
    <2>2. file \in Seq(Record)
        BY <2>1 DEF TypeOK
    <2>3. Len(file) \in Nat
        BY <2>2
    <2> QED
        BY <2>1, <2>2, <2>3 DEF TypeOK
<1>2. /\ pc'[p] = "idle" /\ call'[p] = NoCall /\ snap'[p] = 0 /\ known'[p] = {}
      /\ \A q \in Proc : q # p => /\ pc'[q] = pc[q] /\ call'[q] = call[q]
                                  /\ snap'[q] = snap[q] /\ cut'[q] = cut[q]
                                  /\ known'[q] = known[q]
      /\ bare' \subseteq bare
    BY <1>1 DEF Return, Goto
<1>3. Asked' /\ Checked' /\ Shrinking' /\ Calm'
    BY <1>2 DEF EditInv, Asked, Checked, Refused, Shrinking, Calm
<1>4. Fresh'
    <2>1. ASSUME NEW q \in Proc PROVE OnItsWay(q)'
        BY <1>2, NameAssumption DEF EditInv, Fresh, OnItsWay, Opening, NoCall, Zero
    <2>2. NoCall.rec.name = NoName
        BY DEF NoCall, Zero
    <2> QED
        BY <1>2, <2>1, <2>2 DEF EditInv, Fresh
<1>5. ASSUME NEW q \in Proc, Sole(q) PROVE Current(q)'
    BY <1>1, <1>2, <1>5 DEF EditInv, Current, Opening
<1> QED
    BY <1>3, <1>4, <1>5 DEF EditInv, Sole

(* The beginning of a call. *)
LEMMA PostKeeps ==
    ASSUME EditInv, TypeInv', LockInv', NEW p \in Proc, Post(p)
    PROVE  EditInv'
<1>1. /\ pc \in [Proc -> Stages] /\ call \in [Proc -> Call] /\ file \in Seq(Record)
      /\ used \subseteq Name
    BY DEF EditInv, TypeInv, TypeOK
<1>2. PICK n \in Name \ used :
         /\ used' = used \cup {n}
         /\ call' = [call EXCEPT ![p] = [op |-> "append", ent |-> 0, to |-> 0,
                                         rec |-> [name |-> n, rev |-> 0]]]
    BY DEF Post
<1>3. /\ call'[p].op = "append" /\ call'[p].rec.name = n /\ pc'[p] = "called"
      /\ \A q \in Proc : q # p => pc'[q] = pc[q] /\ call'[q] = call[q]
      /\ UNCHANGED <<file, snap, cut, bare, known, torn>>
    BY <1>1, <1>2 DEF Post, Goto
<1>4. Asked' /\ Checked' /\ Shrinking' /\ Calm'
    BY <1>3 DEF Post, EditInv, Asked, Checked, Refused, Shrinking, Calm
<1>5. Fresh'
    <2>1. ASSUME NEW q \in Proc PROVE OnItsWay(q)'
        <3>1. n # NoName
            BY NameAssumption
        <3>2. CASE q = p
            <4>1. /\ n \notin NamesOf(file)
                  /\ \A r \in Proc : n \notin known[r]
                  /\ \A r \in Proc : call[r].rec.name # n
                BY <3>1 DEF EditInv, Fresh
            <4> QED
                BY <1>3, <3>2, <4>1 DEF OnItsWay
        <3>3. CASE q # p
            <4>1. call[q].rec.name = n => FALSE
                BY <3>1 DEF EditInv, Fresh
            <4> QED
                BY <1>3, <3>3, <4>1 DEF EditInv, Fresh, OnItsWay
        <3> QED
            BY <3>2, <3>3
    <2> QED
        BY <1>2, <1>3, <2>1 DEF EditInv, Fresh
<1>6. ASSUME NEW q \in Proc, Sole(q) PROVE Current(q)'
    BY <1>3, <1>6 DEF EditInv, Current, Post
<1> QED
    BY <1>4, <1>5, <1>6 DEF EditInv, Sole

LEMMA PickKeeps ==
    ASSUME EditInv, TypeInv', LockInv', NEW p \in Proc, Pick(p)
    PROVE  EditInv'
<1>1. /\ pc \in [Proc -> Stages] /\ call \in [Proc -> Call] /\ file \in Seq(Record)
    BY DEF EditInv, TypeInv, TypeOK
<1>2. PICK o \in Ops[p] \ {"append"}, e \in DOMAIN file, t \in DOMAIN file \cup {ToTheEnd} :
          call' = [call EXCEPT ![p] =
                [op |-> o, ent |-> e, to |-> t,
                 rec |-> IF o \in {"substitute", "safe_sorted", "safe_linear"}
                         THEN [file[e] EXCEPT !.rev = 1 - @] ELSE file[e]]]
    BY DEF Pick
<1>3. /\ call'[p].op = o /\ call'[p].ent = e /\ call'[p].rec.name = file[e].name
      /\ pc'[p] = "called"
      /\ \A q \in Proc : q # p => pc'[q] = pc[q] /\ call'[q] = call[q]
      /\ UNCHANGED <<file, snap, cut, bare, known, torn, used>>
    <2>1. file[e] \in Record
        BY <1>1
    <2>2. [file[e] EXCEPT !.rev = 1 - @].name = file[e].name
        BY <2>1 DEF Record
    <2> QED
        BY <1>1, <1>2, <2>2 DEF Pick, Goto
<1>4. Asked' /\ Checked' /\ Shrinking' /\ Calm'
    BY <1>3 DEF Pick, EditInv, Asked, Checked, Refused, Shrinking, Calm
<1>5. file[e].name \in NamesOf(file) \cup {NoName}
    BY DEF NamesOf
<1>6. Fresh'
    <2>1. ASSUME NEW q \in Proc PROVE OnItsWay(q)'
        BY <1>3, <1>5, NameAssumption DEF EditInv, Fresh, OnItsWay
    <2> QED
        BY <1>3, <1>5, <2>1 DEF EditInv, Fresh
<1>7. ASSUME NEW q \in Proc, Sole(q) PROVE Current(q)'
    BY <1>3, <1>7 DEF EditInv, Current, Pick
<1> QED
    BY <1>4, <1>6, <1>7 DEF EditInv, Sole

LEMMA OpenKeeps ==
    ASSUME EditInv, TypeInv', LockInv', NEW p \in Proc, Open(p)
    PROVE  EditInv'
<1>1. /\ pc \in [Proc -> Stages] /\ snap \in [Proc -> Nat] /\ file \in Seq(Record)
      /\ known \in [Proc -> SUBSET Name] /\ Len(file) \in Nat
    <2>1. TypeOK
        BY DEF EditInv, TypeInv
    <2>2. file \in Seq(Record)
        BY <2>1 DEF TypeOK
    <2>3. Len(file) \in Nat
        BY <2>2
    <2> QED
        BY <2>1, <2>2, <2>3 DEF TypeOK
<1>2. /\ pc[p] = "called" /\ pc'[p] = "waiting"
      /\ snap'[p] = snap[p] \/ snap'[p] = Len(file)
      /\ known'[p] \in {known[p], NamesOf(file)}
      /\ \A q \in Proc : q # p => pc'[q] = pc[q] /\ snap'[q] = snap[q] /\ known'[q] = known[q]
      /\ UNCHANGED <<file, call, cut, bare, torn, used>>
    BY <1>1 DEF Open, Goto
<1>3. Asked' /\ Checked' /\ Shrinking' /\ Calm'
    BY <1>2 DEF EditInv, Asked, Checked, Refused, Shrinking, Calm
<1>4. Fresh'
    <2>1. ASSUME NEW q \in Proc PROVE OnItsWay(q)'
        <3>1. pc'[q] \in Opening => pc[q] \in Opening
            BY <1>2 DEF Opening
        <3> QED
            BY <1>2, <3>1 DEF EditInv, Fresh, OnItsWay
    <2> QED
        BY <1>2, <2>1 DEF EditInv, Fresh
<1>5. ASSUME NEW q \in Proc, Sole(q) PROVE Current(q)'
    BY <1>1, <1>2, <1>5 DEF EditInv, Current, Opening
<1> QED
    BY <1>3, <1>4, <1>5 DEF EditInv, Sole

LEMMA LockedKeeps ==
    ASSUME EditInv, TypeInv', LockInv', NEW p \in Proc, f_exlock(p) \/ Interrupted(p)
    PROVE  EditInv'
<1>1. /\ pc \in [Proc -> Stages] /\ pc[p] = "waiting" /\ ~Refused(p)
      /\ pc'[p] = "locked" /\ \A q \in Proc : q # p => pc'[q] = pc[q]
      /\ UNCHANGED <<file, call, snap, cut, known, used>>
      /\ (UNCHANGED <<bare, torn>>) \/ torn'
    BY DEF EditInv, TypeInv, TypeOK, f_exlock, Interrupted, Goto
<1>2. Asked' /\ Checked' /\ Shrinking' /\ Calm'
    BY <1>1 DEF EditInv, Asked, Checked, Refused, Shrinking, Calm
<1>3. Fresh'
    <2>1. ASSUME NEW q \in Proc PROVE OnItsWay(q)'
        BY <1>1 DEF EditInv, Fresh, OnItsWay, Opening
    <2> QED
        BY <1>1, <2>1 DEF EditInv, Fresh
<1>4. ASSUME NEW q \in Proc, Sole(q) PROVE Current(q)'
    BY <1>1, <1>4 DEF EditInv, Current, Opening
<1> QED
    BY <1>2, <1>3, <1>4 DEF EditInv, Sole

LEMMA ChangeKeeps ==
    ASSUME EditInv, TypeInv', LockInv', NEW p \in Proc, Change(p)
    PROVE  EditInv'
<1>1. /\ TypeInv /\ file \in Seq(Record) /\ call[p].rec \in Record
      /\ pc \in [Proc -> Stages] /\ Len(file) \in Nat
    <2>1. TypeInv /\ file \in Seq(Record) /\ call[p] \in Call /\ pc \in [Proc -> Stages]
        BY DEF EditInv, TypeInv, TypeOK
    <2> QED
        BY <2>1 DEF Call
<1>2. Len(file') >= Len(file)
    BY <1>1, Written, ZeroRecord
<1>3. call[p].op = "append" => \A i \in DOMAIN file : file'[i] = file[i]
    <2>1. call[p].op = "append" => file' = Append(file, call[p].rec)
        BY DEF Change, At, append_record, delete_record, delete_file, process_records,
               substitute_record, safe_substitute_record, move_record, sort_records, Write
    <2> QED
        BY <1>1, <2>1
<1>4. PICK s \in {"closing", "moved"} : Worked(p, s)
    BY ChangeWorks
<1>5. s = "closing" => cut' = cut
    <2>1. pc'[p] = s
        BY <1>1, <1>4 DEF Worked, Goto
    <2> QED
        BY <1>1, <2>1
           DEF Change, append_record, delete_record, delete_file, process_records,
               substitute_record, safe_substitute_record, move_record, sort_records,
               GiveUp, Write, Moved, Goto
<1>6. s = "moved" => pc'[p] = "moved"
    BY <1>1, <1>4 DEF Worked, Goto
<1> QED
    BY <1>1, <1>2, <1>3, <1>4, <1>5, <1>6, ChangeWorks, ChangeCuts, ChangeNames, WorkKeeps

LEMMA EditStep == EditInv /\ [Next]_vars => EditInv'
<1> SUFFICES ASSUME EditInv, [Next]_vars PROVE EditInv'
    OBVIOUS
<1>0. TypeInv' /\ LockInv'
    BY TypeStep, LockStep DEF EditInv
<1>1. CASE UNCHANGED vars
    BY <1>0, <1>1 DEF vars, EditInv, Asked, Fresh, OnItsWay, Checked, Refused, Shrinking,
                Calm, Sole, Current
<1>2. CASE Next
    <2> PICK p \in Proc : Step(p)
        BY <1>2 DEF Next
    <2>1. CASE ftruncate(p)
        <3>1. Worked(p, "closing") /\ torn' = (torn \/ Faults(p)) /\ cut' = cut
            BY <2>1, TruncateWorks DEF ftruncate, Write
        <3>2. NamesOf(file') \subseteq NamesOf(file)
            BY <2>1, ResizedNames DEF ftruncate, Write, EditInv, TypeInv, TypeOK
        <3>3. call[p].op # "append"
            BY <2>1 DEF EditInv, Shrinking, ftruncate
        <3> QED
            BY <1>0, <3>1, <3>2, <3>3, WorkKeeps
    <2>2. CASE Refuse(p) \/ delete_file_killed(p) \/ close(p) \/ MapFails(p) \/ Crash(p)
        <3>1. Return(p) /\ UNCHANGED <<file, used>> /\ (torn => torn')
            <4>1. torn \in BOOLEAN
                BY DEF EditInv, TypeInv, TypeOK
            <4>2. CASE Crash(p)
                BY <4>1, <4>2 DEF Crash
            <4> QED
                BY <2>2, <4>2 DEF Refuse, delete_file_killed, close, MapFails
        <3> QED
            BY <1>0, <3>1, ReturnKeeps
    <2> QED
        BY <1>0, <2>1, <2>2, PostKeeps, PickKeeps, OpenKeeps, LockedKeeps, ChangeKeeps DEF Step
<1> QED
    BY <1>1, <1>2
-----------------------------------------------------------------------------
(* No holes. *)

Entries == {r \in Record : r.name # NoName}

HolesInv ==
    /\ EditInv
    /\ file \in Seq(Entries)
    /\ \A p \in Proc : pc[p] # "idle" => call[p].rec \in Entries

(* Who is past the lock with more than a delivery is the only one who edits. *)
LEMMA EditorIsSole ==
    ASSUME EditInv, OneEditor, NEW p \in Proc, pc[p] # "idle", call[p].op # "append"
    PROVE  Sole(p)
BY DEF EditInv, OneEditor, Sole, Asked

LEMMA HolesStep ==
    ASSUME OneEditor, HolesInv, [Next]_vars
    PROVE  HolesInv'
<1>1. EditInv'
    BY EditStep DEF HolesInv
<1>2. /\ TypeInv /\ pc \in [Proc -> Stages] /\ call \in [Proc -> Call]
      /\ cut \in [Proc -> Nat]
    BY DEF HolesInv, EditInv, TypeInv, TypeOK
<1>3. CASE UNCHANGED vars
    BY <1>1, <1>3 DEF vars, HolesInv
<1>4. CASE Next
    <2> PICK p \in Proc : Step(p)
        BY <1>4 DEF Next
    <2>1. CASE Post(p)
        <3>1. PICK n \in Name : call' = [call EXCEPT ![p] =
                 [op |-> "append", ent |-> 0, to |-> 0, rec |-> [name |-> n, rev |-> 0]]]
            BY <2>1 DEF Post
        <3>2. [name |-> n, rev |-> 0] \in Entries
            BY NameAssumption DEF Entries, Record
        <3> QED
            BY <1>1, <1>2, <2>1, <3>1, <3>2 DEF HolesInv, Post, Goto
    <2>2. CASE Pick(p)
        <3>1. PICK o \in Ops[p] \ {"append"}, e \in DOMAIN file, t \in DOMAIN file \cup {ToTheEnd} :
                 call' = [call EXCEPT ![p] =
                    [op |-> o, ent |-> e, to |-> t,
                     rec |-> IF o \in {"substitute", "safe_sorted", "safe_linear"}
                             THEN [file[e] EXCEPT !.rev = 1 - @] ELSE file[e]]]
            BY <2>2 DEF Pick
        <3>2. file[e] \in Entries
            BY DEF HolesInv
        <3>3. [file[e] EXCEPT !.rev = 1 - @] \in Entries
            BY <3>2 DEF Entries, Record
        <3>4. call'[p].rec \in Entries
            BY <1>2, <3>1, <3>2, <3>3
        <3> QED
            BY <1>1, <1>2, <2>2, <3>1, <3>4 DEF HolesInv, Pick, Goto
    <2>3. CASE Open(p) \/ f_exlock(p) \/ Interrupted(p)
        BY <1>1, <1>2, <2>3 DEF HolesInv, Open, f_exlock, Interrupted, Goto
    <2>4. CASE Refuse(p) \/ delete_file_killed(p) \/ close(p) \/ MapFails(p) \/ Crash(p)
        <3>1. Return(p) /\ file' = file
            BY <2>4 DEF Refuse, delete_file_killed, close, MapFails, Crash
        <3> QED
            BY <1>1, <1>2, <3>1 DEF HolesInv, Return, Goto
    <2>5. ASSUME file' \in Seq(Entries), NEW s, Worked(p, s)
          PROVE  HolesInv'
        BY <1>1, <1>2, <2>5 DEF HolesInv, Worked, Goto
    <2>6. CASE Change(p)
        <3>1. pc[p] = "locked" /\ \E s : Worked(p, s)
            BY <2>6, ChangeWorks
        <3>2. CASE call[p].op = "append"
            <4>1. file' = Append(file, call[p].rec)
                BY <2>6, <3>2
                   DEF Change, At, append_record, delete_record, delete_file, process_records,
                       substitute_record, safe_substitute_record, move_record, sort_records,
                       Write
            <4> QED
                BY <2>5, <3>1, <4>1 DEF HolesInv
        <3>3. CASE call[p].op # "append"
            <4>1. Current(p)
                BY <3>1, <3>3, EditorIsSole DEF HolesInv, EditInv
            <4>2. snap[p] <= Len(file) /\ call[p].ent <= Len(file)
                BY <3>1, <3>3, <4>1 DEF Current, Opening, HolesInv
            <4>3. Entries \in SUBSET Record /\ file \in Seq(Entries) /\ call[p].rec \in Entries
                BY <3>1 DEF HolesInv, Entries
            <4>4. file' \in Seq(Entries)
                BY <1>2, <2>6, <4>2, <4>3, Written
            <4> QED
                BY <2>5, <3>1, <4>4
        <3> QED
            BY <3>2, <3>3
    <2>7. CASE ftruncate(p)
        <3>1. pc[p] = "moved" /\ Worked(p, "closing") /\ file' = Resized(cut[p])
            BY <2>7, TruncateWorks DEF ftruncate, Write
        <3>2. cut[p] <= snap[p] /\ call[p].op # "append"
            BY <3>1 DEF HolesInv, EditInv, Shrinking
        <3>3. snap[p] <= Len(file)
            BY <3>1, <3>2, EditorIsSole DEF HolesInv, EditInv, Current
        <3>4. cut[p] \in Nat /\ snap[p] \in Nat /\ Len(file) \in Nat
            BY <1>2 DEF TypeInv, TypeOK
        <3>5. cut[p] <= Len(file)
            BY <3>2, <3>3, <3>4
        <3>6. file' \in Seq(Entries)
            BY <3>1, <3>4, <3>5, ResizedType DEF HolesInv
        <3> QED
            BY <2>5, <3>1, <3>6
    <2> QED
        BY <2>1, <2>2, <2>3, <2>4, <2>6, <2>7 DEF Step
<1> QED
    BY <1>3, <1>4

(***************************************************************************)
(* With one process removing and replacing records, and any number that    *)
(* append, no zeroed record ever appears: not after a kill between the     *)
(* memmove and the ftruncate, not after a wait for the lock cut short, not *)
(* when the lock of an mmap that failed is still out.                      *)
(***************************************************************************)
THEOREM NoHolesHolds ==
    ASSUME OneEditor, \A i \in DOMAIN Initial : Initial[i].name # NoName
    PROVE  Spec => []NoHoles
<1>1. Init => HolesInv
    <2> SUFFICES ASSUME Init PROVE HolesInv
        OBVIOUS
    <2>1. Initial \in Seq(Record) /\ \A i \in 1 .. Len(Initial) : Initial[i] \in Entries
        BY InitialAssumption DEF Entries
    <2>2. Initial \in Seq(Entries)
        BY <2>1
    <2> QED
        BY <2>2, EditInit DEF Init, HolesInv
<1>2. HolesInv /\ [Next]_vars => HolesInv'
    BY HolesStep
<1>3. HolesInv => NoHoles
    BY DEF HolesInv, Entries, NoHoles, Zero
<1> QED
    BY <1>1, <1>2, <1>3, PTL DEF Spec
-----------------------------------------------------------------------------
(* What the calls do to the order of a file that no fault cuts short. *)

LEMMA WholeMap ==
    ASSUME TypeInv, NEW p \in Proc, ~Faults(p)
    PROVE  /\ Mapped(p) \in Seq(Record) /\ Len(Mapped(p)) = snap[p]
           /\ \A i \in 1 .. snap[p] :
                 Mapped(p)[i] = IF i \in 1 .. Len(file) THEN file[i] ELSE Zero
<1>1. Reach(snap[p]) \in Nat /\ Reach(snap[p]) <= snap[p] /\ snap[p] \in Nat
      /\ file \in Seq(Record)
    BY ReachType DEF TypeInv, TypeOK
<1>2. Reach(snap[p]) = snap[p]
    BY <1>1 DEF Faults
<1>3. Mapped(p) \in Seq(Record)
    BY <1>1, MappedType, ZeroRecord DEF TypeInv
<1> QED
    BY <1>1, <1>2, <1>3 DEF Mapped

LEMMA RisingIs ==
    ASSUME NEW k \in Nat, NEW S \in SUBSET (Nat \ {0}), NEW f \in Rising(k, S)
    PROVE  /\ f \in Injection(1 .. k, S)
           /\ \A i \in 1 .. k : i <= f[i]
<1>1. f \in [1 .. k -> S] /\ \A i, j \in 1 .. k : i < j => f[i] < f[j]
    BY DEF Rising
<1>2. \A i, j \in 1 .. k : f[i] = f[j] => i = j
    <2>1. ASSUME NEW i \in 1 .. k, NEW j \in 1 .. k, f[i] = f[j], i < j
          PROVE  FALSE
        <3>1. f[i] < f[j] /\ f[i] \in Nat
            BY <1>1, <2>1
        <3> QED
            BY <2>1, <3>1
    <2>2. \A i, j \in 1 .. k : i = j \/ i < j \/ j < i
        OBVIOUS
    <2> QED
        BY <2>1, <2>2
<1>3. ASSUME NEW i \in 1 .. k PROVE i <= f[i]
    <2> DEFINE g == [j \in 1 .. i |-> f[j]]
    <2>1. f[i] \in Nat /\ i \in Nat
        <3>1. f[i] \in S /\ S \subseteq Nat
            BY <1>1
        <3>2. i \in Nat
            OBVIOUS
        <3> QED
            BY <3>1, <3>2
    <2>2. \A j \in 1 .. i : j \in 1 .. k /\ f[j] \in 1 .. f[i]
        <3>1. ASSUME NEW j \in 1 .. i PROVE j \in 1 .. k /\ f[j] \in 1 .. f[i]
            <4>1. j \in 1 .. k /\ (j < i \/ j = i)
                OBVIOUS
            <4>2. f[j] \in Nat \ {0} /\ (f[j] < f[i] \/ f[j] = f[i])
                BY <1>1, <4>1
            <4> QED
                BY <2>1, <4>1, <4>2
        <3> QED
            BY <3>1
    <2>3. g \in Injection(1 .. i, 1 .. f[i])
        BY <1>2, <2>2 DEF Injection, IsInjective
    <2>4. IsFiniteSet(1 .. f[i]) /\ Cardinality(1 .. f[i]) = f[i] /\ Cardinality(1 .. i) = i
        BY <2>1, IntervalSize
    <2> HIDE DEF g
    <2> QED
        BY <2>3, <2>4, FS_Injection
<1> QED
    BY <1>1, <1>2, <1>3 DEF Injection, IsInjective

(***************************************************************************)
(* A removal: entry i of the first k is the old entry f[i], and the others *)
(* of the mapping are among those removed.                                 *)
(***************************************************************************)
Packed(p, f, k) ==
    /\ k \in Nat /\ k <= snap[p] /\ f \in Rising(k, 1 .. snap[p]) /\ cut'[p] = k
    /\ Len(file') = Len(file)
    /\ \A i \in 1 .. Len(file) :
          /\ i <= k => file'[i] = IF f[i] <= Len(file) THEN file[f[i]] ELSE Zero
          /\ k < i => file'[i] = file[i]
          /\ i <= snap[p] => (\E n \in 1 .. k : f[n] = i) \/ file[i].name \in gone'

LEMMA DeletesOne ==
    ASSUME TypeInv, NEW p \in Proc, ~Faults(p), NEW id \in 1 .. snap[p], NEW names,
           Moved(p, Stored(Shifted(Mapped(p), id)), snap[p] - 1, names),
           id <= Len(file) => file[id].name \in names
    PROVE  \E f, k : Packed(p, f, k)
<1> DEFINE m == Mapped(p)
           s == snap[p]
           f == [i \in 1 .. s - 1 |-> IF i < id THEN i ELSE i + 1]
<1>0. id \in 1 .. s
    OBVIOUS
<1>1. /\ file \in Seq(Record) /\ s \in Nat /\ cut \in [Proc -> Nat]
      /\ m \in Seq(Record) /\ Len(m) = s
      /\ \A i \in 1 .. s : m[i] = IF i \in 1 .. Len(file) THEN file[i] ELSE Zero
    BY WholeMap DEF TypeInv, TypeOK
<1>2. /\ file' = Stored(Shifted(m, id)) /\ cut' = [cut EXCEPT ![p] = s - 1]
      /\ gone' = gone \cup names
    BY DEF Moved
<1> HIDE DEF m, s
<1>3. f \in Rising(s - 1, 1 .. s)
    <2>1. \A i \in 1 .. s - 1 : (IF i < id THEN i ELSE i + 1) \in 1 .. s
        BY <1>1
    <2>2. \A i, j \in 1 .. s - 1 : i < j => f[i] < f[j]
        BY <1>0, <1>1
    <2> QED
        BY <2>1, <2>2 DEF Rising
<1>4. ASSUME NEW i \in 1 .. Len(file)
      PROVE  file'[i] = IF i < s THEN m[f[i]] ELSE file[i]
    <2>1. file'[i] = IF i \in 1 .. s THEN Shifted(m, id)[i] ELSE file[i]
        <3>1. DOMAIN Shifted(m, id) = 1 .. s
            BY <1>1 DEF Shifted
        <3> QED
            BY <1>1, <1>2, <3>1 DEF Stored
    <2>2. CASE i < s
        <3>1. i \in 1 .. s - 1 /\ i \in 1 .. s /\ i + 1 \in 1 .. s
            BY <1>1, <2>2
        <3>2. Shifted(m, id)[i] = m[IF id <= i THEN i + 1 ELSE i]
            BY <1>1, <3>1 DEF Shifted
        <3>3. f[i] = IF id <= i THEN i + 1 ELSE i
            BY <1>0, <1>1, <3>1
        <3> QED
            BY <2>1, <2>2, <3>1, <3>2, <3>3
    <2>3. CASE i = s
        <3>1. i \in 1 .. s /\ i + 1 \notin 1 .. s
            BY <1>1, <2>3
        <3>2. Shifted(m, id)[i] = m[i] /\ m[i] = file[i]
            BY <1>1, <3>1 DEF Shifted
        <3> QED
            BY <1>1, <2>1, <2>3, <3>1, <3>2
    <2>4. CASE i > s
        BY <1>1, <2>1, <2>4
    <2> QED
        BY <1>1, <2>2, <2>3, <2>4
<1>5. Len(file') = Len(file)
    BY <1>1, <1>2 DEF Stored
<1>6. ASSUME NEW i \in 1 .. Len(file), i <= s
      PROVE  (\E n \in 1 .. s - 1 : f[n] = i) \/ i = id
    <2>1. CASE i < id
        <3>1. i \in 1 .. s - 1 /\ f[i] = i
            BY <1>0, <1>1, <2>1
        <3> QED
            BY <3>1
    <2>2. CASE id < i
        <3>1. i - 1 \in 1 .. s - 1 /\ f[i - 1] = i
            BY <1>0, <1>1, <1>6, <2>2
        <3> QED
            BY <3>1
    <2> QED
        BY <1>0, <2>1, <2>2
<1>7. ASSUME NEW i \in 1 .. Len(file), i <= s - 1
      PROVE  file'[i] = IF f[i] <= Len(file) THEN file[f[i]] ELSE Zero
    <2>1. f[i] \in 1 .. s
        BY <1>1, <1>7 DEF s
    <2> HIDE DEF f
    <2> QED
        BY <1>1, <1>4, <1>7, <2>1
<1>8. s - 1 \in Nat /\ s - 1 <= s
    BY <1>1 DEF s
<1> HIDE DEF f
<1>9. Packed(p, f, s - 1)
    <2>1. cut'[p] = s - 1
        BY <1>1, <1>2
    <2>2. ASSUME NEW i \in 1 .. Len(file)
          PROVE  /\ i <= s - 1 => file'[i] = IF f[i] <= Len(file) THEN file[f[i]] ELSE Zero
                 /\ s - 1 < i => file'[i] = file[i]
        <3>1. s - 1 < i => ~(i < s)
            BY <1>1
        <3> QED
            BY <1>4, <1>7, <3>1
    <2>3. ASSUME NEW i \in 1 .. Len(file), i <= s
          PROVE  (\E n \in 1 .. s - 1 : f[n] = i) \/ file[i].name \in gone'
        <3>1. i = id => file[i].name \in names
            OBVIOUS
        <3> QED
            BY <1>2, <1>6, <2>3, <3>1
    <2> QED
        BY <1>3, <1>5, <1>8, <2>1, <2>2, <2>3 DEF Packed, s
<1> QED
    BY <1>9

LEMMA DeletesRange ==
    ASSUME TypeInv, NEW p \in Proc, ~Faults(p), process_records(p), pc'[p] = "moved"
    PROVE  \E f, k : Packed(p, f, k)
<1> DEFINE m == Mapped(p)
           s == snap[p]
           stay == Staying(m, call[p].ent, call[p].to)
           k == Cardinality(stay)
           dropped == {m[i].name : i \in {j \in DOMAIN m : /\ call[p].ent <= j
                                                           /\ j <= call[p].to
                                                           /\ ~Kept(m[j])}}
           joined(c) == [i \in DOMAIN m |-> IF i <= Len(c) THEN c[i] ELSE m[i]]
<1>1. /\ file \in Seq(Record) /\ s \in Nat /\ cut \in [Proc -> Nat] /\ pc \in [Proc -> Stages]
      /\ m \in Seq(Record) /\ Len(m) = s
      /\ \A i \in 1 .. s : m[i] = IF i \in 1 .. Len(file) THEN file[i] ELSE Zero
      /\ call[p].ent \in Nat /\ call[p].to \in Nat
    BY WholeMap DEF TypeInv, TypeOK, Call
<1>2. PICK c \in Compacted(m, call[p].ent, call[p].to) :
         Moved(p, Stored(joined(c)), s - (Len(m) - Len(c)), dropped)
    BY <1>1 DEF process_records, GiveUp, Write, Goto
<1> HIDE DEF m
<1>3. /\ IsFiniteSet(stay) /\ k \in Nat /\ k <= Len(m)
      /\ \E f \in Rising(k, stay) : c = [i \in 1 .. k |-> m[f[i]]]
    BY <1>1, CompactedIs
<1>4. PICK f \in Rising(k, stay) : c = [i \in 1 .. k |-> m[f[i]]]
    BY <1>3
<1>5. stay \subseteq 1 .. s
    BY <1>1 DEF Staying
<1>6. Len(c) = k /\ \A i \in 1 .. k : c[i] = m[f[i]]
    <2> HIDE DEF k
    <2> QED
        BY <1>3, <1>4
<1>7. f \in Rising(k, 1 .. s)
    BY <1>5 DEF Rising
<1>8. f \in Surjection(1 .. k, stay)
    <2>1. f \in Injection(1 .. k, stay)
        <3>1. stay \in SUBSET (Nat \ {0})
            BY <1>1, <1>5
        <3> QED
            BY <1>3, <3>1, RisingIs
    <2>2. Cardinality(1 .. k) = k
        BY <1>3, IntervalSize
    <2> QED
        BY <1>3, <2>1, <2>2, FS_Injection
<1>9. \A i \in 1 .. s : (\E n \in 1 .. k : f[n] = i) \/ m[i].name \in dropped
    <2>1. ASSUME NEW i \in 1 .. s, i \notin stay PROVE m[i].name \in dropped
        <3>1. i \in DOMAIN m
            BY <1>1
        <3>2. call[p].ent <= i /\ i <= call[p].to /\ ~Kept(m[i])
            BY <1>1, <2>1, <3>1 DEF Staying
        <3> QED
            BY <3>1, <3>2
    <2>2. \A i \in stay : \E n \in 1 .. k : f[n] = i
        BY <1>8 DEF Surjection
    <2> QED
        BY <2>1, <2>2
<1>10. /\ file' = Stored(joined(c)) /\ cut'[p] = k /\ gone' = gone \cup dropped
    <2> HIDE DEF k, joined, dropped
    <2>1. s - (Len(m) - Len(c)) = k
        BY <1>1, <1>3, <1>6
    <2> QED
        BY <1>1, <1>2, <2>1 DEF Moved
<1>11. Len(file') = Len(file)
    BY <1>1, <1>10 DEF Stored
<1> HIDE DEF k, dropped
<1>12. ASSUME NEW i \in 1 .. Len(file)
       PROVE  /\ i <= k => file'[i] = m[f[i]]
              /\ k < i => file'[i] = file[i]
    <2>1. file'[i] = IF i \in 1 .. s THEN joined(c)[i] ELSE file[i]
        BY <1>1, <1>10 DEF Stored
    <2>2. i \in 1 .. s => joined(c)[i] = IF i <= k THEN c[i] ELSE m[i]
        BY <1>1, <1>6
    <2>3. i <= k => i \in 1 .. s /\ i \in 1 .. k
        BY <1>1, <1>3
    <2>4. k < i /\ i \in 1 .. s => m[i] = file[i] /\ ~(i <= k)
        BY <1>1, <1>3
    <2> HIDE DEF joined
    <2> QED
        BY <1>6, <2>1, <2>2, <2>3, <2>4
<1>13. \A i \in 1 .. k : f[i] \in 1 .. s
    BY <1>7 DEF Rising
<1> HIDE DEF stay
<1>14. ASSUME NEW i \in 1 .. Len(file)
       PROVE  /\ i <= k => file'[i] = IF f[i] <= Len(file) THEN file[f[i]] ELSE Zero
              /\ k < i => file'[i] = file[i]
              /\ i <= s => (\E n \in 1 .. k : f[n] = i) \/ file[i].name \in gone'
    <2>1. i <= k => file'[i] = IF f[i] <= Len(file) THEN file[f[i]] ELSE Zero
        <3>1. i <= k => i \in 1 .. k
            BY <1>3
        <3>2. i <= k => file'[i] = m[f[i]] /\ f[i] \in 1 .. s
            BY <1>12, <1>13, <3>1
        <3> QED
            BY <1>1, <3>2
    <2>2. i <= s => (\E n \in 1 .. k : f[n] = i) \/ file[i].name \in gone'
        <3>1. i <= s => i \in 1 .. s /\ m[i] = file[i]
            BY <1>1
        <3> QED
            BY <1>9, <1>10, <3>1
    <2> QED
        BY <1>12, <2>1, <2>2
<1>15. Packed(p, f, k)
    BY <1>1, <1>3, <1>7, <1>10, <1>11, <1>14 DEF Packed
<1> QED
    BY <1>15

LEMMA Packs ==
    ASSUME TypeInv, NEW p \in Proc, Change(p), ~torn', pc'[p] = "moved"
    PROVE  \E f, k : Packed(p, f, k)
<1>1. ~Faults(p) /\ pc \in [Proc -> Stages] /\ file \in Seq(Record)
      /\ snap[p] \in Nat /\ call[p].ent \in Nat
    BY ChangeWorks DEF TypeInv, TypeOK, Call
<1>2. ~(\E f : Write(p, f))
    BY <1>1 DEF Write, Goto
<1>3. CASE delete_record(p)
    <2>1. call[p].ent \in 1 .. snap[p]
        BY <1>1, <1>2, <1>3 DEF delete_record, GiveUp, At, TypeInv, Counted
    <2> QED
        <3> DEFINE names == IF call[p].ent \in DOMAIN file
                            THEN {file[call[p].ent].name} ELSE {}
        <3>1. Moved(p, Stored(Shifted(Mapped(p), call[p].ent)), snap[p] - 1, names)
            BY <1>2, <1>3 DEF delete_record, GiveUp
        <3>2. call[p].ent <= Len(file) => file[call[p].ent].name \in names
            BY <1>1, <2>1
        <3> HIDE DEF names
        <3> QED
            BY <1>1, <2>1, <3>1, <3>2, DeletesOne
<1>4. CASE delete_file(p)
    <2> DEFINE m == Mapped(p)
               id == FindName(m, call[p].ent, call[p].rec.name)
    <2>1. id # 0 /\ Moved(p, Stored(Shifted(m, id)), snap[p] - 1, {call[p].rec.name})
        BY <1>2, <1>4 DEF delete_file, GiveUp
    <2>2. /\ m \in Seq(Record) /\ Len(m) = snap[p]
          /\ \A i \in 1 .. snap[p] : m[i] = IF i \in 1 .. Len(file) THEN file[i] ELSE Zero
        BY <1>1, WholeMap
    <2>3. id \in DOMAIN m /\ m[id].name = call[p].rec.name
        BY <2>1, <2>2, FoundName
    <2> HIDE DEF id
    <2>4. id \in 1 .. snap[p] /\ (id <= Len(file) => file[id].name \in {call[p].rec.name})
        BY <1>1, <2>2, <2>3
    <2> QED
        BY <1>1, <2>1, <2>4, DeletesOne
<1>5. CASE process_records(p)
    BY <1>1, <1>5, DeletesRange
<1> QED
    BY <1>2, <1>3, <1>4, <1>5
       DEF Change, append_record, substitute_record, safe_substitute_record,
           move_record, sort_records, GiveUp
(* The record a replacement finds has the name it looks for. *)
LEMMA FoundSorted ==
    ASSUME NEW m \in Seq(Record), NEW size, NEW ent, NEW rec,
           FindSorted(m, size, ent, rec) # 0
    PROVE  /\ FindSorted(m, size, ent, rec) \in DOMAIN m
           /\ m[FindSorted(m, size, ent, rec)].name = rec.name
<1> DEFINE e == Smaller(ent, size)
           low == LowerBound(m, size, TimeOf(rec))
           hits == {i \in DOMAIN m : /\ low < i
                                     /\ m[i].name = rec.name
                                     /\ \A j \in low + 1 .. i : TimeOf(m[j]) = TimeOf(rec)}
<1>1. hits \in SUBSET Nat /\ \A i \in hits : i \in DOMAIN m /\ m[i].name = rec.name
    OBVIOUS
<1>2. FindSorted(m, size, ent, rec) =
         IF e \notin DOMAIN m THEN 0
         ELSE IF m[e].name = rec.name THEN e
         ELSE IF hits = {} THEN 0 ELSE CHOOSE i \in hits : \A j \in hits : i <= j
    BY DEF FindSorted
<1> HIDE DEF hits, e
<1>3. hits # {} => \E i \in hits : \A j \in hits : i <= j
    BY <1>1, Least
<1> QED
    BY <1>1, <1>2, <1>3

LEMMA FoundLinear ==
    ASSUME NEW m \in Seq(Record), NEW size, NEW ent, NEW rec,
           FindLinear(m, size, ent, rec) # 0
    PROVE  /\ FindLinear(m, size, ent, rec) \in DOMAIN m
           /\ m[FindLinear(m, size, ent, rec)].name = rec.name
<1> DEFINE e == Smaller(ent, size)
           hits == {i \in DOMAIN m : m[i].name = rec.name}
           below == {i \in hits : i <= e}
<1>1. /\ hits \in SUBSET Nat /\ below \subseteq hits /\ Len(m) \in Nat
      /\ below \in SUBSET (0 .. Len(m))
      /\ \A i \in hits : i \in DOMAIN m /\ m[i].name = rec.name
    OBVIOUS
<1>2. FindLinear(m, size, ent, rec) =
         IF e \notin DOMAIN m \/ hits = {} THEN 0
         ELSE IF below # {} THEN CHOOSE i \in below : \A j \in below : j <= i
         ELSE CHOOSE i \in hits : \A j \in hits : i <= j
    BY DEF FindLinear
<1> HIDE DEF hits, below, e
<1>3. hits # {} => \E i \in hits : \A j \in hits : i <= j
    BY <1>1, Least
<1>4. below # {} => \E i \in below : \A j \in below : j <= i
    BY <1>1, Greatest
<1> QED
    BY <1>1, <1>2, <1>3, <1>4

(* Replacing leaves every name where it was. *)
SameNames ==
    /\ Len(file') = Len(file)
    /\ \A i \in 1 .. Len(file) : file'[i].name = file[i].name

LEMMA Replaces ==
    ASSUME EditInv, NEW p \in Proc, Change(p), ~torn', pc'[p] = "closing",
           call[p].op \notin {"append", "move", "sort"},
           call[p].op = "substitute" => Sole(p)
    PROVE  SameNames
<1> DEFINE m == Mapped(p)
<1>1. /\ TypeInv /\ ~Faults(p) /\ pc[p] = "locked" /\ pc \in [Proc -> Stages]
      /\ file \in Seq(Record) /\ call[p].rec \in Record /\ Len(file) \in Nat
    <2>1. /\ TypeInv /\ ~Faults(p) /\ pc[p] = "locked" /\ pc \in [Proc -> Stages]
          /\ file \in Seq(Record) /\ call[p] \in Call
        BY ChangeWorks DEF EditInv, TypeInv, TypeOK
    <2> QED
        BY <2>1 DEF Call
<1>2. CASE GiveUp(p)
    BY <1>2 DEF GiveUp, Write, SameNames
<1>3. CASE substitute_record(p)
    <2> DEFINE e == call[p].ent
               n == IF e > Len(file) THEN e ELSE Len(file)
    <2>1. e \in 1 .. Len(file) /\ call[p].rec.name = file[e].name
        BY <1>1, <1>3 DEF substitute_record, At, EditInv, Current, Opening
    <2>2. file' = [Resized(n) EXCEPT ![e] = call[p].rec] /\ n = Len(file)
        BY <1>1, <1>3, <2>1 DEF substitute_record, Write
    <2>3. Resized(Len(file)) = file
        BY <1>1 DEF Resized
    <2> QED
        BY <1>1, <2>1, <2>2, <2>3 DEF SameNames
<1>4. CASE safe_substitute_record(p) /\ ~GiveUp(p)
    <2>1. PICK id : /\ id \in {FindSorted(m, snap[p], call[p].ent, call[p].rec),
                              FindLinear(m, snap[p], call[p].ent, call[p].rec)}
                    /\ id # 0
                    /\ file' = Stored([m EXCEPT ![id] = call[p].rec])
        BY <1>4 DEF safe_substitute_record, Write
    <2>2. /\ m \in Seq(Record) /\ Len(m) = snap[p]
          /\ \A i \in 1 .. snap[p] : m[i] = IF i \in 1 .. Len(file) THEN file[i] ELSE Zero
        BY <1>1, WholeMap
    <2> HIDE DEF m
    <2>3. id \in DOMAIN m /\ m[id].name = call[p].rec.name
        BY <2>1, <2>2, FoundSorted, FoundLinear
    <2> DEFINE w == [m EXCEPT ![id] = call[p].rec]
    <2>4. /\ DOMAIN w = 1 .. snap[p]
          /\ \A i \in 1 .. snap[p] : w[i].name = m[i].name
        BY <1>1, <2>2, <2>3
    <2> HIDE DEF w
    <2>5. ASSUME NEW i \in 1 .. Len(file) PROVE file'[i].name = file[i].name
        <3>1. file'[i] = IF i \in 1 .. snap[p] THEN w[i] ELSE file[i]
            BY <1>1, <2>1, <2>4 DEF Stored, w
        <3> QED
            BY <2>2, <2>4, <3>1
    <2>6. Len(file') = Len(file)
        BY <1>1, <2>1 DEF Stored
    <2> QED
        BY <2>5, <2>6 DEF SameNames
<1>5. ~(\E f, n, names : Moved(p, f, n, names))
    BY <1>1 DEF Moved, Goto
<1> QED
    BY <1>2, <1>3, <1>4, <1>5
       DEF Change, At, append_record, delete_record, delete_file, process_records,
           move_record, sort_records

(***************************************************************************)
(* A reordering: entry i is the old entry g[i], of a mapping that may      *)
(* reach past the end of the file by now.                                  *)
(***************************************************************************)
Width(p) == IF snap[p] <= Len(file) THEN Len(file) ELSE snap[p]

Reordered(p, g) ==
    /\ Len(file') = Len(file)
    /\ g \in Injection(1 .. Width(p), 1 .. Width(p))
    /\ \A i \in 1 .. Len(file) : file'[i] = IF g[i] <= Len(file) THEN file[g[i]] ELSE Zero

LEMMA PermutesMap ==
    ASSUME TypeInv, NEW p \in Proc, ~Faults(p), NEW h \in Injection(1 .. snap[p], 1 .. snap[p]),
           file' = Stored([i \in DOMAIN Mapped(p) |-> Mapped(p)[h[i]]])
    PROVE  \E g : Reordered(p, g)
<1> DEFINE m == Mapped(p)
           s == snap[p]
           g == [i \in 1 .. Width(p) |-> IF i <= s THEN h[i] ELSE i]
           w == [i \in DOMAIN m |-> m[h[i]]]
<1>1. /\ file \in Seq(Record) /\ s \in Nat /\ Len(file) \in Nat
      /\ m \in Seq(Record) /\ Len(m) = s
      /\ \A i \in 1 .. s : m[i] = IF i \in 1 .. Len(file) THEN file[i] ELSE Zero
    BY WholeMap DEF TypeInv, TypeOK
<1>2. Width(p) \in Nat /\ s <= Width(p) /\ Len(file) <= Width(p)
    BY <1>1 DEF Width
<1>3. /\ \A i \in 1 .. s : h[i] \in 1 .. s
      /\ \A i, j \in 1 .. s : h[i] = h[j] => i = j
    BY DEF Injection, IsInjective
<1> HIDE DEF m
<1>4. g \in Injection(1 .. Width(p), 1 .. Width(p))
    <2> HIDE DEF s
    <2>1. \A i \in 1 .. Width(p) : g[i] \in 1 .. Width(p)
        BY <1>1, <1>2, <1>3
    <2>2. \A i, j \in 1 .. Width(p) : g[i] = g[j] => i = j
        BY <1>1, <1>2, <1>3
    <2> HIDE DEF g
    <2>3. g \in [1 .. Width(p) -> 1 .. Width(p)]
        BY <2>1 DEF g
    <2> QED
        BY <2>2, <2>3 DEF Injection, IsInjective
<1>5. Len(file') = Len(file)
    BY <1>1 DEF Stored, m
<1>6. DOMAIN w = 1 .. s /\ \A i \in 1 .. s : w[i] = m[h[i]]
    BY <1>1
<1>7. ASSUME NEW i \in 1 .. Len(file)
      PROVE  file'[i] = IF g[i] <= Len(file) THEN file[g[i]] ELSE Zero
    <2>1. file'[i] = IF i \in DOMAIN w THEN w[i] ELSE file[i]
        BY <1>1 DEF Stored, m
    <2>2. g[i] = IF i <= s THEN h[i] ELSE i
        BY <1>1, <1>2
    <2> HIDE DEF g, w
    <2>3. CASE i <= s
        <3>1. i \in 1 .. s /\ h[i] \in 1 .. s /\ g[i] = h[i] /\ file'[i] = m[h[i]]
            BY <1>1, <1>3, <1>6, <2>1, <2>2, <2>3
        <3> QED
            BY <1>1, <3>1
    <2>4. CASE ~(i <= s)
        BY <1>1, <1>6, <2>1, <2>2, <2>4
    <2> QED
        BY <2>3, <2>4
<1> HIDE DEF g
<1>8. Reordered(p, g)
    BY <1>4, <1>5, <1>7 DEF Reordered
<1> QED
    BY <1>8

LEMMA Reorders ==
    ASSUME EditInv, NEW p \in Proc, Change(p), ~torn', call[p].op \in {"move", "sort"}
    PROVE  \E g : Reordered(p, g)
<1> DEFINE m == Mapped(p)
           s == snap[p]
<1>1. /\ TypeInv /\ ~Faults(p) /\ pc[p] = "locked" /\ s \in Nat
      /\ file \in Seq(Record) /\ call[p] \in Call
    BY ChangeWorks DEF EditInv, TypeInv, TypeOK
<1>2. m \in Seq(Record) /\ Len(m) = s /\ DOMAIN m = 1 .. s
    BY <1>1, WholeMap
<1>3. CASE move_record(p)
    <2> DEFINE src == call[p].ent
               dst == call[p].to
               h == IF src < dst
                    THEN [i \in 1 .. s |-> IF src <= i /\ i < dst THEN i + 1
                                           ELSE IF i = dst THEN src ELSE i]
                    ELSE [i \in 1 .. s |-> IF i = dst THEN src
                                           ELSE IF dst < i /\ i <= src THEN i - 1 ELSE i]
    <2>1. src \in 1 .. s /\ dst \in 1 .. s
        <3>1. src \in Nat /\ dst \in Nat
            BY <1>1 DEF Call
        <3>2. src # 0 /\ dst # 0
            BY <1>1, <1>3 DEF TypeInv, Counted, move_record, At
        <3>3. ~(src > s) /\ ~(dst > s)
            BY <1>1, <1>3 DEF EditInv, Checked, Refused, move_record, At
        <3> QED
            BY <1>1, <3>1, <3>2, <3>3
    <2> HIDE DEF m, s, src, dst
    <2>2. h \in Injection(1 .. s, 1 .. s)
        <3>1. h \in [1 .. s -> 1 .. s]
            BY <1>1, <2>1
        <3>2. \A i, j \in 1 .. s : h[i] = h[j] => i = j
            BY <1>1, <2>1
        <3> HIDE DEF h
        <3> QED
            BY <3>1, <3>2 DEF Injection, IsInjective
    <2>3. Relocated(m, src, dst) = [i \in DOMAIN m |-> m[h[i]]]
        <3>1. src \in DOMAIN m /\ DOMAIN m = 1 .. s
            BY <1>2, <2>1 DEF m, s
        <3>2. \A i \in 1 .. s : m[h[i]] =
                 IF src < dst
                 THEN IF src <= i /\ i < dst /\ i + 1 \in DOMAIN m THEN m[i + 1]
                      ELSE IF i = dst THEN m[src] ELSE m[i]
                 ELSE IF i = dst THEN m[src]
                      ELSE IF dst < i /\ i <= src THEN m[i - 1] ELSE m[i]
            BY <1>1, <2>1, <3>1
        <3> HIDE DEF h
        <3>3. CASE src < dst
            BY <3>1, <3>2, <3>3 DEF Relocated
        <3>4. CASE ~(src < dst)
            BY <3>1, <3>2, <3>4 DEF Relocated
        <3> QED
            BY <3>3, <3>4
    <2>4. file' = Stored(Relocated(m, src, dst))
        BY <1>3 DEF move_record, Write, m, src, dst
    <2> HIDE DEF h
    <2>5. file' = Stored([i \in DOMAIN m |-> m[h[i]]])
        BY <2>3, <2>4
    <2> QED
        BY <1>1, <2>2, <2>5, PermutesMap DEF m, s
<1>4. CASE sort_records(p) /\ snap[p] # 0
    <2>1. PICK f \in {g \in [DOMAIN m -> DOMAIN m] :
                         \A i, j \in DOMAIN m : g[i] = g[j] => i = j} :
             file' = Stored([i \in DOMAIN m |-> m[f[i]]])
        BY <1>1, <1>4 DEF sort_records, Write
    <2>2. f \in Injection(1 .. s, 1 .. s)
        BY <1>2, <2>1 DEF Injection, IsInjective
    <2> QED
        BY <1>1, <2>1, <2>2, PermutesMap
<1>5. CASE sort_records(p) /\ snap[p] = 0
    <2> DEFINE g == [i \in 1 .. Width(p) |-> i]
    <2>1. Width(p) = Len(file)
        BY <1>1, <1>5 DEF Width
    <2>2. file' = file
        BY <1>5 DEF sort_records, GiveUp, Write
    <2>3. Reordered(p, g)
        BY <1>1, <2>1, <2>2 DEF Reordered, Injection, IsInjective
    <2> QED
        BY <2>3
<1> QED
    BY <1>3, <1>4, <1>5
       DEF Change, At, append_record, delete_record, delete_file, process_records,
           substitute_record, safe_substitute_record
(* The steps that leave the file alone, as long as no call is torn. *)
LEMMA LeavesFile ==
    ASSUME EditInv, NEW p \in Proc, Step(p), ~Change(p), ~ftruncate(p), ~torn'
    PROVE  /\ ~torn /\ file' = file /\ gone' = gone
           /\ \A q \in Proc :
                 /\ pc'[q] = "moved" <=> pc[q] = "moved"
                 /\ pc[q] = "moved" => cut'[q] = cut[q] /\ snap'[q] = snap[q]
<1>1. /\ pc \in [Proc -> Stages] /\ snap \in [Proc -> Nat] /\ cut \in [Proc -> Nat]
      /\ torn \in BOOLEAN
    BY DEF EditInv, TypeInv, TypeOK
<1>2. CASE Post(p) \/ Pick(p) \/ f_exlock(p)
    BY <1>1, <1>2 DEF Post, Pick, f_exlock, Goto
<1>3. CASE Open(p)
    BY <1>1, <1>3 DEF Open, Goto
<1>4. CASE Refuse(p) \/ delete_file_killed(p) \/ close(p) \/ MapFails(p) \/ Crash(p)
    <2>1. /\ Return(p) /\ file' = file /\ gone' = gone /\ pc[p] # "moved" /\ ~torn
        <3>1. CASE Crash(p)
            BY <1>1, <3>1 DEF Crash
        <3> QED
            BY <1>4, <3>1 DEF Refuse, delete_file_killed, close, MapFails, At
    <2> QED
        BY <1>1, <2>1 DEF Return, Goto
<1>5. CASE Interrupted(p)
    BY <1>5 DEF Interrupted
<1> QED
    BY <1>2, <1>3, <1>4, <1>5 DEF Step

-----------------------------------------------------------------------------
(* No duplicates. *)

Distinct(f, n) ==
    \A i, j \in 1 .. Len(f) : i <= n /\ j <= n /\ f[i].name = f[j].name /\ f[i].name # NoName
                                 => i = j

\* While an entry is being removed, those that will stay.
DupInv ==
    /\ EditInv
    /\ ~torn => /\ (\A p \in Proc : pc[p] # "moved") => Distinct(file, Len(file))
                /\ \A p \in Proc : pc[p] = "moved" => Distinct(file, cut[p])

LEMMA PackedDistinct ==
    ASSUME TypeInv, NEW p \in Proc, NEW f, NEW k, Packed(p, f, k), Distinct(file, Len(file))
    PROVE  Distinct(file', k)
<1>1. /\ k \in Nat /\ snap[p] \in Nat /\ Len(file) \in Nat /\ Len(file') = Len(file)
      /\ f \in Injection(1 .. k, 1 .. snap[p])
    <2>1. /\ k \in Nat /\ snap[p] \in Nat /\ Len(file) \in Nat /\ Len(file') = Len(file)
          /\ f \in Rising(k, 1 .. snap[p])
        BY DEF Packed, TypeInv, TypeOK
    <2>2. 1 .. snap[p] \in SUBSET (Nat \ {0})
        BY <2>1
    <2> QED
        BY <2>1, <2>2, RisingIs
<1> SUFFICES ASSUME NEW i \in 1 .. Len(file), NEW j \in 1 .. Len(file), i <= k, j <= k,
                    file'[i].name = file'[j].name, file'[i].name # NoName
             PROVE  i = j
    BY <1>1 DEF Distinct
<1>2. /\ i \in 1 .. k /\ j \in 1 .. k /\ f[i] \in Nat /\ f[i] >= 1 /\ f[j] \in Nat /\ f[j] >= 1
      /\ f[i] = f[j] => i = j
    BY <1>1 DEF Injection, IsInjective
<1>3. /\ file'[i] = IF f[i] <= Len(file) THEN file[f[i]] ELSE Zero
      /\ file'[j] = IF f[j] <= Len(file) THEN file[f[j]] ELSE Zero
    BY DEF Packed
<1>4. f[i] \in 1 .. Len(file) /\ f[j] \in 1 .. Len(file)
    BY <1>1, <1>2, <1>3 DEF Zero
<1>5. file[f[i]].name = file[f[j]].name /\ file[f[i]].name # NoName
    BY <1>3, <1>4
<1> QED
    BY <1>1, <1>2, <1>4, <1>5 DEF Distinct

LEMMA ReorderedDistinct ==
    ASSUME TypeInv, NEW p \in Proc, NEW g, Reordered(p, g), Distinct(file, Len(file))
    PROVE  Distinct(file', Len(file'))
<1>1. /\ snap[p] \in Nat /\ Len(file) \in Nat /\ Len(file') = Len(file)
    BY DEF TypeInv, TypeOK, Reordered
<1>2. Width(p) \in Nat /\ Len(file) <= Width(p)
    BY <1>1 DEF Width
<1> SUFFICES ASSUME NEW i \in 1 .. Len(file), NEW j \in 1 .. Len(file),
                    file'[i].name = file'[j].name, file'[i].name # NoName
             PROVE  i = j
    BY <1>1 DEF Distinct
<1>3. /\ i \in 1 .. Width(p) /\ j \in 1 .. Width(p)
      /\ g[i] \in Nat /\ g[i] >= 1 /\ g[j] \in Nat /\ g[j] >= 1
      /\ g[i] = g[j] => i = j
    BY <1>1, <1>2 DEF Reordered, Injection, IsInjective
<1>4. /\ file'[i] = IF g[i] <= Len(file) THEN file[g[i]] ELSE Zero
      /\ file'[j] = IF g[j] <= Len(file) THEN file[g[j]] ELSE Zero
    BY DEF Reordered
<1>5. g[i] \in 1 .. Len(file) /\ g[j] \in 1 .. Len(file)
    BY <1>1, <1>3, <1>4 DEF Zero
<1>6. file[g[i]].name = file[g[j]].name /\ file[g[i]].name # NoName
    BY <1>4, <1>5
<1> QED
    BY <1>1, <1>3, <1>5, <1>6 DEF Distinct

LEMMA DupChange ==
    ASSUME NumberedAlone, DupInv, NEW p \in Proc, Change(p), ~torn'
    PROVE  /\ (\A q \in Proc : pc'[q] # "moved") => Distinct(file', Len(file'))
           /\ \A q \in Proc : pc'[q] = "moved" => Distinct(file', cut'[q])
<1>1. /\ TypeInv /\ EditInv /\ pc \in [Proc -> Stages] /\ torn \in BOOLEAN
      /\ file \in Seq(Record) /\ Len(file) \in Nat /\ call[p] \in Call
    BY DEF DupInv, EditInv, TypeInv, TypeOK
<1>2. /\ ~torn /\ pc[p] = "locked"
      /\ pc' = [pc EXCEPT ![p] = "closing"] \/ pc' = [pc EXCEPT ![p] = "moved"]
    BY <1>1, ChangeWorks DEF Worked, Goto
<1>3. \A q \in Proc : pc[q] # "moved"
    BY <1>1, <1>2, OneWorker DEF Critical
<1>4. Distinct(file, Len(file))
    BY <1>2, <1>3 DEF DupInv
<1>5. CASE pc'[p] = "moved"
    <2>1. PICK f, k : Packed(p, f, k)
        BY <1>1, <1>5, Packs
    <2>2. cut'[p] = k /\ Distinct(file', k)
        <3>1. Distinct(file', k)
            BY <1>1, <1>4, <2>1, PackedDistinct
        <3> QED
            BY <2>1, <3>1 DEF Packed
    <2>3. \A q \in Proc : pc'[q] = "moved" => q = p
        BY <1>1, <1>2, <1>3
    <2> QED
        BY <1>5, <2>2, <2>3
<1>6. CASE pc'[p] # "moved"
    <2>1. pc'[p] = "closing" /\ \A q \in Proc : pc'[q] # "moved"
        BY <1>1, <1>2, <1>3, <1>6
    <2> SUFFICES Distinct(file', Len(file'))
        BY <2>1
    <2>2. CASE call[p].op = "append"
        <3>1. file' = Append(file, call[p].rec)
            BY <1>2, <2>2
               DEF Change, At, append_record, delete_record, delete_file, process_records,
                   substitute_record, safe_substitute_record, move_record, sort_records, Write
        <3>2. \A i \in 1 .. Len(file) : file[i].name # call[p].rec.name
            <4>1. call[p].rec.name \in Name \ NamesOf(file)
                BY <1>1, <1>2, <2>2 DEF EditInv, Fresh, OnItsWay, Opening
            <4> QED
                BY <1>1, <4>1, NameAssumption DEF NamesOf
        <3>3. /\ Len(file') = Len(file) + 1 /\ file'[Len(file) + 1] = call[p].rec
              /\ \A i \in 1 .. Len(file) : file'[i] = file[i]
            BY <1>1, <3>1
        <3> QED
            BY <1>1, <1>4, <3>2, <3>3 DEF Distinct
    <2>3. CASE call[p].op \in {"move", "sort"}
        <3>1. PICK g : Reordered(p, g)
            BY <1>1, <2>3, Reorders
        <3> QED
            BY <1>1, <1>4, <3>1, ReorderedDistinct
    <2>4. CASE call[p].op \notin {"append", "move", "sort"}
        <3>1. call[p].op = "substitute" => Sole(p)
            BY <1>1, <1>2 DEF NumberedAlone, EditInv, Asked
        <3>2. SameNames
            BY <1>1, <2>1, <2>4, <3>1, Replaces
        <3> QED
            BY <1>4, <3>2 DEF SameNames, Distinct
    <2> QED
        BY <2>2, <2>3, <2>4
<1> QED
    BY <1>5, <1>6

LEMMA DupStep ==
    ASSUME NumberedAlone, DupInv, [Next]_vars
    PROVE  DupInv'
<1>1. EditInv'
    BY EditStep DEF DupInv
<1> SUFFICES ASSUME ~torn'
             PROVE  /\ (\A q \in Proc : pc'[q] # "moved") => Distinct(file', Len(file'))
                    /\ \A q \in Proc : pc'[q] = "moved" => Distinct(file', cut'[q])
    BY <1>1 DEF DupInv
<1>2. CASE UNCHANGED vars
    BY <1>2 DEF vars, DupInv
<1>3. CASE Next
    <2> PICK p \in Proc : Step(p)
        BY <1>3 DEF Next
    <2>1. CASE Change(p)
        BY <2>1, DupChange
    <2>2. CASE ftruncate(p)
        <3>1. /\ pc \in [Proc -> Stages] /\ torn \in BOOLEAN /\ cut[p] \in Nat
              /\ file \in Seq(Record) /\ Len(file) \in Nat
            BY DEF DupInv, EditInv, TypeInv, TypeOK
        <3>2. ~torn /\ pc[p] = "moved" /\ file' = Resized(cut[p])
              /\ pc' = [pc EXCEPT ![p] = "closing"]
            BY <2>2, <3>1 DEF ftruncate, Write, Goto
        <3>3. \A q \in Proc : pc'[q] # "moved"
            BY <3>1, <3>2, OneWorker DEF Critical, DupInv
        <3>4. Distinct(file, cut[p])
            BY <3>2 DEF DupInv
        <3>5. /\ Len(file') = cut[p]
              /\ \A i \in 1 .. cut[p] : file'[i] = IF i <= Len(file) THEN file[i] ELSE Zero
            BY <3>1, <3>2 DEF Resized
        <3>6. Distinct(file', Len(file'))
            BY <3>1, <3>4, <3>5 DEF Distinct, Zero
        <3> QED
            BY <3>3, <3>6
    <2>3. CASE ~Change(p) /\ ~ftruncate(p)
        BY <2>3, LeavesFile DEF DupInv
    <2> QED
        BY <2>1, <2>2, <2>3
<1> QED
    BY <1>2, <1>3

(***************************************************************************)
(* No article is listed twice, whatever stale sizes and entry numbers the  *)
(* calls work with, if only a sole editor replaces records by number.      *)
(***************************************************************************)
THEOREM NoDuplicatesHolds ==
    ASSUME NumberedAlone, Distinct(Initial, Len(Initial))
    PROVE  Spec => []NoDuplicates
<1>1. Init => DupInv
    BY EditInit DEF Init, DupInv
<1>2. DupInv /\ [Next]_vars => DupInv'
    BY DupStep
<1>3. DupInv => NoDuplicates
    <2> SUFFICES ASSUME DupInv, ~torn, \A p \in Proc : pc[p] # "moved",
                        NEW i \in DOMAIN file, NEW j \in DOMAIN file,
                        file[i].name = file[j].name, file[i].name # NoName
                 PROVE  i = j
        BY DEF NoDuplicates
    <2>1. Distinct(file, Len(file)) /\ file \in Seq(Record)
        BY DEF DupInv, EditInv, TypeInv, TypeOK
    <2> QED
        BY <2>1 DEF Distinct
<1> QED
    BY <1>1, <1>2, <1>3, PTL DEF Spec
-----------------------------------------------------------------------------
(* Losses. *)

\* What a process has counted lies within the size it has read.
Within(q) == pc[q] # "closing" =>
    \A i \in 1 .. Len(file) : file[i].name \in known[q] => i <= snap[q]

\* What its ftruncate will cut off inside that size is no loss.
Doubled(q) == pc[q] = "moved" =>
    \A i \in 1 .. Len(file) : cut[q] < i /\ i <= snap[q] =>
       \/ file[i].name \in gone \cup {NoName}
       \/ \E j \in 1 .. Len(file) : j <= cut[q] /\ file[j].name = file[i].name

Unread(q) == pc[q] = "idle" \/ call[q].op = "append" => known[q] = {}

LossInv ==
    /\ EditInv
    /\ \A q \in Proc : Unread(q) /\ (~torn => Within(q) /\ Doubled(q))

LossOf(n) ==
    \/ n \in gone'
    \/ \E p \in Proc : pc[p] = "moved" /\ pc'[p] = "closing" /\ n \notin known[p]

NoOtherLoss == \A n \in NamesOf(file) \ NamesOf(file') : LossOf(n)

LEMMA UnreadStep ==
    ASSUME LossInv, NEW p \in Proc, Step(p), NEW q \in Proc
    PROVE  Unread(q)'
<1>1. /\ pc \in [Proc -> Stages] /\ call \in [Proc -> Call] /\ known \in [Proc -> SUBSET Name]
      /\ Unread(q)
    BY DEF LossInv, EditInv, TypeInv, TypeOK
<1>2. CASE Post(p)
    BY <1>1, <1>2 DEF Post, Goto, Unread
<1>3. CASE Pick(p)
    <2>1. /\ pc'[p] = "called" /\ call'[p].op # "append" /\ known' = known
          /\ \A r \in Proc : r # p => pc'[r] = pc[r] /\ call'[r] = call[r]
        BY <1>1, <1>3 DEF Pick, Goto
    <2> QED
        BY <1>1, <2>1 DEF Unread
<1>4. CASE Open(p)
    BY <1>1, <1>4 DEF Open, Goto, Unread
<1>5. CASE f_exlock(p) \/ Interrupted(p)
    BY <1>1, <1>5 DEF f_exlock, Interrupted, Goto, Unread
<1>6. CASE Change(p) \/ ftruncate(p)
    <2>1. \E s \in {"moved", "closing"} : Worked(p, s)
        BY <1>6, ChangeWorks, TruncateWorks
    <2> QED
        BY <1>1, <2>1 DEF Worked, Goto, Unread
<1>7. CASE Return(p)
    BY <1>1, <1>7 DEF Return, Goto, Unread
<1> QED
    BY <1>2, <1>3, <1>4, <1>5, <1>6, <1>7
       DEF Step, Refuse, delete_file_killed, close, MapFails, Crash

\* No name anybody has counted is no name.
LEMMA KnownNames ==
    ASSUME LossInv, NEW q \in Proc
    PROVE  NoName \notin known[q]
BY NameAssumption DEF LossInv, EditInv, TypeInv, TypeOK

LEMMA PackedLoss ==
    ASSUME LossInv, ~torn, NEW p \in Proc, NEW f, NEW k, Packed(p, f, k),
           pc[p] = "locked", pc' = [pc EXCEPT ![p] = "moved"], UNCHANGED <<known, snap>>,
           \A q \in Proc : pc[q] # "moved", file' \in Seq(Record)
    PROVE  NoOtherLoss /\ \A q \in Proc : Within(q)' /\ Doubled(q)'
<1>1. /\ pc \in [Proc -> Stages] /\ snap \in [Proc -> Nat] /\ Len(file) \in Nat
      /\ file \in Seq(Record)
    BY DEF LossInv, EditInv, TypeInv, TypeOK
<1>2. /\ k \in Nat /\ k <= snap[p] /\ cut'[p] = k /\ Len(file') = Len(file)
      /\ f \in Rising(k, 1 .. snap[p])
      /\ \A i \in 1 .. Len(file) :
            /\ i <= k => file'[i] = IF f[i] <= Len(file) THEN file[f[i]] ELSE Zero
            /\ k < i => file'[i] = file[i]
            /\ i <= snap[p] => (\E n \in 1 .. k : f[n] = i) \/ file[i].name \in gone'
    BY DEF Packed
<1>3. \A i \in 1 .. k : f[i] \in 1 .. snap[p] /\ i <= f[i]
    <2>1. snap[p] \in Nat
        BY <1>1
    <2>2. 1 .. snap[p] \in SUBSET (Nat \ {0})
        BY <2>1
    <2>3. \A i \in 1 .. k : i <= f[i]
        BY <1>2, <2>2, RisingIs
    <2> QED
        BY <1>2, <2>3 DEF Rising
<1>4. ASSUME NEW i \in 1 .. Len(file), i <= snap[p], file[i].name \notin gone'
      PROVE  \E n \in 1 .. Len(file) : n <= k /\ file'[n] = file[i]
    <2>1. PICK n \in 1 .. k : f[n] = i
        BY <1>2, <1>4
    <2>2. n \in 1 .. Len(file) /\ n <= k
        BY <1>1, <1>2, <1>3, <2>1
    <2> QED
        BY <1>1, <1>2, <2>1, <2>2
<1>5. NoOtherLoss
    <2> SUFFICES ASSUME NEW i \in 1 .. Len(file), file[i].name # NoName,
                        file[i].name \notin gone'
                 PROVE  \E j \in DOMAIN file' : file'[j].name = file[i].name
        <3>1. SUFFICES ASSUME NEW n \in NamesOf(file) \ NamesOf(file'), n \notin gone'
                       PROVE  FALSE
            BY DEF NoOtherLoss, LossOf
        <3>2. PICK i \in 1 .. Len(file) : file[i].name = n /\ n # NoName
            BY <1>1, <3>1 DEF NamesOf
        <3>3. PICK j \in DOMAIN file' : file'[j].name = n
            BY <3>1, <3>2
        <3> QED
            BY <3>1, <3>2, <3>3 DEF NamesOf
    <2>1. DOMAIN file' = 1 .. Len(file)
        BY <1>2
    <2>2. CASE i <= snap[p]
        BY <1>4, <2>1, <2>2
    <2>3. CASE ~(i <= snap[p])
        <3>1. k < i
            BY <1>1, <1>2, <2>3
        <3> QED
            BY <1>2, <2>1, <3>1
    <2> QED
        BY <2>2, <2>3
<1>6. ASSUME NEW q \in Proc PROVE Within(q)'
    <2> SUFFICES ASSUME pc'[q] # "closing", NEW i \in 1 .. Len(file),
                        file'[i].name \in known[q]
                 PROVE  i <= snap[q]
        BY <1>2 DEF Within
    <2>1. pc[q] # "closing"
        BY <1>1
    <2>2. \A j \in 1 .. Len(file) : file[j].name \in known[q] => j <= snap[q]
        BY <2>1 DEF LossInv, Within
    <2>3. CASE k < i
        BY <1>2, <2>2, <2>3
    <2>4. CASE ~(k < i)
        <3>1. i \in 1 .. k
            BY <1>1, <1>2, <2>4
        <3>2. f[i] \in 1 .. Len(file) /\ file'[i] = file[f[i]]
            <4>1. file'[i] # Zero
                BY KnownNames DEF Zero
            <4> QED
                BY <1>1, <1>2, <1>3, <3>1, <4>1
        <3>3. f[i] <= snap[q] /\ i <= f[i]
            BY <1>3, <2>2, <3>1, <3>2
        <3> QED
            BY <1>1, <1>3, <3>1, <3>2, <3>3
    <2> QED
        BY <2>3, <2>4
<1>7. ASSUME NEW q \in Proc PROVE Doubled(q)'
    <2>1. pc'[q] = "moved" => q = p
        BY <1>1
    <2> SUFFICES ASSUME NEW i \in 1 .. Len(file), k < i, i <= snap[p]
                 PROVE  \/ file'[i].name \in gone' \cup {NoName}
                        \/ \E j \in 1 .. Len(file) : j <= k /\ file'[j].name = file'[i].name
        BY <1>2, <2>1 DEF Doubled
    <2>2. file'[i] = file[i]
        BY <1>2
    <2> QED
        BY <1>4, <2>2
<1> QED
    BY <1>5, <1>6, <1>7
LEMMA ReorderedLoss ==
    ASSUME LossInv, NEW p \in Proc, NEW g, Reordered(p, g), snap[p] <= Len(file),
           file' \in Seq(Record)
    PROVE  NamesOf(file) \subseteq NamesOf(file')
<1>1. /\ Len(file) \in Nat /\ Width(p) = Len(file) /\ Len(file') = Len(file)
      /\ DOMAIN file' = 1 .. Len(file)
      /\ file \in Seq(Record)
    BY DEF LossInv, EditInv, TypeInv, TypeOK, Width, Reordered
<1>2. g \in Surjection(1 .. Len(file), 1 .. Len(file))
    <2>1. g \in Injection(1 .. Len(file), 1 .. Len(file))
        BY <1>1 DEF Reordered
    <2> QED
        BY <1>1, <2>1, IntervalSize, FS_Injection
<1>3. ASSUME NEW i \in 1 .. Len(file)
      PROVE  \E j \in 1 .. Len(file) : file'[j] = file[i]
    <2>1. PICK j \in 1 .. Len(file) : g[j] = i
        BY <1>2 DEF Surjection
    <2>2. g[j] <= Len(file)
        BY <1>1, <2>1
    <2> QED
        BY <2>1, <2>2 DEF Reordered
<1> QED
    BY <1>1, <1>3 DEF NamesOf

LEMMA LossChange ==
    ASSUME ReorderedAlone, LossInv, NEW p \in Proc, Change(p), ~torn', file' \in Seq(Record)
    PROVE  NoOtherLoss /\ \A q \in Proc : Within(q)' /\ Doubled(q)'
<1>1. /\ TypeInv /\ EditInv /\ pc \in [Proc -> Stages] /\ torn \in BOOLEAN
      /\ file \in Seq(Record) /\ Len(file) \in Nat
    BY DEF LossInv, EditInv, TypeInv, TypeOK
<1>2. /\ ~torn /\ pc[p] = "locked" /\ UNCHANGED <<call, snap, known>>
      /\ pc' = [pc EXCEPT ![p] = "closing"] \/ pc' = [pc EXCEPT ![p] = "moved"]
    BY <1>1, ChangeWorks DEF Worked, Goto
<1>3. \A q \in Proc : pc[q] # "moved"
    BY <1>1, <1>2, OneWorker DEF Critical
<1>4. CASE pc' = [pc EXCEPT ![p] = "moved"]
    <2>1. pc'[p] = "moved"
        BY <1>1, <1>4
    <2>2. PICK f, k : Packed(p, f, k)
        BY <1>1, <2>1, Packs
    <2> QED
        BY <1>2, <1>3, <1>4, <2>2, PackedLoss
<1>5. CASE pc' = [pc EXCEPT ![p] = "closing"]
    <2>1. /\ pc'[p] = "closing" /\ \A q \in Proc : pc'[q] # "moved"
          /\ \A q \in Proc : pc'[q] # "closing" => q # p /\ pc[q] # "closing"
        BY <1>1, <1>3, <1>5
    <2>2. \A q \in Proc : Doubled(q)'
        BY <2>1 DEF Doubled
    <2>3. ASSUME NEW q \in Proc, pc'[q] # "closing"
          PROVE  \A i \in 1 .. Len(file) : file[i].name \in known[q] => i <= snap[q]
        BY <1>2, <2>1, <2>3 DEF LossInv, Within
    <2>4. CASE call[p].op = "append"
        <3>1. file' = Append(file, call[p].rec)
            BY <1>2, <2>4
               DEF Change, At, append_record, delete_record, delete_file, process_records,
                   substitute_record, safe_substitute_record, move_record, sort_records, Write
        <3>2. \A q \in Proc : call[p].rec.name \notin known[q]
            BY <1>1, <1>2, <2>4 DEF EditInv, Fresh, OnItsWay, Opening
        <3>3. /\ Len(file') = Len(file) + 1 /\ file'[Len(file) + 1] = call[p].rec
              /\ \A i \in 1 .. Len(file) : file'[i] = file[i]
              /\ DOMAIN file' = 1 .. Len(file) + 1
            BY <1>1, <3>1
        <3>4. NamesOf(file) \subseteq NamesOf(file')
            BY <1>1, <3>3 DEF NamesOf
        <3>5. ASSUME NEW q \in Proc PROVE Within(q)'
            <4> SUFFICES ASSUME pc'[q] # "closing", NEW i \in 1 .. Len(file'),
                                file'[i].name \in known[q]
                         PROVE  i <= snap[q]
                BY <1>2 DEF Within
            <4>1. i # Len(file) + 1
                BY <3>2, <3>3
            <4> QED
                BY <1>1, <2>3, <3>3, <4>1
        <3> QED
            BY <2>2, <3>4, <3>5 DEF NoOtherLoss
    <2>5. CASE call[p].op \in {"move", "sort"}
        <3>1. Sole(p)
            BY <1>1, <1>2, <2>5 DEF ReorderedAlone, EditInv, Asked
        <3>2. snap[p] <= Len(file)
            BY <1>2, <3>1 DEF LossInv, EditInv, Current
        <3>3. PICK g : Reordered(p, g)
            BY <1>1, <2>5, Reorders
        <3>4. NamesOf(file) \subseteq NamesOf(file')
            BY <3>2, <3>3, ReorderedLoss
        <3>5. ASSUME NEW q \in Proc, q # p PROVE known[q] = {}
            BY <1>1, <3>1, <3>5 DEF LossInv, Unread, Sole, EditInv, Asked
        <3>6. \A q \in Proc : Within(q)'
            BY <1>2, <2>1, <3>5 DEF Within
        <3> QED
            BY <2>2, <3>4, <3>6 DEF NoOtherLoss
    <2>6. CASE call[p].op \notin {"append", "move", "sort"}
        <3>1. call[p].op = "substitute" => Sole(p)
            BY <1>1, <1>2 DEF ReorderedAlone, EditInv, Asked
        <3>2. SameNames
            BY <1>1, <2>1, <2>6, <3>1, Replaces
        <3>3. DOMAIN file' = 1 .. Len(file)
            BY <3>2 DEF SameNames
        <3>4. NamesOf(file) \subseteq NamesOf(file')
            BY <1>1, <3>2, <3>3 DEF NamesOf, SameNames
        <3>5. \A q \in Proc : Within(q)'
            BY <1>2, <2>3, <3>2 DEF Within, SameNames
        <3> QED
            BY <2>2, <3>4, <3>5 DEF NoOtherLoss
    <2> QED
        BY <2>4, <2>5, <2>6
<1> QED
    BY <1>2, <1>4, <1>5

LEMMA LossTruncate ==
    ASSUME LossInv, NEW p \in Proc, ftruncate(p), ~torn', file' \in Seq(Record)
    PROVE  NoOtherLoss /\ \A q \in Proc : Within(q)' /\ Doubled(q)'
<1>1. /\ EditInv /\ pc \in [Proc -> Stages] /\ torn \in BOOLEAN /\ cut[p] \in Nat
      /\ snap[p] \in Nat /\ file \in Seq(Record) /\ Len(file) \in Nat
    BY DEF LossInv, EditInv, TypeInv, TypeOK
<1>2. /\ ~torn /\ pc[p] = "moved" /\ file' = Resized(cut[p]) /\ pc'[p] = "closing"
      /\ pc' = [pc EXCEPT ![p] = "closing"] /\ UNCHANGED <<snap, known, gone>>
    BY <1>1 DEF ftruncate, Write, Goto
<1>3. \A q \in Proc : /\ pc'[q] # "moved"
                      /\ pc'[q] # "closing" => pc[q] # "closing"
    BY <1>1, <1>2, OneWorker DEF Critical
<1>4. /\ Len(file') = cut[p] /\ DOMAIN file' = 1 .. cut[p]
      /\ \A i \in 1 .. cut[p] : file'[i] = IF i <= Len(file) THEN file[i] ELSE Zero
    BY <1>1, <1>2 DEF Resized
<1>5. ASSUME NEW i \in 1 .. Len(file), file[i].name # NoName
      PROVE  file[i].name \in NamesOf(file') \/ LossOf(file[i].name)
    <2>1. \A j \in 1 .. Len(file) :
             j <= cut[p] /\ file[j].name = file[i].name => file[i].name \in NamesOf(file')
        BY <1>1, <1>4, <1>5 DEF NamesOf
    <2>2. CASE i <= cut[p]
        BY <2>1, <2>2
    <2>3. CASE cut[p] < i /\ i <= snap[p]
        BY <1>2, <1>5, <2>1, <2>3 DEF LossInv, Doubled, LossOf
    <2>4. CASE ~(i <= snap[p])
        BY <1>2, <2>4 DEF LossInv, Within, LossOf
    <2> QED
        BY <1>1, <2>2, <2>3, <2>4
<1>6. NoOtherLoss
    BY <1>1, <1>5 DEF NoOtherLoss, NamesOf
<1>7. ASSUME NEW q \in Proc PROVE Within(q)'
    <2> SUFFICES ASSUME pc'[q] # "closing", NEW i \in 1 .. cut[p], file'[i].name \in known[q]
                 PROVE  i <= snap[q]
        BY <1>2, <1>4 DEF Within
    <2>1. i <= Len(file) /\ file'[i] = file[i]
        BY <1>4, KnownNames DEF Zero
    <2> QED
        BY <1>1, <1>2, <1>3, <2>1 DEF LossInv, Within
<1> QED
    BY <1>3, <1>6, <1>7 DEF Doubled

LEMMA LossElsewhere ==
    ASSUME LossInv, NEW p \in Proc, Step(p), ~Change(p), ~ftruncate(p), ~torn',
           NEW q \in Proc
    PROVE  Within(q)' /\ Doubled(q)'
<1>1. /\ pc \in [Proc -> Stages] /\ snap \in [Proc -> Nat] /\ known \in [Proc -> SUBSET Name]
      /\ file \in Seq(Record) /\ Len(file) \in Nat
    BY DEF LossInv, EditInv, TypeInv, TypeOK
<1>2. /\ ~torn /\ file' = file /\ gone' = gone
      /\ pc'[q] = "moved" <=> pc[q] = "moved"
      /\ pc[q] = "moved" => cut'[q] = cut[q] /\ snap'[q] = snap[q]
    BY LeavesFile DEF LossInv
<1>3. Within(q) /\ Doubled(q)
    BY <1>2 DEF LossInv
<1>4. Doubled(q)'
    BY <1>2, <1>3 DEF Doubled
<1>5. Within(q)'
    <2>1. CASE Open(p)
        <3>1. /\ pc[p] = "called"
              /\ q # p => known'[q] = known[q] /\ snap'[q] = snap[q] /\ pc'[q] = pc[q]
              /\ q = p => \/ known'[q] = known[q] /\ snap'[q] = snap[q]
                          \/ snap'[q] = Len(file)
            BY <1>1, <2>1 DEF Open, Goto
        <3>2. CASE q = p /\ snap'[q] = Len(file)
            <4>1. \A i \in 1 .. Len(file') : i <= snap'[q]
                BY <1>1, <1>2, <3>2
            <4> QED
                BY <4>1 DEF Within
        <3>3. CASE known'[q] = known[q] /\ snap'[q] = snap[q] /\ (pc[q] = "closing" => pc'[q] = "closing")
            BY <1>2, <1>3, <3>3 DEF Within
        <3> QED
            BY <3>1, <3>2, <3>3
    <2>2. CASE Return(p)
        <3>1. /\ q = p => known'[q] = {}
              /\ q # p => known'[q] = known[q] /\ snap'[q] = snap[q] /\ pc'[q] = pc[q]
            BY <1>1, <2>2 DEF Return, Goto
        <3> QED
            BY <1>2, <1>3, <3>1 DEF Within
    <2>3. CASE Post(p) \/ Pick(p) \/ f_exlock(p) \/ Interrupted(p)
        <3>1. /\ known' = known /\ snap' = snap /\ pc[p] # "closing"
              /\ q # p => pc'[q] = pc[q]
            BY <1>1, <2>3 DEF Post, Pick, f_exlock, Interrupted, Goto
        <3> QED
            BY <1>2, <1>3, <3>1 DEF Within
    <2> QED
        BY <2>1, <2>2, <2>3
           DEF Step, Refuse, delete_file_killed, close, MapFails, Crash
<1> QED
    BY <1>4, <1>5

LEMMA LossStep ==
    ASSUME ReorderedAlone, LossInv, [Next]_vars
    PROVE  LossInv' /\ (~torn' => NoOtherLoss)
<1>1. EditInv' /\ file' \in Seq(Record)
    <2>1. EditInv'
        BY EditStep DEF LossInv
    <2> QED
        BY <2>1 DEF EditInv, TypeInv, TypeOK
<1>2. CASE UNCHANGED vars
    BY <1>1, <1>2 DEF vars, LossInv, Unread, Within, Doubled, NoOtherLoss
<1>3. CASE Next
    <2> PICK p \in Proc : Step(p)
        BY <1>3 DEF Next
    <2>1. \A q \in Proc : Unread(q)'
        BY UnreadStep
    <2>2. CASE ~torn'
        <3>1. CASE Change(p)
            BY <1>1, <2>1, <2>2, <3>1, LossChange DEF LossInv
        <3>2. CASE ftruncate(p)
            BY <1>1, <2>1, <2>2, <3>2, LossTruncate DEF LossInv
        <3>3. CASE ~Change(p) /\ ~ftruncate(p)
            <4>1. file' = file
                BY <2>2, <3>3, LeavesFile DEF LossInv
            <4> QED
                BY <1>1, <2>1, <2>2, <3>3, <4>1, LossElsewhere DEF LossInv, NoOtherLoss
        <3> QED
            BY <3>1, <3>2, <3>3
    <2>3. CASE torn'
        BY <1>1, <2>1, <2>3 DEF LossInv
    <2> QED
        BY <2>2, <2>3
<1> QED
    BY <1>2, <1>3

(***************************************************************************)
(* An entry nobody asked to remove disappears only by the ftruncate to a   *)
(* stale size, and only if it came after the fstat, provided that who      *)
(* moves, sorts or replaces entries by number is the only editor.          *)
(***************************************************************************)
THEOREM OnlyNewerLostHolds ==
    ASSUME ReorderedAlone
    PROVE  Spec => OnlyNewerLost
<1>1. Init => LossInv
    <2>1. Init => EditInv
        BY EditInit
    <2> QED
        BY <2>1 DEF Init, LossInv, Unread, Within, Doubled
<1>2. LossInv /\ [Next]_vars => LossInv'
    BY LossStep
<1>3. LossInv /\ [Next]_vars =>
         [~torn' =>
            \A n \in NamesOf(file) \ NamesOf(file') :
               \/ n \in gone'
               \/ \E p \in Proc : /\ pc[p] = "moved" /\ pc'[p] = "closing"
                                  /\ n \notin known[p]]_vars
    BY LossStep DEF NoOtherLoss, LossOf
<1> QED
    BY <1>1, <1>2, <1>3, PTL DEF Spec, OnlyNewerLost
-----------------------------------------------------------------------------
(* The binary search of safe_substitute_record. *)

TimeAt(m, k) == IF k \in DOMAIN m THEN TimeOf(m[k]) ELSE 0

\* One step of lower_bound, for any function that answers the next one.
Halved(m, size, t, g) ==
    [w \in (0 .. size) \X (0 .. size) |->
       IF w[1] >= w[2] THEN w[1]
       ELSE LET i == (w[2] + w[1]) \div 2
            IN IF t <= TimeAt(m, i + 1) THEN g[<<w[1], i>>] ELSE g[<<i + 1, w[2]>>]]

\* The records before r are older than t, the others are not.
Bound(m, t, low, high, r) ==
    /\ r \in low .. high
    /\ \A k \in low + 1 .. r : TimeAt(m, k) < t
    /\ \A k \in r + 1 .. high : t <= TimeAt(m, k)

InOrder(m, size) ==
    /\ \A k \in 1 .. size : TimeAt(m, k) \in Nat
    /\ \A j, k \in 1 .. size : j <= k => TimeAt(m, j) <= TimeAt(m, k)

LEMMA HalvedIs ==
    ASSUME NEW m, NEW size \in Nat, NEW t, NEW g,
           NEW low \in 0 .. size, NEW high \in 0 .. size
    PROVE  Halved(m, size, t, g)[<<low, high>>] =
              IF low >= high THEN low
              ELSE LET i == (high + low) \div 2
                   IN IF t <= TimeAt(m, i + 1) THEN g[<<low, i>>] ELSE g[<<i + 1, high>>]
BY DEF Halved

LEMMA Middle ==
    ASSUME NEW low \in Nat, NEW high \in Nat, low < high
    PROVE  /\ (high + low) \div 2 \in Nat
           /\ low <= (high + low) \div 2 /\ (high + low) \div 2 + 1 <= high
OBVIOUS

(* A bound in the right half of an ordered file is a bound in the whole. *)
LEMMA BoundWidens ==
    ASSUME NEW m, NEW size \in Nat, NEW t \in Nat, InOrder(m, size),
           NEW low \in 0 .. size, NEW high \in 0 .. size, NEW i \in Nat,
           low <= i, i + 1 <= high, NEW r
    PROVE  /\ t <= TimeAt(m, i + 1) /\ Bound(m, t, low, i, r) => Bound(m, t, low, high, r)
           /\ ~(t <= TimeAt(m, i + 1)) /\ Bound(m, t, i + 1, high, r)
                 => Bound(m, t, low, high, r)
<1>1. i + 1 \in 1 .. size
    OBVIOUS
<1>2. CASE t <= TimeAt(m, i + 1) /\ Bound(m, t, low, i, r)
    <2>1. ASSUME NEW k \in r + 1 .. high PROVE t <= TimeAt(m, k)
        <3>1. r \in Nat /\ k \in Nat /\ k \in 1 .. size
            BY <1>2 DEF Bound
        <3>2. CASE k <= i
            BY <1>2, <3>1, <3>2 DEF Bound
        <3>3. CASE ~(k <= i)
            <4>1. i + 1 <= k
                BY <3>1, <3>3
            <4>2. TimeAt(m, i + 1) <= TimeAt(m, k)
                BY <1>1, <3>1, <4>1 DEF InOrder
            <4> QED
                BY <1>1, <1>2, <3>1, <4>2 DEF InOrder
        <3> QED
            BY <3>2, <3>3
    <2>2. r \in low .. high
        BY <1>2 DEF Bound
    <2> QED
        BY <1>2, <2>1, <2>2 DEF Bound
<1>3. CASE ~(t <= TimeAt(m, i + 1)) /\ Bound(m, t, i + 1, high, r)
    <2>1. ASSUME NEW k \in low + 1 .. r PROVE TimeAt(m, k) < t
        <3>1. r \in Nat /\ k \in Nat /\ k \in 1 .. size
            BY <1>3 DEF Bound
        <3>2. CASE i + 1 < k
            <4>1. k \in (i + 1) + 1 .. r
                BY <3>1, <3>2
            <4> QED
                BY <1>3, <4>1 DEF Bound
        <3>3. CASE ~(i + 1 < k)
            <4>1. TimeAt(m, k) <= TimeAt(m, i + 1)
                BY <1>1, <3>1, <3>3 DEF InOrder
            <4>2. TimeAt(m, k) \in Nat /\ TimeAt(m, i + 1) \in Nat
                BY <1>1, <3>1 DEF InOrder
            <4> QED
                BY <1>3, <4>1, <4>2
        <3> QED
            BY <3>2, <3>3
    <2>2. r \in low .. high
        BY <1>3 DEF Bound
    <2> QED
        BY <1>3, <2>1, <2>2 DEF Bound
<1> QED
    BY <1>2, <1>3

LEMMA BoundExists ==
    ASSUME NEW m, NEW size \in Nat, NEW t \in Nat, InOrder(m, size),
           NEW low \in 0 .. size, NEW high \in 0 .. size, low <= high
    PROVE  \E r : Bound(m, t, low, high, r)
<1> DEFINE S == {r \in low .. high : \A k \in r + 1 .. high : t <= TimeAt(m, k)}
<1>1. S \in SUBSET Nat /\ high \in S
    OBVIOUS
<1>2. PICK r \in S : \A y \in S : r <= y
    BY <1>1, Least
<1>3. r \in low .. high /\ \A k \in r + 1 .. high : t <= TimeAt(m, k)
    OBVIOUS
<1>4. ASSUME NEW k \in low + 1 .. r PROVE TimeAt(m, k) < t
    <2> SUFFICES ASSUME t <= TimeAt(m, k) PROVE FALSE
        <3>1. k \in 1 .. size
            BY <1>3
        <3> QED
            BY <3>1 DEF InOrder
    <2>1. k - 1 \in low .. high /\ k - 1 < r /\ k \in 1 .. size
        BY <1>3
    <2>2. ASSUME NEW j \in (k - 1) + 1 .. high PROVE t <= TimeAt(m, j)
        <3>1. TimeAt(m, k) <= TimeAt(m, j) /\ TimeAt(m, k) \in Nat /\ TimeAt(m, j) \in Nat
            BY <2>1 DEF InOrder
        <3> QED
            BY <3>1
    <2>3. k - 1 \in S
        BY <2>1, <2>2
    <2> HIDE DEF S
    <2> QED
        BY <1>2, <1>3, <2>1, <2>3
<1>5. Bound(m, t, low, high, r)
    BY <1>3, <1>4 DEF Bound
<1> QED
    BY <1>5

LEMMA BoundUnique ==
    ASSUME NEW m, NEW size \in Nat, NEW t \in Nat, InOrder(m, size),
           NEW low \in 0 .. size, NEW high \in 0 .. size,
           NEW r, NEW q, Bound(m, t, low, high, r), Bound(m, t, low, high, q)
    PROVE  r = q
<1>1. ASSUME NEW x, NEW y, Bound(m, t, low, high, x), Bound(m, t, low, high, y), x < y
      PROVE  FALSE
    <2>1. y \in low + 1 .. y /\ y \in x + 1 .. high /\ y \in 1 .. size
        BY <1>1 DEF Bound
    <2>2. TimeAt(m, y) < t /\ t <= TimeAt(m, y) /\ TimeAt(m, y) \in Nat
        BY <1>1, <2>1 DEF Bound, InOrder
    <2> QED
        BY <2>2
<1>2. r \in Nat /\ q \in Nat
    BY DEF Bound
<1> QED
    BY <1>1, <1>2

(* In an ordered file lower_bound's recursion has a solution. *)
LEMMA HalvedHasSolution ==
    ASSUME NEW m, NEW size \in Nat, NEW t \in Nat, InOrder(m, size)
    PROVE  \E g : g = Halved(m, size, t, g)
<1> DEFINE Pairs == (0 .. size) \X (0 .. size)
           B(low, high) == CHOOSE r : Bound(m, t, low, high, r)
           g == [w \in Pairs |-> IF w[1] >= w[2] THEN w[1] ELSE B(w[1], w[2])]
<1>1. ASSUME NEW low \in 0 .. size, NEW high \in 0 .. size, low <= high
      PROVE  Bound(m, t, low, high, g[<<low, high>>])
    <2>1. g[<<low, high>>] = IF low >= high THEN low ELSE B(low, high)
        <3> HIDE DEF B
        <3> QED
            OBVIOUS
    <2>2. Bound(m, t, low, high, B(low, high))
        BY <1>1, BoundExists
    <2>3. low = high => Bound(m, t, low, high, low)
        BY DEF Bound
    <2> HIDE DEF g, B
    <2> QED
        BY <1>1, <2>1, <2>2, <2>3
<1>2. ASSUME NEW low \in 0 .. size, NEW high \in 0 .. size
      PROVE  g[<<low, high>>] = Halved(m, size, t, g)[<<low, high>>]
    <2>1. CASE low >= high
        <3>1. g[<<low, high>>] = low
            BY <2>1
        <3> HIDE DEF g
        <3> QED
            BY <2>1, <3>1 DEF Halved
    <2>2. CASE ~(low >= high)
        <3> DEFINE i == (high + low) \div 2
                   h == Halved(m, size, t, g)[<<low, high>>]
        <3>1. i \in Nat /\ low <= i /\ i + 1 <= high
            BY <2>2, Middle
        <3> HIDE DEF g
        <3>2. h = IF t <= TimeAt(m, i + 1) THEN g[<<low, i>>] ELSE g[<<i + 1, high>>]
            BY <2>2 DEF Halved
        <3> HIDE DEF i, h
        <3>3. i \in 0 .. size /\ i + 1 \in 0 .. size
            BY <3>1
        <3>4. Bound(m, t, low, i, g[<<low, i>>]) /\ Bound(m, t, i + 1, high, g[<<i + 1, high>>])
            BY <1>1, <3>1, <3>3
        <3>5. Bound(m, t, low, high, h)
            BY <3>1, <3>2, <3>4, BoundWidens
        <3>6. Bound(m, t, low, high, g[<<low, high>>])
            BY <1>1, <2>2
        <3>7. h = g[<<low, high>>]
            BY <3>5, <3>6, BoundUnique
        <3> QED
            BY <3>7 DEF h
    <2> QED
        BY <2>1, <2>2
<1>3. \A w \in Pairs : g[w] = Halved(m, size, t, g)[w]
    <2> SUFFICES ASSUME NEW w \in Pairs PROVE g[w] = Halved(m, size, t, g)[w]
        OBVIOUS
    <2>1. w[1] \in 0 .. size /\ w[2] \in 0 .. size /\ w = <<w[1], w[2]>>
        OBVIOUS
    <2> HIDE DEF g
    <2> QED
        BY <1>2, <2>1
<1>4. g = [w \in Pairs |-> g[w]]
    OBVIOUS
<1>5. Halved(m, size, t, g) = [w \in Pairs |-> Halved(m, size, t, g)[w]]
    <2> HIDE DEF g
    <2> QED
        BY DEF Halved
<1> HIDE DEF g, Pairs
<1>6. g = Halved(m, size, t, g)
    BY <1>3, <1>4, <1>5
<1> QED
    BY <1>6

(* Any solution finds the bound: by the least width at which it would not. *)
LEMMA SolutionBounds ==
    ASSUME NEW m, NEW size \in Nat, NEW t \in Nat, InOrder(m, size),
           NEW g, g = Halved(m, size, t, g)
    PROVE  Bound(m, t, 0, size, g[<<0, size>>])
<1> DEFINE Fails(low, high) == low <= high /\ ~Bound(m, t, low, high, g[<<low, high>>])
           S == {n \in 0 .. size : \E low, high \in 0 .. size :
                                      high - low = n /\ Fails(low, high)}
<1> SUFFICES ASSUME S # {} PROVE FALSE
    <2>1. 0 \in 0 .. size /\ size \in 0 .. size /\ size - 0 = size /\ 0 <= size
        OBVIOUS
    <2>2. Fails(0, size) => size \in S
        BY <2>1
    <2> QED
        BY <2>1, <2>2
<1>1. S \in SUBSET Nat
    OBVIOUS
<1>2. PICK n \in S : \A y \in S : n <= y
    BY <1>1, Least
<1>3. PICK low \in 0 .. size, high \in 0 .. size : high - low = n /\ Fails(low, high)
    OBVIOUS
<1>4. ASSUME NEW l \in 0 .. size, NEW h \in 0 .. size, l <= h, h - l < n
      PROVE  Bound(m, t, l, h, g[<<l, h>>])
    <2>1. h - l \in 0 .. size
        BY <1>4
    <2>2. Fails(l, h) => h - l \in S
        BY <2>1
    <2>3. n \in Nat
        BY <1>1
    <2> HIDE DEF S
    <2>4. ~Fails(l, h)
        BY <1>2, <1>4, <2>1, <2>2, <2>3
    <2> QED
        BY <1>4, <2>4
<1>5. g[<<low, high>>] =
         IF low >= high THEN low
         ELSE LET i == (high + low) \div 2
              IN IF t <= TimeAt(m, i + 1) THEN g[<<low, i>>] ELSE g[<<i + 1, high>>]
    BY HalvedIs
<1>6. CASE low >= high
    <2>1. low = high /\ g[<<low, high>>] = low
        BY <1>3, <1>5, <1>6
    <2>2. Bound(m, t, low, high, low)
        BY <2>1 DEF Bound
    <2> QED
        BY <1>3, <2>1, <2>2
<1>7. CASE ~(low >= high)
    <2> DEFINE i == (high + low) \div 2
    <2>1. i \in Nat /\ low <= i /\ i + 1 <= high
        BY <1>7, Middle
    <2>2. g[<<low, high>>] = IF t <= TimeAt(m, i + 1) THEN g[<<low, i>>] ELSE g[<<i + 1, high>>]
        BY <1>5, <1>7
    <2> HIDE DEF i
    <2>3. /\ i \in 0 .. size /\ i + 1 \in 0 .. size
          /\ i - low < n /\ high - (i + 1) < n
        BY <1>3, <2>1
    <2>4. Bound(m, t, low, i, g[<<low, i>>]) /\ Bound(m, t, i + 1, high, g[<<i + 1, high>>])
        BY <1>4, <2>1, <2>3
    <2>5. Bound(m, t, low, high, g[<<low, high>>])
        BY <2>1, <2>2, <2>4, BoundWidens
    <2> QED
        BY <1>3, <2>5
<1> QED
    BY <1>6, <1>7

(***************************************************************************)
(* In a file ordered by time lower_bound comes to the first record that is *)
(* not older than t.                                                       *)
(***************************************************************************)
LEMMA LowerBoundIs ==
    ASSUME NEW m, NEW size \in Nat, NEW t \in Nat, InOrder(m, size)
    PROVE  Bound(m, t, 0, size, LowerBound(m, size, t))
<1> DEFINE g == CHOOSE x : x = Halved(m, size, t, x)
<1>1. LowerBound(m, size, t) = g[<<0, size>>]
    BY DEF LowerBound, Halved, TimeAt
<1>2. g = Halved(m, size, t, g)
    <2>1. \E x : x = Halved(m, size, t, x)
        BY HalvedHasSolution
    <2> QED
        BY <2>1
<1> HIDE DEF g
<1> QED
    BY <1>1, <1>2, SolutionBounds

LEMMA ReachesAll ==
    ASSUME TypeInv, NEW size \in Nat, size <= Len(file)
    PROVE  Reach(size) = size
<1> DEFINE n == Len(file) + PageRecords - 1
           pages == n \div PageRecords
<1>1. Len(file) \in Nat /\ PageRecords \in Nat /\ PageRecords > 0
    BY BoundsAssumption DEF TypeInv, TypeOK
<1>2. n \in Nat /\ pages \in Nat /\ PageRecords * pages \in Nat
    BY <1>1
<1>3. n < PageRecords * pages + PageRecords
    BY <1>1
<1>4. Reach(size) = Smaller(size, PageRecords * pages)
    BY DEF Reach
<1>5. Len(file) <= PageRecords * pages
    <2> HIDE DEF pages
    <2> QED
        BY <1>1, <1>2, <1>3
<1> HIDE DEF pages
<1> QED
    BY <1>1, <1>2, <1>4, <1>5 DEF Smaller

(* The search of an ordered file finds a record that is there. *)
LEMMA FindSortedFinds ==
    ASSUME NEW m \in Seq(Record), NEW ent \in Nat \ {0}, NEW rec \in Record,
           NEW k \in DOMAIN m, m[k].name = rec.name, InOrder(m, Len(m))
    PROVE  FindSorted(m, Len(m), ent, rec) # 0
<1> DEFINE e == Smaller(ent, Len(m))
           t == TimeOf(rec)
           low == LowerBound(m, Len(m), t)
           hits == {i \in DOMAIN m : /\ low < i
                                     /\ m[i].name = rec.name
                                     /\ \A j \in low + 1 .. i : TimeOf(m[j]) = t}
<1>1. Len(m) \in Nat /\ DOMAIN m = 1 .. Len(m) /\ k \in 1 .. Len(m)
    OBVIOUS
<1>2. e \in DOMAIN m /\ e # 0
    BY <1>1 DEF Smaller
<1>3. \A j \in 1 .. Len(m) : TimeAt(m, j) = TimeOf(m[j])
    BY <1>1 DEF TimeAt
<1>4. TimeAt(m, k) = t /\ t \in Nat
    <2>1. TimeOf(m[k]) = t
        BY DEF TimeOf
    <2>2. TimeAt(m, k) \in Nat
        BY <1>1 DEF InOrder
    <2> QED
        BY <1>1, <1>3, <2>1, <2>2
<1> HIDE DEF e, t
<1>5. Bound(m, t, 0, Len(m), low)
    BY <1>1, <1>4, LowerBoundIs
<1> HIDE DEF low
<1>6. low \in Nat /\ low <= Len(m)
    BY <1>1, <1>5 DEF Bound
<1>7. low < k
    <2> SUFFICES ASSUME k <= low PROVE FALSE
        BY <1>1, <1>6
    <2>1. k \in 0 + 1 .. low
        BY <1>1, <1>6
    <2>2. TimeAt(m, k) < t
        BY <1>5, <2>1 DEF Bound
    <2> QED
        BY <1>4, <2>2
<1>8. ASSUME NEW j \in low + 1 .. k PROVE TimeOf(m[j]) = t
    <2>1. j \in 1 .. Len(m) /\ j \in low + 1 .. Len(m) /\ j <= k
        BY <1>1, <1>6
    <2>2. t <= TimeAt(m, j)
        BY <1>5, <2>1 DEF Bound
    <2>3. TimeAt(m, j) <= TimeAt(m, k) /\ TimeAt(m, j) \in Nat
        BY <1>1, <2>1 DEF InOrder
    <2>4. TimeAt(m, j) = t
        BY <1>4, <2>2, <2>3
    <2> QED
        BY <1>3, <2>1, <2>4
<1>9. k \in hits
    BY <1>7, <1>8
<1>10. hits \in SUBSET Nat /\ \A i \in hits : i # 0
    BY <1>1
<1>11. FindSorted(m, Len(m), ent, rec) =
         IF e \notin DOMAIN m THEN 0
         ELSE IF m[e].name = rec.name THEN e
         ELSE IF hits = {} THEN 0 ELSE CHOOSE i \in hits : \A j \in hits : i <= j
    BY DEF FindSorted, e, t, low
<1> HIDE DEF hits
<1>12. \E i \in hits : \A j \in hits : i <= j
    BY <1>9, <1>10, Least
<1> QED
    BY <1>2, <1>9, <1>10, <1>11, <1>12

LEMMA UpdateLands ==
    ASSUME TypeInv, [Next]_vars, NEW p \in Proc, At(p, "safe_sorted"), pc'[p] = "closing",
           \A i, j \in DOMAIN file : i <= j => TimeOf(file[i]) <= TimeOf(file[j]),
           Len(file) >= snap[p],
           call[p].rec.name \in NamesOf(SubSeq(file, 1, snap[p]))
    PROVE  \E i \in DOMAIN file : file[i].name = call[p].rec.name /\ file'[i] = call[p].rec
<1> DEFINE m == Mapped(p)
           s == snap[p]
           rec == call[p].rec
           id == FindSorted(m, s, call[p].ent, rec)
<1>1. /\ pc \in [Proc -> Stages] /\ pc[p] = "locked" /\ call[p].op = "safe_sorted"
      /\ file \in Seq(Record) /\ Len(file) \in Nat /\ DOMAIN file = 1 .. Len(file)
      /\ call[p] \in Call /\ s \in Nat
    BY DEF At, TypeInv, TypeOK
<1>2. rec \in Record /\ call[p].ent \in Nat \ {0}
    BY <1>1 DEF Call, TypeInv, Counted
<1>3. safe_substitute_record(p)
    <2>1. PICK q \in Proc : Step(q)
        BY <1>1 DEF Next, vars
    <2>2. pc' # pc
        BY <1>1
    <2>3. \E x : pc' = [pc EXCEPT ![q] = x]
        BY <2>1 DEF Step, Post, Pick, Open, Refuse, f_exlock, Interrupted, Change,
                    append_record, delete_record, delete_file, process_records,
                    substitute_record, safe_substitute_record, move_record, sort_records,
                    GiveUp, Write, Moved, delete_file_killed, ftruncate, close, MapFails,
                    Crash, Return, Goto
    <2>4. q = p
        BY <1>1, <2>3
    <2>5. ~Return(p)
        BY <1>1 DEF Return, Goto
    <2> QED
        BY <1>1, <2>1, <2>4, <2>5
           DEF Step, Post, Pick, Open, Refuse, f_exlock, Interrupted, Change, At,
               append_record, delete_record, delete_file, process_records,
               substitute_record, move_record, sort_records, delete_file_killed,
               ftruncate, close, MapFails, Crash
<1>4. Reach(s) = s
    BY <1>1, ReachesAll
<1>5. /\ m \in Seq(Record) /\ Len(m) = s /\ DOMAIN m = 1 .. s
      /\ \A i \in 1 .. s : m[i] = file[i] /\ i \in 1 .. Len(file)
    <2>1. ~Faults(p)
        BY <1>1, <1>4 DEF Faults
    <2> QED
        BY <1>1, <2>1, WholeMap
<1>6. PICK k \in 1 .. s : file[k].name = rec.name
    <2>1. SubSeq(file, 1, s) = [i \in 1 .. s |-> file[i]]
        BY <1>1
    <2> QED
        BY <1>1, <2>1 DEF NamesOf
<1> HIDE DEF m, s, rec
<1>7. InOrder(m, s)
    <2>1. \A i \in 1 .. s : TimeAt(m, i) = TimeOf(file[i])
        BY <1>5 DEF TimeAt
    <2>2. \A i \in 1 .. s : TimeOf(file[i]) \in Nat
        <3> SUFFICES ASSUME NEW i \in 1 .. s PROVE TimeOf(file[i]) \in Nat
            OBVIOUS
        <3>1. file[i].name \in Name \cup {NoName}
            BY <1>1, <1>5, NamesMapped
        <3> QED
            BY <3>1, FiletimeAssumption DEF TimeOf
    <2> QED
        BY <1>1, <1>5, <2>1, <2>2 DEF InOrder
<1>8. id # 0
    <2>1. k \in DOMAIN m /\ m[k].name = rec.name
        BY <1>5, <1>6
    <2> QED
        BY <1>2, <1>5, <1>7, <2>1, FindSortedFinds
<1>9. id \in 1 .. s /\ m[id].name = rec.name
    BY <1>5, <1>8, FoundSorted
<1>10. s # 0
    BY <1>1, <1>6
<1>11. file' = Stored([m EXCEPT ![id] = rec])
    BY <1>1, <1>3, <1>8, <1>10 DEF safe_substitute_record, Write, m, s, rec
<1> HIDE DEF id
<1>12. id \in DOMAIN file /\ file[id].name = rec.name
    BY <1>1, <1>5, <1>9
<1>13. file'[id] = rec
    <2> DEFINE w == [m EXCEPT ![id] = rec]
    <2>1. id \in DOMAIN w /\ w[id] = rec
        BY <1>5, <1>9
    <2> HIDE DEF w
    <2>2. file' = [i \in DOMAIN file |-> IF i \in DOMAIN w THEN w[i] ELSE file[i]]
        BY <1>11 DEF Stored, w
    <2> QED
        BY <1>12, <2>1, <2>2
<1> QED
    BY <1>12, <1>13 DEF rec

(***************************************************************************)
(* safe_substitute_record, in a file in order of time, changes the record  *)
(* it is given wherever that record has moved to since the caller read it. *)
(***************************************************************************)
THEOREM SortedUpdateLandsHolds == Spec => SortedUpdateLands
<1>1. TypeInv /\ [Next]_vars =>
        [\A p \in Proc :
           /\ At(p, "safe_sorted") /\ pc'[p] = "closing"
           /\ \A i, j \in DOMAIN file : i <= j => TimeOf(file[i]) <= TimeOf(file[j])
           /\ Len(file) >= snap[p]
           /\ call[p].rec.name \in NamesOf(SubSeq(file, 1, snap[p]))
           => \E i \in DOMAIN file : file[i].name = call[p].rec.name
                                     /\ file'[i] = call[p].rec]_vars
    BY UpdateLands
<1> QED
    BY TypeInit, TypeStep, <1>1, PTL DEF Spec, SortedUpdateLands
===============================================================================
