--------------------------- MODULE RecordStoreTypes ---------------------------
(* RecordStore keeps its types: whatever the calls, sizes and faults, the   *)
(* file is a sequence of records and no size goes below zero.  With it, what *)
(* the searches and the loops over a mapped file return.                    *)
EXTENDS RecordStore, FiniteSetTheorems, SequenceTheorems, WellFoundedInduction, TLAPS

(***************************************************************************)
(* TypeOK is not inductive: a move to entry 0 would take a record from     *)
(* before the file.  Callers pick entries of a list, counted from 1.       *)
(***************************************************************************)
Counted ==
    \A p \in Proc : pc[p] # "idle" /\ call[p].op # "append" =>
                       call[p].ent # 0 /\ call[p].to # 0

TypeInv == TypeOK /\ Counted

LEMMA ZeroRecord == Zero \in Record
BY DEF Zero, Record

-----------------------------------------------------------------------------
(* The loops of the calls turn sequences of records into sequences of records. *)

LEMMA ReachType ==
    ASSUME TypeOK, NEW p \in Proc
    PROVE  Reach(snap[p]) \in Nat /\ Reach(snap[p]) <= snap[p]
<1> DEFINE pages == (Len(file) + PageRecords - 1) \div PageRecords
<1>1. Len(file) \in Nat /\ snap[p] \in Nat /\ PageRecords \in Nat \ {0}
    BY BoundsAssumption DEF TypeOK
<1>2. pages \in Nat
    BY <1>1
<1>3. PageRecords * pages \in Nat
    BY <1>1, <1>2
<1>4. Reach(snap[p]) = Smaller(snap[p], PageRecords * pages)
    BY DEF Reach
<1> HIDE DEF pages
<1> QED
    BY <1>1, <1>3, <1>4 DEF Smaller

LEMMA MappedType ==
    ASSUME TypeOK, NEW p \in Proc, NEW R, file \in Seq(R),
           Zero \in R \/ snap[p] <= Len(file)
    PROVE  Mapped(p) \in Seq(R) /\ Len(Mapped(p)) <= snap[p]
<1>1. Reach(snap[p]) \in Nat /\ Reach(snap[p]) <= snap[p] /\ snap[p] \in Nat
    BY ReachType DEF TypeOK
<1> QED
    BY <1>1 DEF Mapped

LEMMA StoredType ==
    ASSUME NEW R, file \in Seq(R), NEW m \in Seq(R)
    PROVE  Stored(m) \in Seq(R) /\ Len(Stored(m)) = Len(file)
BY DEF Stored

LEMMA ResizedType ==
    ASSUME NEW R, file \in Seq(R), NEW n \in Nat, Zero \in R \/ n <= Len(file)
    PROVE  Resized(n) \in Seq(R) /\ Len(Resized(n)) = n
BY DEF Resized

LEMMA ShiftedType ==
    ASSUME NEW R, NEW m \in Seq(R), NEW id \in Nat
    PROVE  Shifted(m, id) \in Seq(R)
BY DEF Shifted

LEMMA IntervalSize ==
    ASSUME NEW n \in Nat
    PROVE  IsFiniteSet(1 .. n) /\ Cardinality(1 .. n) = n
<1>1. IsFiniteSet(1 .. n) /\ Cardinality(1 .. n) = IF 1 > n THEN 0 ELSE n - 1 + 1
    BY FS_Interval
<1> QED
    BY <1>1

\* The entries a range delete leaves, and the order it puts them in.
Staying(m, id1, id2) == {i \in DOMAIN m : i < id1 \/ id2 < i \/ Kept(m[i])}
Rising(n, S) == {f \in [1 .. n -> S] : \A i, j \in 1 .. n : i < j => f[i] < f[j]}

LEMMA CompactedIs ==
    ASSUME NEW R, NEW m \in Seq(R), NEW id1, NEW id2, NEW c \in Compacted(m, id1, id2),
           NEW stay, stay = Staying(m, id1, id2)
    PROVE  /\ IsFiniteSet(stay) /\ Cardinality(stay) \in Nat /\ Cardinality(stay) <= Len(m)
           /\ \E f \in Rising(Cardinality(stay), stay) :
                 c = [i \in 1 .. Cardinality(stay) |-> m[f[i]]]
<1>1. stay \subseteq 1 .. Len(m) /\ Len(m) \in Int /\ Len(m) >= 0
    BY DEF Staying
<1>2. Cardinality(stay) \in Nat /\ Cardinality(stay) <= Len(m) /\ IsFiniteSet(stay)
    <2>1. IsFiniteSet(1 .. Len(m)) /\ Cardinality(1 .. Len(m)) = Len(m)
        BY <1>1, IntervalSize
    <2> QED
        BY <1>1, <2>1, FS_Subset, FS_CardinalityType
<1>3. PICK f \in [1 .. Cardinality(stay) -> stay] :
         /\ \A i, j \in DOMAIN f : i < j => f[i] < f[j]
         /\ c = [n \in DOMAIN f |-> m[f[n]]]
    BY DEF Compacted, Staying
<1>4. /\ f \in Rising(Cardinality(stay), stay)
      /\ c = [i \in 1 .. Cardinality(stay) |-> m[f[i]]]
    BY <1>3 DEF Rising
<1> QED
    BY <1>2, <1>4

LEMMA CompactedType ==
    ASSUME NEW R, NEW m \in Seq(R), NEW id1, NEW id2, NEW c \in Compacted(m, id1, id2)
    PROVE  c \in Seq(R) /\ Len(c) \in Nat /\ Len(c) <= Len(m)
<1> DEFINE stay == Staying(m, id1, id2)
           n == Cardinality(stay)
<1>1. /\ n \in Nat /\ n <= Len(m)
      /\ \E f \in Rising(n, stay) : c = [i \in 1 .. n |-> m[f[i]]]
    BY CompactedIs
<1>2. PICK f \in Rising(n, stay) : c = [i \in 1 .. n |-> m[f[i]]]
    BY <1>1
<1>3. \A i \in 1 .. n : m[f[i]] \in R
    BY DEF Rising, Staying
<1> HIDE DEF stay, n
<1> QED
    BY <1>1, <1>2, <1>3

LEMMA ReplacedType ==
    ASSUME NEW R, NEW m \in Seq(R), NEW id, NEW r \in R
    PROVE  [m EXCEPT ![id] = r] \in Seq(R) /\ Len([m EXCEPT ![id] = r]) = Len(m)
<1>1. CASE id \in 1 .. Len(m)
    BY <1>1, ExceptSeq
<1>2. CASE id \notin 1 .. Len(m)
    <2>1. [m EXCEPT ![id] = r] = m
        BY <1>2
    <2> QED
        BY <2>1
<1> QED
    BY <1>1, <1>2

LEMMA RelocatedType ==
    ASSUME NEW R, NEW m \in Seq(R), NEW src \in Nat, NEW dst \in Nat \ {0}
    PROVE  Relocated(m, src, dst) \in Seq(R)
<1> USE DEF Relocated
<1>1. CASE src \notin DOMAIN m
    BY <1>1
<1>2. CASE src \in DOMAIN m /\ src < dst
    <2>1. Relocated(m, src, dst) =
             [i \in 1 .. Len(m) |->
                IF src <= i /\ i < dst /\ i + 1 \in DOMAIN m THEN m[i + 1]
                ELSE IF i = dst THEN m[src] ELSE m[i]]
        BY <1>2
    <2> QED
        BY <1>2, <2>1
<1>3. CASE src \in DOMAIN m /\ ~(src < dst)
    <2>1. Relocated(m, src, dst) =
             [i \in 1 .. Len(m) |->
                IF i = dst THEN m[src]
                ELSE IF dst < i /\ i <= src THEN m[i - 1] ELSE m[i]]
        BY <1>3
    <2> QED
        BY <1>3, <2>1
<1> QED
    BY <1>1, <1>2, <1>3

-----------------------------------------------------------------------------
(* The searches. *)

LEMMA Least ==
    ASSUME NEW S \in SUBSET Nat, S # {}
    PROVE  \E x \in S : \A y \in S : x <= y
<1> DEFINE R == OpToRel(<, Nat)
<1>1. \A x, y \in S : x < y => <<x, y>> \in R
    BY DEF OpToRel
<1> HIDE DEF R
<1>2. IsWellFoundedOn(R, Nat)
    BY NatLessThanWellFounded DEF R
<1>3. PICK x \in S : \A y \in S : <<y, x>> \notin R
    BY <1>2, WFMin
<1>4. \A y \in S : ~(y < x)
    BY <1>1, <1>3
<1> QED
    BY <1>4

LEMMA Greatest ==
    ASSUME NEW n \in Nat, NEW S \in SUBSET (0 .. n), S # {}
    PROVE  \E x \in S : \A y \in S : y <= x
<1> DEFINE T == {n - x : x \in S}
<1>1. T \in SUBSET Nat /\ T # {}
    <2>1. \A x \in S : n - x \in Nat
        OBVIOUS
    <2> QED
        BY <2>1
<1>2. PICK t \in T : \A y \in T : t <= y
    BY <1>1, Least
<1>3. PICK x \in S : t = n - x
    OBVIOUS
<1>4. \A y \in S : n - x <= n - y
    BY <1>2, <1>3
<1> QED
    BY <1>4

(* The entry found, if one is, has the name looked for. *)
LEMMA FoundName ==
    ASSUME NEW R, NEW m \in Seq(R), NEW ent, NEW name,
           FindName(m, ent, name) # 0
    PROVE  /\ FindName(m, ent, name) \in DOMAIN m
           /\ m[FindName(m, ent, name)].name = name
<1> DEFINE hits == {i \in DOMAIN m : m[i].name = name}
<1>1. hits \in SUBSET Nat
    OBVIOUS
<1>2. hits # {} => \E i \in hits : \A j \in hits : i <= j
    BY <1>1, Least
<1>3. FindName(m, ent, name) \in hits
    BY <1>2 DEF FindName
<1> QED
    BY <1>3

-----------------------------------------------------------------------------
(* What the calls share. *)

LEMMA TypeWrite ==
    ASSUME TypeInv, NEW p \in Proc, pc[p] # "idle",
           NEW f \in Seq(Record), Write(p, f)
    PROVE  TypeInv'
<1>1. (torn \/ Faults(p)) \in BOOLEAN
    BY DEF Faults
<1>2. Counted'
    BY DEF TypeInv, TypeOK, Counted, Write, Goto
<1> QED
    BY <1>1, <1>2 DEF TypeInv, TypeOK, Write, Goto, Stages, env

LEMMA TypeMoved ==
    ASSUME TypeInv, NEW p \in Proc, pc[p] # "idle",
           NEW f \in Seq(Record), NEW n \in Nat,
           NEW names \in SUBSET (Name \cup {NoName}), Moved(p, f, n, names)
    PROVE  TypeInv'
<1>1. (torn \/ Faults(p)) \in BOOLEAN
    BY DEF Faults
<1>2. Counted'
    BY DEF TypeInv, TypeOK, Counted, Moved, Goto
<1> QED
    BY <1>1, <1>2 DEF TypeInv, TypeOK, Moved, Goto, Stages, env

LEMMA TypeReturn ==
    ASSUME TypeInv, NEW p \in Proc, Return(p), holder' \in Proc \cup {NoProc},
           UNCHANGED <<file, used, gone>>, torn' \in BOOLEAN,
           interrupts' \in Nat, crashes' \in Nat, mapfails' \in Nat
    PROVE  TypeInv'
<1>1. Counted'
    BY DEF TypeInv, TypeOK, Counted, Return, Goto
<1>2. NoCall \in Call
    BY ZeroRecord DEF NoCall, Call, OpNames
<1> QED
    BY <1>1, <1>2 DEF TypeInv, TypeOK, Return, Goto, Stages

LEMMA ReleaseType ==
    ASSUME TypeOK, NEW p \in Proc, Release(p)
    PROVE  holder' \in Proc \cup {NoProc}
BY DEF TypeOK, Release

(* An entry a mapping shows has the name of an article, or none. *)
LEMMA NamesMapped ==
    ASSUME NEW m \in Seq(Record), NEW i \in DOMAIN m
    PROVE  m[i].name \in Name \cup {NoName}
<1>1. m[i] \in Record
    OBVIOUS
<1> QED
    BY <1>1 DEF Record

LEMMA NamesOfType ==
    ASSUME NEW s \in Seq(Record)
    PROVE  NamesOf(s) \in SUBSET Name
BY NamesMapped DEF NamesOf

-----------------------------------------------------------------------------
(* The calls, one by one. *)

(***************************************************************************)
(* A call puts no records into the file but its own and those it has       *)
(* mapped, and leaves cutting the file to the ftruncate after it.          *)
(***************************************************************************)
LEMMA Written ==
    ASSUME TypeInv, NEW p \in Proc, Change(p),
           NEW R \in SUBSET Record, file \in Seq(R), call[p].rec \in R,
           \/ Zero \in R
           \/ /\ snap[p] <= Len(file)
              /\ call[p].op = "substitute" => call[p].ent <= Len(file)
    PROVE  file' \in Seq(R) /\ Len(file') >= Len(file)
<1> DEFINE m == Mapped(p)
<1>2. /\ TypeOK /\ call[p] \in Call /\ snap[p] \in Nat
      /\ call[p].ent \in Nat /\ call[p].to \in Nat
    BY DEF TypeInv, TypeOK, Call
<1>3. m \in Seq(R) /\ Len(m) \in Nat
    BY <1>2, MappedType
<1>4. ASSUME NEW x \in Seq(R), NEW n, NEW names,
             Write(p, Stored(x)) \/ Moved(p, Stored(x), n, names)
      PROVE  file' \in Seq(R) /\ Len(file') >= Len(file)
    BY <1>4, StoredType DEF Write, Moved
<1>5. ASSUME GiveUp(p) PROVE file' \in Seq(R) /\ Len(file') >= Len(file)
    BY <1>5 DEF GiveUp, Write
<1> HIDE DEF m
<1>6. CASE append_record(p)
    BY <1>6 DEF append_record, Write
<1>7. CASE delete_record(p)
    <2>1. Shifted(m, call[p].ent) \in Seq(R)
        BY <1>2, <1>3, ShiftedType
    <2> QED
        BY <1>4, <1>5, <1>7, <2>1 DEF delete_record, m
<1>8. CASE delete_file(p)
    <2> DEFINE id == FindName(m, call[p].ent, call[p].rec.name)
    <2>1. CASE id \in Nat
        <3>1. Shifted(m, id) \in Seq(R)
            BY <1>3, <2>1, ShiftedType
        <3> QED
            BY <1>4, <1>5, <1>8, <3>1 DEF delete_file, m
    <2>2. CASE id \notin Nat
        BY <1>3, <2>2, FoundName
    <2> QED
        BY <2>1, <2>2
<1>9. CASE process_records(p)
    <2> DEFINE joined(c) == [i \in DOMAIN m |-> IF i <= Len(c) THEN c[i] ELSE m[i]]
    <2>1. PICK c \in Compacted(m, call[p].ent, call[p].to) :
             GiveUp(p) \/ \E n, names : Moved(p, Stored(joined(c)), n, names)
        BY <1>9 DEF process_records, m
    <2>2. c \in Seq(R) /\ Len(c) \in Nat
        BY <1>2, <1>3, CompactedType
    <2>3. joined(c) \in Seq(R)
        <3>1. joined(c) = [i \in 1 .. Len(m) |-> IF i <= Len(c) THEN c[i] ELSE m[i]]
            BY <1>3
        <3>2. ASSUME NEW i \in 1 .. Len(m)
              PROVE  (IF i <= Len(c) THEN c[i] ELSE m[i]) \in R
            BY <1>3, <2>2, <3>2
        <3> HIDE DEF joined
        <3> QED
            BY <1>3, <3>1, <3>2
    <2> QED
        BY <1>4, <1>5, <2>1, <2>3
<1>10. CASE substitute_record(p)
    <2> DEFINE e == call[p].ent
               n == IF e > Len(file) THEN e ELSE Len(file)
    <2>1. n \in Nat /\ (Zero \in R \/ n <= Len(file))
        BY <1>2, <1>10 DEF substitute_record, At
    <2>2. /\ [Resized(n) EXCEPT ![e] = call[p].rec] \in Seq(R)
          /\ Len([Resized(n) EXCEPT ![e] = call[p].rec]) = n
        BY <2>1, ResizedType, ReplacedType
    <2> QED
        BY <1>10, <2>2 DEF substitute_record, Write
<1>11. CASE safe_substitute_record(p)
    <2>1. \A id : [m EXCEPT ![id] = call[p].rec] \in Seq(R)
        BY <1>3, ReplacedType
    <2>2. GiveUp(p) \/ \E id : Write(p, Stored([m EXCEPT ![id] = call[p].rec]))
        BY <1>11 DEF safe_substitute_record, m
    <2> QED
        BY <1>4, <1>5, <2>1, <2>2
<1>12. CASE move_record(p)
    <2>1. call[p].to \in Nat \ {0}
        BY <1>2, <1>12 DEF TypeInv, Counted, move_record, At
    <2>2. Relocated(m, call[p].ent, call[p].to) \in Seq(R)
        BY <1>2, <1>3, <2>1, RelocatedType
    <2> QED
        BY <1>4, <1>12, <2>2 DEF move_record, m
<1>13. CASE sort_records(p)
    <2> DEFINE sorted(f) == [i \in DOMAIN m |-> m[f[i]]]
    <2>1. GiveUp(p) \/ \E f \in [DOMAIN m -> DOMAIN m] : Write(p, Stored(sorted(f)))
        BY <1>13 DEF sort_records, m
    <2>2. ASSUME NEW f \in [DOMAIN m -> DOMAIN m] PROVE sorted(f) \in Seq(R)
        <3>1. DOMAIN m = 1 .. Len(m) /\ \A i \in DOMAIN m : m[i] \in R
            BY <1>3
        <3>2. \A i \in 1 .. Len(m) : m[f[i]] \in R
            BY <2>2, <3>1
        <3> QED
            BY <1>3, <3>1, <3>2
    <2> QED
        BY <1>4, <1>5, <2>1, <2>2
<1> QED
    BY <1>6, <1>7, <1>8, <1>9, <1>10, <1>11, <1>12, <1>13 DEF Change

LEMMA TypeChange ==
    ASSUME TypeInv, NEW p \in Proc, Change(p)
    PROVE  TypeInv'
<1> DEFINE m == Mapped(p)
<1>1. pc[p] = "locked"
    BY DEF Change, At, append_record, delete_record, delete_file, process_records,
           substitute_record, safe_substitute_record, move_record, sort_records
<1>2. /\ TypeOK /\ file \in Seq(Record) /\ call[p] \in Call
      /\ snap[p] \in Nat /\ call[p].rec \in Record
      /\ call[p].ent \in Nat /\ call[p].to \in Nat
      /\ call[p].rec.name \in Name \cup {NoName}
    BY DEF TypeInv, TypeOK, Call, Record
<1>3. m \in Seq(Record) /\ Len(m) \in Nat /\ Len(m) <= snap[p]
    BY <1>2, MappedType, ZeroRecord
<1>4. file' \in Seq(Record)
    BY <1>2, Written, ZeroRecord
<1>5. ASSUME NEW f, Write(p, f) PROVE TypeInv'
    BY <1>1, <1>4, <1>5, TypeWrite DEF Write
<1>6. ASSUME NEW f, NEW n \in Nat, NEW names \in SUBSET (Name \cup {NoName}),
             Moved(p, f, n, names)
      PROVE  TypeInv'
    BY <1>1, <1>4, <1>6, TypeMoved DEF Moved
<1> HIDE DEF m
<1>7. CASE delete_record(p) /\ ~GiveUp(p)
    <2> DEFINE names == IF call[p].ent \in DOMAIN file
                        THEN {file[call[p].ent].name} ELSE {}
    <2>1. names \in SUBSET (Name \cup {NoName})
        BY <1>2, NamesMapped
    <2>2. snap[p] - 1 \in Nat
        BY <1>2, <1>7 DEF delete_record
    <2>3. \E f : Moved(p, f, snap[p] - 1, names)
        BY <1>7 DEF delete_record
    <2> QED
        BY <1>6, <2>1, <2>2, <2>3
<1>8. CASE delete_file(p) /\ ~GiveUp(p)
    <2>1. snap[p] - 1 \in Nat
        BY <1>2, <1>8 DEF delete_file
    <2>2. \E f : Moved(p, f, snap[p] - 1, {call[p].rec.name})
        BY <1>8 DEF delete_file
    <2> QED
        BY <1>2, <1>6, <2>1, <2>2
<1>9. CASE process_records(p) /\ ~GiveUp(p)
    <2> DEFINE dropped == {m[i].name : i \in {j \in DOMAIN m : /\ call[p].ent <= j
                                                               /\ j <= call[p].to
                                                               /\ ~Kept(m[j])}}
    <2>1. PICK c \in Compacted(m, call[p].ent, call[p].to) :
             \E f : Moved(p, f, snap[p] - (Len(m) - Len(c)), dropped)
        BY <1>9 DEF process_records, m
    <2>2. snap[p] - (Len(m) - Len(c)) \in Nat
        BY <1>2, <1>3, CompactedType
    <2>3. dropped \in SUBSET (Name \cup {NoName})
        BY <1>3, NamesMapped
    <2> QED
        BY <1>6, <2>1, <2>2, <2>3
<1>10. CASE \E f : Write(p, f)
    BY <1>5, <1>10
<1> QED
    BY <1>7, <1>8, <1>9, <1>10
       DEF Change, GiveUp, append_record, delete_record, delete_file, process_records,
           substitute_record, safe_substitute_record, move_record, sort_records

LEMMA TypePick ==
    ASSUME TypeInv, NEW p \in Proc, Pick(p)
    PROVE  TypeInv'
<1>1. holder' \in Proc \cup {NoProc}
    BY ReleaseType DEF Pick, TypeInv
<1>2. PICK o \in Ops[p] \ {"append"}, e \in DOMAIN file, t \in DOMAIN file \cup {ToTheEnd} :
          call' = [call EXCEPT ![p] =
                [op |-> o, ent |-> e, to |-> t,
                 rec |-> IF o \in {"substitute", "safe_sorted", "safe_linear"}
                         THEN [file[e] EXCEPT !.rev = 1 - @] ELSE file[e]]]
    BY DEF Pick
<1>3. /\ o \in OpNames /\ file[e] \in Record
      /\ e \in Nat \ {0} /\ t \in Nat \ {0}
    BY OpsAssumption DEF TypeInv, TypeOK, ToTheEnd
<1>4. [file[e] EXCEPT !.rev = 1 - @] \in Record
    BY <1>3 DEF Record
<1>5. call' \in [Proc -> Call]
    BY <1>2, <1>3, <1>4 DEF TypeInv, TypeOK, Call
<1>6. Counted'
    BY <1>2, <1>3 DEF TypeInv, TypeOK, Counted, Pick, Goto
<1> QED
    BY <1>1, <1>5, <1>6 DEF TypeInv, TypeOK, Pick, Goto, Stages, env

-----------------------------------------------------------------------------
LEMMA TypeInit == Init => TypeInv
<1> SUFFICES ASSUME Init PROVE TypeInv
    OBVIOUS
<1>1. NoCall \in Call
    BY ZeroRecord DEF NoCall, Call, OpNames
<1>2. NamesOf(Initial) \in SUBSET Name
    BY InitialAssumption, NamesOfType
<1> QED
    BY <1>1, <1>2, InitialAssumption DEF Init, TypeInv, TypeOK, Counted, Stages

LEMMA TypeStep == TypeInv /\ [Next]_vars => TypeInv'
<1> SUFFICES ASSUME TypeInv, [Next]_vars PROVE TypeInv'
    OBVIOUS
<1>1. CASE UNCHANGED vars
    BY <1>1 DEF vars, env, TypeInv, TypeOK, Counted
<1>2. CASE Next
    <2> PICK p \in Proc : Step(p)
        BY <1>2 DEF Next
    <2>1. CASE Post(p)
        <3>1. PICK n \in Name \ used :
                 /\ used' = used \cup {n}
                 /\ call' = [call EXCEPT ![p] = [op |-> "append", ent |-> 0, to |-> 0,
                                                 rec |-> [name |-> n, rev |-> 0]]]
            BY <2>1 DEF Post
        <3>2. [op |-> "append", ent |-> 0, to |-> 0, rec |-> [name |-> n, rev |-> 0]] \in Call
            BY DEF Call, OpNames, Record
        <3>3. Counted'
            BY <2>1, <3>1 DEF Post, Goto, TypeInv, TypeOK, Counted
        <3> QED
            BY <2>1, <3>1, <3>2, <3>3 DEF Post, Goto, TypeInv, TypeOK, Stages, env
    <2>2. CASE Pick(p)
        BY <2>2, TypePick
    <2>3. CASE Open(p)
        <3>1. Counted'
            BY <2>3 DEF Open, Goto, TypeInv, TypeOK, Counted
        <3>2. Len(file) \in Nat /\ NamesOf(file) \in SUBSET Name
            BY NamesOfType DEF TypeInv, TypeOK
        <3>3. snap' \in [Proc -> Nat] /\ known' \in [Proc -> SUBSET Name]
            BY <2>3, <3>2 DEF Open, TypeInv, TypeOK
        <3> QED
            BY <2>3, <3>1, <3>3 DEF Open, Goto, TypeInv, TypeOK, Stages, env
    <2>4. CASE f_exlock(p)
        <3>1. Counted'
            BY <2>4 DEF f_exlock, Goto, TypeInv, TypeOK, Counted
        <3> QED
            BY <2>4, <3>1 DEF f_exlock, Goto, TypeInv, TypeOK, Stages, env
    <2>5. CASE Interrupted(p)
        <3>1. Counted'
            BY <2>5 DEF Interrupted, Goto, TypeInv, TypeOK, Counted
        <3> QED
            BY <2>5, <3>1 DEF Interrupted, Goto, TypeInv, TypeOK, Stages
    <2>6. CASE Change(p)
        BY <2>6, TypeChange
    <2>7. CASE ftruncate(p)
        <3>1. Resized(cut[p]) \in Seq(Record)
            BY ResizedType, ZeroRecord DEF TypeInv, TypeOK
        <3> QED
            BY <2>7, <3>1, TypeWrite DEF ftruncate
    <2>8. CASE Refuse(p) \/ delete_file_killed(p) \/ close(p)
        BY <2>8, TypeReturn, ReleaseType
           DEF Refuse, delete_file_killed, close, env, TypeInv, TypeOK
    <2>9. CASE MapFails(p)
        <3>1. holder' \in Proc \cup {NoProc}
            BY <2>9, ReleaseType DEF MapFails, TypeInv, TypeOK
        <3> QED
            BY <2>9, <3>1, TypeReturn DEF MapFails, TypeInv, TypeOK
    <2>10. CASE Crash(p)
        <3>1. torn' \in BOOLEAN
            BY <2>10 DEF Crash
        <3>2. holder' \in Proc \cup {NoProc}
            BY <2>10, ReleaseType DEF Crash, TypeInv
        <3>3. /\ Return(p) /\ UNCHANGED <<file, used, gone, interrupts, mapfails>>
              /\ crashes' = crashes + 1
            BY <2>10 DEF Crash
        <3>4. interrupts' \in Nat /\ crashes' \in Nat /\ mapfails' \in Nat
            BY <3>3 DEF TypeInv, TypeOK
        <3> QED
            BY <3>1, <3>2, <3>3, <3>4, TypeReturn
    <2> QED
        BY <2>1, <2>2, <2>3, <2>4, <2>5, <2>6, <2>7, <2>8, <2>9, <2>10 DEF Step
<1> QED
    BY <1>1, <1>2

(***************************************************************************)
(* The file stays a sequence of records and every size stays a size,       *)
(* whatever stale sizes, faults and crashes the calls of record.c meet.    *)
(***************************************************************************)
THEOREM TypesHold == Spec => []TypeOK
<1>1. TypeInv => TypeOK
    BY DEF TypeInv
<1> QED
    BY TypeInit, TypeStep, <1>1, PTL DEF Spec
=============================================================================
