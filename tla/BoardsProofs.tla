----------------------------- MODULE BoardsProofs -----------------------------
(* The board list's copy and its counts of readers, for any processes. *)
EXTENDS Boards, FiniteSetTheorems, WellFoundedInduction, TLAPS

(***************************************************************************)
(* CopyTrue looks at a copy nobody is rebuilding.  It is inductive together*)
(* with what is so during a rebuild:                                       *)
(*   - one process at a time fills the copy, the one with the lock file;   *)
(*   - it is at most one past the last record;                             *)
(*   - while no record was written, the records it has copied are those    *)
(*     of the file, and the file has the size it found.                    *)
(***************************************************************************)
Shapes ==
    /\ size \in 0 .. MaxBoards
    /\ bcache = [i \in Slots |-> bcache[i]]
    /\ rebuild \in [Proc -> Resolving]
    /\ at \in [Proc -> 1 .. MaxBoards + 1] /\ upto \in [Proc -> 0 .. MaxBoards]
    /\ missed \in BOOLEAN /\ stuck \in BOOLEAN /\ newer \in BOOLEAN

LockHeld == \A p \in Proc : rebuild[p] = "fill" <=> holder = p

Within == \A p \in Proc : rebuild[p] = "fill" => at[p] <= upto[p] + 1

CopiedTrue == \A p \in Proc : rebuild[p] = "fill" /\ ~missed =>
    upto[p] = size /\ \A i \in 1 .. at[p] - 1 : bcache[i] = file[i]

CopyInv == Shapes /\ LockHeld /\ Within /\ CopiedTrue /\ CopyTrue

-----------------------------------------------------------------------------
LEMMA InitCopyInv == Init => CopyInv
<1> SUFFICES ASSUME Init PROVE CopyInv
    OBVIOUS
<1>1. PICK n \in 0 .. MaxBoards : InitialBoards \in [1 .. n -> Name]
    BY InitialAssumption
<1>2. size = n
    BY <1>1, FS_Interval, BoundAssumption DEF Init
<1>3. bcache = [i \in Slots |-> bcache[i]]
    BY DEF Init
<1>4. Shapes
    <2>1. size \in 0 .. MaxBoards
        BY <1>2
    <2>2. at \in [Proc -> 1 .. MaxBoards + 1] /\ upto \in [Proc -> 0 .. MaxBoards]
        BY BoundAssumption DEF Init
    <2>3. rebuild \in [Proc -> Resolving] /\ missed \in BOOLEAN
          /\ stuck \in BOOLEAN /\ newer \in BOOLEAN
        BY DEF Init, Resolving
    <2> QED
        BY <2>1, <2>2, <2>3, <1>3 DEF Shapes
<1>5. LockHeld /\ Within /\ CopiedTrue
    BY ProcAssumption DEF Init, LockHeld, Within, CopiedTrue, Proc
<1>6. CopyTrue
    BY DEF Init, CopyTrue, SameAsFile
<1> QED
    BY <1>4, <1>5, <1>6 DEF CopyInv

(* The list and its copy stay, and whoever fills the copy is where it was. *)
LEMMA ListKept ==
    ASSUME CopyInv, UNCHANGED <<size, file, number, bcache, newer, holder, missed, stuck>>,
           rebuild' \in [Proc -> Resolving],
           at' \in [Proc -> 1 .. MaxBoards + 1], upto' \in [Proc -> 0 .. MaxBoards],
           \A p \in Proc : /\ rebuild'[p] = "fill" <=> rebuild[p] = "fill"
                           /\ rebuild[p] = "fill" => at'[p] = at[p] /\ upto'[p] = upto[p]
    PROVE  CopyInv'
<1>1. Shapes'
    BY DEF CopyInv, Shapes
<1>2. LockHeld' /\ Within'
    BY DEF CopyInv, LockHeld, Within
<1>3. CopiedTrue'
    BY DEF CopyInv, CopiedTrue
<1>4. CopyTrue'
    BY DEF CopyInv, CopyTrue, SameAsFile
<1> QED
    BY <1>1, <1>2, <1>3, <1>4 DEF CopyInv

(* A step of a command that neither writes nor asks for a refresh. *)
LEMMA Elsewhere ==
    ASSUME CopyInv, UNCHANGED <<boards, copy>>
    PROVE  CopyInv'
BY ListKept DEF boards, copy, CopyInv, Shapes

(* refresh_bcache, after a record was written or not. *)
LEMMA RefreshKeeps ==
    ASSUME CopyInv, NEW p \in Proc, rebuild[p] = "no", Refresh(p), UNCHANGED copyrest,
           size' \in 0 .. MaxBoards,
           \/ UNCHANGED <<size, file, missed>>
           \/ Written
    PROVE  CopyInv'
<1>1. UNCHANGED <<number, bcache, holder, at, upto, stuck>>
    BY DEF copyrest
<1>2. rebuild' = [rebuild EXCEPT ![p] = "look"] /\ newer' = FALSE
    BY DEF Refresh, Rebuild
<1>3. \A q \in Proc : rebuild'[q] = "fill" <=> rebuild[q] = "fill"
    BY <1>2 DEF CopyInv, Shapes
<1>4. Shapes'
    BY <1>1, <1>2 DEF CopyInv, Shapes, Resolving, Written
<1>5. LockHeld' /\ Within'
    BY <1>1, <1>3 DEF CopyInv, LockHeld, Within
<1>6. CopiedTrue'
    <2> SUFFICES ASSUME NEW q \in Proc, rebuild'[q] = "fill", ~missed'
                 PROVE  /\ upto'[q] = size'
                        /\ \A i \in 1 .. at'[q] - 1 : bcache'[i] = file'[i]
        BY DEF CopiedTrue
    <2>1. rebuild[q] = "fill" /\ holder = q
        BY <1>3 DEF CopyInv, LockHeld
    <2>2. UNCHANGED <<size, file, missed>>
        BY <2>1, ProcAssumption DEF Written, Proc
    <2> QED
        BY <1>1, <2>1, <2>2 DEF CopyInv, CopiedTrue
<1>7. CopyTrue'
    BY <1>2 DEF CopyTrue
<1> QED
    BY <1>4, <1>5, <1>6, <1>7 DEF CopyInv

-----------------------------------------------------------------------------
(* The steps of a rebuild. *)

\* Between two stages of resolve_boards that are not the filling.
LEMMA StageKeeps ==
    ASSUME CopyInv, NEW p \in Proc, NEW l \in Resolving \ {"fill"}, rebuild[p] # "fill",
           Rebuild(p, l), UNCHANGED <<size, file, number, bcache, newer, holder, missed, stuck>>,
           UNCHANGED <<at, upto>> \/ Unused(p)
    PROVE  CopyInv'
<1>1. rebuild' \in [Proc -> Resolving]
    BY DEF CopyInv, Shapes, Rebuild
<1>2. at' \in [Proc -> 1 .. MaxBoards + 1] /\ upto' \in [Proc -> 0 .. MaxBoards]
    BY BoundAssumption DEF CopyInv, Shapes, Unused
<1>3. \A q \in Proc : /\ rebuild'[q] = "fill" <=> rebuild[q] = "fill"
                      /\ rebuild[q] = "fill" => at'[q] = at[q] /\ upto'[q] = upto[q]
    BY DEF CopyInv, Shapes, Rebuild, Unused
<1> QED
    BY <1>1, <1>2, <1>3, ListKept

LEMMA StagesKeep ==
    ASSUME CopyInv, NEW p \in Proc, Resolve(p) \/ Look(p) \/ NoLock(p) \/ Unflag(p)
    PROVE  CopyInv'
<1>1. CASE Resolve(p)
    BY <1>1, StageKeeps DEF Resolve, Resolving, boards
<1>2. CASE Look(p)
    <2>1. CASE Due
        BY <1>2, <2>1, StageKeeps DEF Look, Resolving, boards
    <2>2. CASE ~Due
        BY <1>2, <2>2, StageKeeps DEF Look, Resolving, boards
    <2> QED
        BY <2>1, <2>2
<1>3. CASE NoLock(p)
    BY <1>3, StageKeeps DEF NoLock, Resolving, boards
<1>4. CASE Unflag(p)
    BY <1>4, StageKeeps DEF Unflag, Resolving, boards
<1> QED
    BY <1>1, <1>2, <1>3, <1>4

LEMMA LockKeeps ==
    ASSUME CopyInv, NEW p \in Proc, Lock(p)
    PROVE  CopyInv'
<1>1. UNCHANGED <<size, file, number, bcache, newer, stuck>> /\ holder = NoProc
      /\ holder' = p /\ missed' = FALSE
    BY DEF Lock, boards
<1>2. /\ rebuild' = [rebuild EXCEPT ![p] = "fill"]
      /\ at' = [at EXCEPT ![p] = 1] /\ upto' = [upto EXCEPT ![p] = size]
    BY DEF Lock, Rebuild
<1>3. \A q \in Proc : rebuild[q] # "fill"
    BY <1>1, ProcAssumption DEF CopyInv, LockHeld, Proc
<1>4. Shapes'
    <2>1. at' \in [Proc -> 1 .. MaxBoards + 1]
        BY <1>2, BoundAssumption DEF CopyInv, Shapes
    <2>2. upto' \in [Proc -> 0 .. MaxBoards]
        BY <1>2 DEF CopyInv, Shapes
    <2>3. rebuild' \in [Proc -> Resolving]
        BY <1>2 DEF CopyInv, Shapes, Resolving
    <2> QED
        BY <1>1, <2>1, <2>2, <2>3 DEF CopyInv, Shapes
<1>5. rebuild'[p] = "fill" /\ at'[p] = 1 /\ upto'[p] = size
    BY <1>2 DEF CopyInv, Shapes
<1>6. \A q \in Proc : q # p => rebuild'[q] # "fill"
    BY <1>2, <1>3 DEF CopyInv, Shapes
<1>7. LockHeld'
    BY <1>1, <1>5, <1>6 DEF LockHeld
<1>8. Within'
    BY <1>1, <1>5, <1>6 DEF Within, CopyInv, Shapes
<1>9. CopiedTrue'
    BY <1>1, <1>5, <1>6 DEF CopiedTrue
<1>10. CopyTrue'
    BY <1>1, ProcAssumption DEF CopyTrue, Proc
<1> QED
    BY <1>4, <1>7, <1>8, <1>9, <1>10 DEF CopyInv

LEMMA FillKeeps ==
    ASSUME CopyInv, NEW p \in Proc, fillbcache(p)
    PROVE  CopyInv'
<1>1. UNCHANGED <<size, file, number, newer, holder, missed, stuck, rebuild, upto>>
    BY DEF fillbcache, boards
<1>2. rebuild[p] = "fill" /\ at[p] <= upto[p] /\ holder = p
    BY DEF fillbcache, CopyInv, LockHeld
<1>3. at[p] \in 1 .. MaxBoards /\ upto[p] \in 0 .. MaxBoards
    BY <1>2, BoundAssumption DEF CopyInv, Shapes
<1>4. /\ bcache' = [bcache EXCEPT ![at[p]] = file[at[p]]]
      /\ at' = [at EXCEPT ![p] = at[p] + 1]
    BY DEF fillbcache
<1>5. at' \in [Proc -> 1 .. MaxBoards + 1] /\ at'[p] = at[p] + 1
    BY <1>3, <1>4, BoundAssumption DEF CopyInv, Shapes
<1>6. bcache' = [i \in Slots |-> bcache'[i]]
    BY <1>4 DEF CopyInv, Shapes
<1>7. bcache'[at[p]] = file[at[p]] /\ \A i \in Slots : i # at[p] => bcache'[i] = bcache[i]
    BY <1>3, <1>4 DEF CopyInv, Shapes, Slots
<1>8. Shapes'
    BY <1>1, <1>5, <1>6 DEF CopyInv, Shapes
<1>9. \A q \in Proc : q # p => rebuild[q] # "fill"
    BY <1>2 DEF CopyInv, LockHeld
<1>10. LockHeld'
    BY <1>1 DEF CopyInv, LockHeld
<1>11. Within'
    BY <1>1, <1>2, <1>3, <1>5, <1>9 DEF Within
<1>12. CopiedTrue'
    <2> SUFFICES ASSUME ~missed
                 PROVE  upto[p] = size /\ \A i \in 1 .. at[p] : bcache'[i] = file[i]
        BY <1>1, <1>3, <1>5, <1>9 DEF CopiedTrue
    <2>1. upto[p] = size /\ \A i \in 1 .. at[p] - 1 : bcache[i] = file[i]
        BY <1>2 DEF CopyInv, CopiedTrue
    <2> QED
        BY <2>1, <1>3, <1>7, BoundAssumption DEF Slots
<1>13. CopyTrue'
    BY <1>1, <1>2, ProcAssumption DEF CopyTrue, Proc
<1> QED
    BY <1>8, <1>10, <1>11, <1>12, <1>13 DEF CopyInv

LEMMA ReleaseKeeps ==
    ASSUME CopyInv, NEW p \in Proc, Release(p)
    PROVE  CopyInv'
<1>1. UNCHANGED <<size, file, bcache, at, upto, missed, stuck>> /\ holder' = NoProc
      /\ number' = at[p] - 1 /\ newer' \in BOOLEAN
    BY DEF Release, boards
<1>2. rebuild[p] = "fill" /\ at[p] > upto[p] /\ holder = p
    BY DEF Release, CopyInv, LockHeld
<1>3. rebuild' = [rebuild EXCEPT ![p] = "unflag"]
    BY DEF Release, Rebuild
<1>4. at[p] \in 1 .. MaxBoards + 1 /\ upto[p] \in 0 .. MaxBoards
    BY DEF CopyInv, Shapes
<1>5. \A q \in Proc : rebuild'[q] # "fill"
    BY <1>2, <1>3 DEF CopyInv, LockHeld, Shapes
<1>6. Shapes'
    BY <1>1, <1>3 DEF CopyInv, Shapes, Resolving
<1>7. LockHeld' /\ Within' /\ CopiedTrue'
    BY <1>1, <1>5, ProcAssumption DEF LockHeld, Within, CopiedTrue, Proc
<1>8. CopyTrue'
    <2> SUFFICES ASSUME ~missed
                 PROVE  at[p] - 1 = size /\ \A i \in 1 .. size : bcache[i] = file[i]
        BY <1>1 DEF CopyTrue, SameAsFile
    <2>1. upto[p] = size /\ \A i \in 1 .. at[p] - 1 : bcache[i] = file[i]
        BY <1>2 DEF CopyInv, CopiedTrue
    <2>2. at[p] <= upto[p] + 1
        BY <1>2 DEF CopyInv, Within
    <2>3. at[p] - 1 = size
        BY <1>2, <1>4, <2>1, <2>2, BoundAssumption
    <2> QED
        BY <2>1, <2>3
<1> QED
    BY <1>6, <1>7, <1>8 DEF CopyInv

\* Whoever dies in a rebuild leaves the copy's flag set: stuck.
LEMMA DiedKeeps ==
    ASSUME CopyInv, NEW p \in Proc, Died(p)
    PROVE  CopyInv'
<1>1. UNCHANGED <<size, file, number, bcache, newer, missed>>
    BY DEF Died, boards
<1>2. rebuild' = [rebuild EXCEPT ![p] = "no"] /\ Unused(p)
    BY DEF Died, Rebuild
<1>3. \A q \in Proc : rebuild'[q] = "fill" <=> (rebuild[q] = "fill" /\ q # p)
    BY <1>2 DEF CopyInv, Shapes
<1>4. \A q \in Proc : q # p => at'[q] = at[q] /\ upto'[q] = upto[q]
    BY <1>2 DEF CopyInv, Shapes, Unused
<1>5. at' \in [Proc -> 1 .. MaxBoards + 1] /\ upto' \in [Proc -> 0 .. MaxBoards]
    BY <1>2, BoundAssumption DEF CopyInv, Shapes, Unused
<1>6. holder' = (IF holder = p THEN NoProc ELSE holder)
      /\ stuck' = (stuck \/ rebuild[p] \in {"fill", "unflag"})
    BY DEF Died
<1>7. Shapes'
    BY <1>1, <1>2, <1>5, <1>6 DEF CopyInv, Shapes, Resolving
<1>8. LockHeld'
    BY <1>3, <1>6, ProcAssumption DEF CopyInv, LockHeld, Proc
<1>9. Within'
    BY <1>3, <1>4 DEF CopyInv, Within
<1>10. CopiedTrue'
    BY <1>1, <1>3, <1>4 DEF CopyInv, CopiedTrue
<1>11. CopyTrue'
    <2>1. CASE holder = p
        BY <1>6, <2>1 DEF CopyInv, LockHeld, CopyTrue
    <2>2. CASE holder # p
        BY <1>1, <1>6, <2>2 DEF CopyInv, CopyTrue, SameAsFile
    <2> QED
        BY <2>1, <2>2
<1> QED
    BY <1>7, <1>8, <1>9, <1>10, <1>11 DEF CopyInv

-----------------------------------------------------------------------------
LEMMA ManagerKeeps ==
    ASSUME CopyInv, NEW p \in Managers, Manager(p)
    PROVE  CopyInv'
<1>p. p \in Proc
    BY DEF Proc
<1>s. size \in 0 .. MaxBoards /\ rebuild \in [Proc -> Resolving]
    BY DEF CopyInv, Shapes
<1>1. CASE d_board(p)
    BY <1>1, <1>p, <1>s, RefreshKeeps DEF d_board, Free, boards
<1>2. CASE Delete(p)
    BY <1>2, <1>p, <1>s, RefreshKeeps DEF Delete, Free
<1>3. CASE Save(p)
    BY <1>3, <1>p, <1>s, RefreshKeeps DEF Save, Free
<1>4. CASE Create(p)
    <2>1. size' \in 0 .. MaxBoards
        BY <1>4, <1>s, BoundAssumption DEF Create
    <2> QED
        BY <1>4, <1>p, <2>1, RefreshKeeps DEF Create, Free
<1>5. CASE Forced(p)
    BY <1>5, <1>p, <1>s, RefreshKeeps DEF Forced, Free, boards
<1>6. CASE ManagerDies(p)
    BY <1>6, <1>p, DiedKeeps DEF ManagerDies
<1>7. CASE \E b \in Name : PickDeleted(p, b) \/ m_newbrd(p, b)
    BY <1>7, Elsewhere DEF PickDeleted, m_newbrd
<1>8. CASE \E i \in 1 .. size, b \in Name : m_editbrd(p, i, b)
    BY <1>8, Elsewhere DEF m_editbrd
<1>9. CASE GiveUp(p)
    BY <1>9, Elsewhere DEF GiveUp
<1> QED
    BY <1>1, <1>2, <1>3, <1>4, <1>5, <1>6, <1>7, <1>8, <1>9 DEF Manager

LEMMA ReaderKeeps ==
    ASSUME CopyInv, NEW p \in Readers, Reader(p)
    PROVE  CopyInv'
<1>1. CASE HangUp(p)
    BY <1>1, DiedKeeps DEF HangUp, Proc
<1>2. CASE \E b \in Name : Read(p, b) \/ Select(p, b)
    BY <1>2, Elsewhere DEF Read, Select
<1>3. CASE Flag(p) \/ Selected(p) \/ SelectGroup(p)
    BY <1>3, Elsewhere DEF Flag, Selected, SelectGroup
<1>4. CASE Leave(p) \/ LeaveGroup(p)
    BY <1>4, Elsewhere DEF Leave, LeaveGroup
<1> QED
    BY <1>1, <1>2, <1>3, <1>4 DEF Reader

LEMMA StepCopyInv == CopyInv /\ [Next]_vars => CopyInv'
<1> SUFFICES ASSUME CopyInv, [Next]_vars PROVE CopyInv'
    OBVIOUS
<1>1. ASSUME NEW p \in Proc, Resolve(p) \/ Rebuilding(p) PROVE CopyInv'
    BY <1>1, StagesKeep, LockKeeps, FillKeeps, ReleaseKeeps DEF Rebuilding
<1>2. ASSUME NEW p \in Managers, Manager(p) PROVE CopyInv'
    BY <1>2, ManagerKeeps
<1>3. ASSUME NEW p \in Readers, Reader(p) PROVE CopyInv'
    BY <1>3, ReaderKeeps
<1>4. CASE Age
    BY <1>4, ListKept DEF Age, boards, CopyInv, Shapes
<1>5. CASE UNCHANGED vars
    BY <1>5, Elsewhere DEF vars
<1> QED
    BY <1>1, <1>2, <1>3, <1>4, <1>5 DEF Next

(* resolve_boards: a copy that counts as newer than .BOARDS is .BOARDS, when
   nobody is rebuilding it, no record was written in the midst of its rebuild
   and no process died in one. *)
THEOREM CopyIsTrue == Spec => []CopyTrue
<1>1. CopyInv => CopyTrue
    BY DEF CopyInv
<1> QED
    BY <1>1, InitCopyInv, StepCopyInv, PTL DEF Spec

-----------------------------------------------------------------------------
(***************************************************************************)
(* The types, in the groups of variables the steps change.                 *)
(***************************************************************************)
FileOK ==
    /\ size \in 0 .. MaxBoards /\ file \in [Slots -> Record]
    /\ changes \in 0 .. MaxChanges
CopyOK ==
    /\ number \in 0 .. MaxBoards /\ bcache \in [Slots -> Record]
    /\ updating \in BOOLEAN /\ uptime \in {"zero", "recent", "old"}
    /\ newer \in BOOLEAN /\ holder \in Proc \cup {NoProc}
    /\ rebuild \in [Proc -> Resolving]
    /\ at \in [Proc -> 1 .. MaxBoards + 1] /\ upto \in [Proc -> 0 .. MaxBoards]
    /\ missed \in BOOLEAN /\ stuck \in BOOLEAN
CommandOK ==
    /\ pc \in [Proc -> Stages] /\ name \in [Proc -> Record]
    /\ pos \in [Proc -> 0 .. MaxBoards]
ReadingOK ==
    /\ inboard \in [Slots -> Nat] /\ is_inboard \in [Readers -> BOOLEAN]
    /\ nested \in SUBSET Readers /\ lost \in BOOLEAN

Types == FileOK /\ CopyOK /\ CommandOK /\ ReadingOK

\* The loop over a rebuilt list ends at a board of it, or at none.
LEMMA NumberFits ==
    ASSUME number \in 0 .. MaxBoards, NEW b
    PROVE  getbnum(b) \in 0 .. MaxBoards
<1> DEFINE S == Numbers(b)
           R == OpToRel(<, Nat)
<1>1. S \in SUBSET Nat /\ S \subseteq 1 .. MaxBoards
    BY BoundAssumption DEF Numbers
<1>2. \A x, y \in S : x < y => <<x, y>> \in R
    BY <1>1 DEF OpToRel
<1> HIDE DEF R
<1>3. IsWellFoundedOn(R, Nat)
    BY NatLessThanWellFounded DEF R
<1>4. ASSUME S # {} PROVE \E x \in S : \A y \in S : x <= y
    <2>1. PICK x \in S : \A y \in S : <<y, x>> \notin R
        BY <1>1, <1>3, <1>4, WFMin
    <2>2. \A y \in S : ~(y < x)
        BY <1>2, <2>1
    <2> QED
        BY <1>1, <2>2
<1>5. S # {} => getbnum(b) \in S
    BY <1>4 DEF getbnum
<1>6. S = {} => getbnum(b) = 0
    BY DEF getbnum
<1> QED
    BY <1>1, <1>5, <1>6, BoundAssumption

LEMMA InitTypes == Init => Types
<1> SUFFICES ASSUME Init PROVE Types
    OBVIOUS
<1>1. PICK n \in 0 .. MaxBoards : InitialBoards \in [1 .. n -> Name]
    BY InitialAssumption
<1>2. size = n /\ DOMAIN InitialBoards = 1 .. n
    BY <1>1, FS_Interval, BoundAssumption DEF Init
<1>3. file \in [Slots -> Record]
    BY <1>1, <1>2 DEF Init, Record
<1>4. FileOK
    BY <1>2, <1>3, BoundAssumption DEF Init, FileOK
<1>5. CopyOK
    <2>1. number \in 0 .. MaxBoards /\ bcache \in [Slots -> Record]
        BY <1>2, <1>3 DEF Init
    <2>2. /\ updating \in BOOLEAN /\ uptime \in {"zero", "recent", "old"}
          /\ newer \in BOOLEAN /\ holder \in Proc \cup {NoProc}
          /\ missed \in BOOLEAN /\ stuck \in BOOLEAN
        BY DEF Init
    <2>3. /\ rebuild \in [Proc -> Resolving]
          /\ at \in [Proc -> 1 .. MaxBoards + 1] /\ upto \in [Proc -> 0 .. MaxBoards]
        BY BoundAssumption DEF Init, Resolving
    <2> QED
        BY <2>1, <2>2, <2>3 DEF CopyOK
<1>6. CommandOK
    BY BoundAssumption DEF Init, CommandOK, Stages, Rest, Record
<1>7. ReadingOK
    BY DEF Init, ReadingOK
<1> QED
    BY <1>4, <1>5, <1>6, <1>7 DEF Types

LEMMA RebuildTypes ==
    ASSUME Types, NEW p \in Proc, Resolve(p) \/ Rebuilding(p)
    PROVE  Types' /\ UNCHANGED <<pc, pos, reading>>
<1>1. UNCHANGED <<boards, command, reading>>
    BY DEF Resolve, Rebuilding, Look, Lock, NoLock, fillbcache, Release, Unflag
<1>2. FileOK' /\ CommandOK' /\ ReadingOK'
    BY <1>1 DEF Types, FileOK, CommandOK, ReadingOK, boards, command, reading
<1>o. CopyOK /\ FileOK
    BY DEF Types
<1>3. ASSUME Resolve(p) \/ Look(p) \/ NoLock(p) PROVE CopyOK'
    <2>1. UNCHANGED <<number, bcache, updating, uptime, newer, holder, at, upto, missed, stuck>>
        BY <1>3 DEF Resolve, Look, NoLock
    <2>2. rebuild' \in [Proc -> Resolving]
        BY <1>3, <1>o DEF Resolve, Look, NoLock, Rebuild, Resolving, CopyOK
    <2> QED
        BY <1>o, <2>1, <2>2 DEF CopyOK
<1>4. ASSUME Lock(p) PROVE CopyOK'
    <2>1. /\ at' \in [Proc -> 1 .. MaxBoards + 1] /\ upto' \in [Proc -> 0 .. MaxBoards]
          /\ rebuild' \in [Proc -> Resolving]
        BY <1>4, <1>o, BoundAssumption DEF Lock, Rebuild, Resolving, CopyOK, FileOK
    <2> QED
        BY <1>4, <1>o, <2>1 DEF Lock, CopyOK
<1>5. ASSUME fillbcache(p) PROVE CopyOK'
    <2>1. at[p] \in Slots
        BY <1>5, <1>o, BoundAssumption DEF fillbcache, CopyOK, Slots
    <2>2. at' \in [Proc -> 1 .. MaxBoards + 1] /\ bcache' \in [Slots -> Record]
        BY <1>5, <1>o, <2>1, BoundAssumption DEF fillbcache, CopyOK, FileOK, Slots
    <2> QED
        BY <1>5, <1>o, <2>2 DEF fillbcache, CopyOK
<1>6. ASSUME Release(p) PROVE CopyOK'
    <2>1. number' \in 0 .. MaxBoards
        BY <1>6, <1>o, BoundAssumption DEF Release, CopyOK
    <2> QED
        BY <1>6, <1>o, <2>1 DEF Release, Rebuild, Resolving, CopyOK
<1>7. ASSUME Unflag(p) PROVE CopyOK'
    <2>1. /\ at' \in [Proc -> 1 .. MaxBoards + 1] /\ upto' \in [Proc -> 0 .. MaxBoards]
          /\ rebuild' \in [Proc -> Resolving]
        BY <1>7, <1>o, BoundAssumption DEF Unflag, Unused, Rebuild, Resolving, CopyOK
    <2> QED
        BY <1>7, <1>o, <2>1 DEF Unflag, CopyOK
<1>8. CopyOK'
    BY <1>3, <1>4, <1>5, <1>6, <1>7 DEF Rebuilding
<1> QED
    BY <1>1, <1>2, <1>8 DEF Types, command

LEMMA DiedTypes ==
    ASSUME Types, NEW p \in Proc, Died(p)
    PROVE  FileOK' /\ CopyOK' /\ CommandOK' /\ pc' = [pc EXCEPT ![p] = "gone"]
<1>1. FileOK /\ CopyOK /\ CommandOK
    BY DEF Types
<1>2. FileOK'
    BY <1>1 DEF Died, FileOK, boards
<1>3. CopyOK'
    BY <1>1, BoundAssumption DEF Died, Unused, Rebuild, Resolving, CopyOK
<1>4. CommandOK'
    BY <1>1, BoundAssumption DEF Died, Over, Goto, CommandOK, Stages, Record
<1> QED
    BY <1>2, <1>3, <1>4 DEF Died, Over, Goto

(* What a manager does to its own command a reader does not see. *)
LEMMA OverTypes ==
    ASSUME Types, NEW p \in Proc, NEW l \in Stages, Over(p, l)
    PROVE  CommandOK' /\ \A q \in Proc \ {p} : pc'[q] = pc[q] /\ pos'[q] = pos[q]
BY BoundAssumption DEF Types, Over, Goto, CommandOK, Record

LEMMA GotoTypes ==
    ASSUME Types, NEW p \in Proc, NEW l \in Stages, Goto(p, l),
           NEW b \in Record, NEW i \in 0 .. MaxBoards,
           UNCHANGED name \/ name' = [name EXCEPT ![p] = b],
           UNCHANGED pos \/ pos' = [pos EXCEPT ![p] = i]
    PROVE  CommandOK' /\ \A q \in Proc \ {p} : pc'[q] = pc[q] /\ pos'[q] = pos[q]
<1>1. pc' \in [Proc -> Stages] /\ \A q \in Proc \ {p} : pc'[q] = pc[q]
    BY DEF Types, Goto, CommandOK
<1>2. name' \in [Proc -> Record]
    BY DEF Types, CommandOK
<1>3. pos' \in [Proc -> 0 .. MaxBoards] /\ \A q \in Proc \ {p} : pos'[q] = pos[q]
    BY DEF Types, CommandOK
<1> QED
    BY <1>1, <1>2, <1>3 DEF CommandOK

LEMMA RefreshTypes ==
    ASSUME Types, NEW p \in Proc, Refresh(p), UNCHANGED copyrest,
           Written \/ UNCHANGED missed
    PROVE  CopyOK'
<1>1. missed' \in BOOLEAN
    BY DEF Types, CopyOK, Written
<1>2. rebuild' \in [Proc -> Resolving]
    BY DEF Types, CopyOK, Refresh, Rebuild, Resolving
<1> QED
    BY <1>1, <1>2 DEF Types, CopyOK, Refresh, copyrest

LEMMA WriteTypes ==
    ASSUME Types, NEW b \in Record, NEW i, changes < MaxChanges, changes' = changes + 1,
           size' \in 0 .. MaxBoards, file' = [file EXCEPT ![i] = b]
    PROVE  FileOK'
<1>1. changes' \in 0 .. MaxChanges
    BY BoundAssumption DEF Types, FileOK
<1>2. file' \in [Slots -> Record]
    BY DEF Types, FileOK
<1> QED
    BY <1>1, <1>2 DEF FileOK

LEMMA ManagerTypes ==
    ASSUME Types, NEW p \in Managers, Manager(p)
    PROVE  /\ Types' /\ UNCHANGED reading
           /\ \A q \in Readers : pc'[q] = pc[q] /\ pos'[q] = pos[q]
<1> DEFINE Others == \A q \in Proc \ {p} : pc'[q] = pc[q] /\ pos'[q] = pos[q]
<1>o. FileOK /\ CopyOK /\ CommandOK /\ ReadingOK /\ p \in Proc
    BY DEF Types, Proc
<1>1. UNCHANGED reading
    BY DEF Manager, d_board, PickDeleted, m_newbrd, m_editbrd, Delete, GiveUp, Save, Create,
           Forced, ManagerDies
<1>2. ReadingOK'
    BY <1>o, <1>1 DEF ReadingOK, reading
<1>3. ASSUME UNCHANGED copy PROVE CopyOK'
    BY <1>o, <1>3 DEF copy, CopyOK
<1>4. ASSUME UNCHANGED boards PROVE FileOK'
    BY <1>o, <1>4 DEF boards, FileOK
<1>5. /\ Blank \in Record /\ name[p] \in Record /\ Name \subseteq Record
      /\ 0 \in 0 .. MaxBoards
    BY <1>o, BoundAssumption DEF Record, CommandOK
<1>6. {"out", "pick", "confirm", "prompt", "check"} \subseteq Stages
    BY DEF Stages, Rest
<1>7. ASSUME d_board(p) PROVE FileOK' /\ CopyOK' /\ CommandOK' /\ Others
    <2>1. FileOK' /\ CopyOK'
        BY <1>7, <1>4, <1>o, RefreshTypes DEF d_board
    <2> QED
        BY <1>7, <1>o, <1>5, <1>6, <2>1, GotoTypes DEF d_board
<1>8. ASSUME NEW b \in Name, PickDeleted(p, b) PROVE FileOK' /\ CopyOK' /\ CommandOK' /\ Others
    <2>1. getbnum(b) \in 0 .. MaxBoards
        BY <1>o, NumberFits DEF CopyOK
    <2>2. FileOK' /\ CopyOK'
        BY <1>8, <1>3, <1>4 DEF PickDeleted
    <2>3. Goto(p, "confirm") /\ name' = [name EXCEPT ![p] = b]
          /\ pos' = [pos EXCEPT ![p] = getbnum(b)]
        BY <1>8 DEF PickDeleted
    <2> QED
        BY <1>o, <1>5, <1>6, <2>1, <2>2, <2>3, GotoTypes
<1>9. ASSUME Delete(p) PROVE FileOK' /\ CopyOK' /\ CommandOK' /\ Others
    <2>1. FileOK'
        BY <1>9, <1>o, <1>5, WriteTypes DEF Delete, FileOK
    <2>2. CopyOK'
        BY <1>9, <1>o, RefreshTypes DEF Delete
    <2> QED
        BY <1>9, <1>o, <1>6, <2>1, <2>2, OverTypes DEF Delete
<1>10. ASSUME GiveUp(p) PROVE FileOK' /\ CopyOK' /\ CommandOK' /\ Others
    BY <1>10, <1>o, <1>3, <1>4, <1>6, OverTypes DEF GiveUp
<1>11. ASSUME NEW b \in Name, m_newbrd(p, b) PROVE FileOK' /\ CopyOK' /\ CommandOK' /\ Others
    <2>1. FileOK' /\ CopyOK'
        BY <1>11, <1>3, <1>4 DEF m_newbrd
    <2> QED
        BY <1>11, <1>o, <1>5, <1>6, <2>1, GotoTypes DEF m_newbrd
<1>12. ASSUME NEW i \in 1 .. size, NEW b \in Name, m_editbrd(p, i, b)
       PROVE  FileOK' /\ CopyOK' /\ CommandOK' /\ Others
    <2>1. FileOK' /\ CopyOK'
        BY <1>12, <1>3, <1>4 DEF m_editbrd
    <2>2. i \in 0 .. MaxBoards
        BY <1>o, BoundAssumption DEF FileOK
    <2> QED
        BY <1>12, <1>o, <1>5, <1>6, <2>1, <2>2, GotoTypes DEF m_editbrd
<1>13. ASSUME Save(p) PROVE FileOK' /\ CopyOK' /\ CommandOK' /\ Others
    <2>1. FileOK'
        BY <1>13, <1>o, <1>5, WriteTypes DEF Save, FileOK
    <2>2. CopyOK'
        BY <1>13, <1>o, RefreshTypes DEF Save
    <2> QED
        BY <1>13, <1>o, <1>6, <2>1, <2>2, OverTypes DEF Save
<1>14. ASSUME Create(p) PROVE FileOK' /\ CopyOK' /\ CommandOK' /\ Others
    <2>1. size' \in 0 .. MaxBoards
        BY <1>14, <1>o, BoundAssumption DEF Create, FileOK
    <2>2. FileOK'
        BY <1>14, <1>o, <1>5, <2>1, WriteTypes DEF Create
    <2>3. CopyOK'
        BY <1>14, <1>o, RefreshTypes DEF Create
    <2> QED
        BY <1>14, <1>o, <1>6, <2>2, <2>3, OverTypes DEF Create
<1>15. ASSUME Forced(p) PROVE FileOK' /\ CopyOK' /\ CommandOK' /\ Others
    <2>1. FileOK' /\ CopyOK'
        BY <1>15, <1>4, <1>o, RefreshTypes DEF Forced
    <2> QED
        BY <1>15, <1>o, <1>5, <1>6, <2>1, GotoTypes DEF Forced
<1>16. ASSUME ManagerDies(p) PROVE FileOK' /\ CopyOK' /\ CommandOK' /\ Others
    <2>1. Died(p)
        BY <1>16 DEF ManagerDies
    <2>2. FileOK' /\ CopyOK'
        BY <1>o, <2>1, DiedTypes
    <2>3. "gone" \in Stages /\ Over(p, "gone")
        BY <2>1 DEF Died, Stages
    <2> QED
        BY <1>o, <2>2, <2>3, OverTypes
<1>17. FileOK' /\ CopyOK' /\ CommandOK' /\ Others
    BY <1>7, <1>8, <1>9, <1>10, <1>11, <1>12, <1>13, <1>14, <1>15, <1>16 DEF Manager
<1>18. \A q \in Readers : q \in Proc \ {p}
    BY RoleAssumption DEF Proc
<1> QED
    BY <1>1, <1>2, <1>17, <1>18 DEF Types

-----------------------------------------------------------------------------
(***************************************************************************)
(* The counts of readers.  A count is at most the number of readers who are*)
(* in the board under the number they were counted in by: with who is in a *)
(* board having the flag by which a hangup counts out, this is inductive.  *)
(***************************************************************************)
Inside == {"counted", "in"}
Flagged == \A p \in Readers : pc[p] \in {"in", "moving"} => is_inboard[p]
ReaderInv == Types /\ Flagged /\ NoGhostReaders

\* Reader p goes to another stage, and nobody else does.
Goes(p, l) ==
    /\ pc'[p] = l
    /\ \A q \in Readers \ {p} : pc'[q] = pc[q] /\ pos'[q] = pos[q]

LEMMA Counted ==
    ASSUME Types, NEW i
    PROVE  IsFiniteSet(In(i)) /\ Cardinality(In(i)) \in Nat
BY ReadersAssumption, FS_Subset, FS_CardinalityType DEF In

LEMMA StayedIn ==
    ASSUME Types, NoGhostReaders, UNCHANGED inboard, lost' <=> lost,
           \A q \in Readers : /\ pc'[q] \in Inside <=> pc[q] \in Inside
                              /\ pc[q] \in Inside => pos'[q] = pos[q]
    PROVE  NoGhostReaders'
<1>1. \A i \in Slots : In(i)' = In(i)
    BY DEF In, Inside
<1> QED
    BY <1>1 DEF NoGhostReaders

\* A reader counted in is in the board of that number.
LEMMA CameIn ==
    ASSUME ReaderInv, NEW p \in Readers, pc[p] \notin Inside, NEW l \in Inside, Goes(p, l),
           NEW b, CountIn(p, b), UNCHANGED lost
    PROVE  NoGhostReaders' /\ inboard' \in [Slots -> Nat]
<1> DEFINE n == getbnum(b)
<1>1. n \in 0 .. MaxBoards
    BY NumberFits DEF ReaderInv, Types, CopyOK
<1>2. inboard' = IF n = 0 THEN inboard ELSE [inboard EXCEPT ![n] = inboard[n] + 1]
    BY DEF CountIn, Inc
<1>3. pos' = [pos EXCEPT ![p] = n]
    BY DEF CountIn
<1> HIDE DEF n
<1>4. p \in Proc /\ inboard \in [Slots -> Nat] /\ pos \in [Proc -> 0 .. MaxBoards]
    BY DEF ReaderInv, Types, CommandOK, ReadingOK, Proc
<1>5. inboard' \in [Slots -> Nat]
    <2>1. CASE n = 0
        BY <1>2, <1>4, <2>1
    <2>2. CASE n # 0
        <3>1. n \in Slots /\ inboard[n] + 1 \in Nat
            BY <1>1, <1>4, <2>2, BoundAssumption DEF Slots
        <3> QED
            BY <1>2, <1>4, <2>2, <3>1
    <2> QED
        BY <2>1, <2>2
<1>6. ASSUME NEW i \in Slots, ~lost PROVE inboard'[i] <= Cardinality(In(i)')
    <2>1. inboard[i] <= Cardinality(In(i)) /\ p \notin In(i)
        BY <1>6 DEF ReaderInv, NoGhostReaders, In, Inside
    <2>2. IsFiniteSet(In(i)) /\ Cardinality(In(i)) \in Nat
        BY Counted DEF ReaderInv
    <2>3. CASE i = n
        <3>1. In(i)' = In(i) \cup {p}
            BY <1>3, <1>4, <2>3 DEF In, Inside, Goes
        <3>2. Cardinality(In(i) \cup {p}) = Cardinality(In(i)) + 1
            BY <2>1, <2>2, FS_AddElement
        <3>3. inboard'[i] = inboard[i] + 1
            BY <1>1, <1>2, <1>4, <2>3, BoundAssumption DEF Slots
        <3> QED
            BY <1>4, <2>1, <2>2, <3>1, <3>2, <3>3
    <2>4. CASE i # n
        <3>1. In(i)' = In(i)
            BY <1>3, <1>4, <2>1, <2>4 DEF In, Inside, Goes
        <3> QED
            BY <1>2, <1>4, <2>1, <2>4, <3>1
    <2> QED
        BY <2>3, <2>4
<1> QED
    BY <1>5, <1>6 DEF NoGhostReaders

\* A reader counted out was counted in under the number found now, or is lost.
LEMMA WentOut ==
    ASSUME ReaderInv, NEW p \in Readers, NEW l, l \notin Inside, Goes(p, l), CountOut(p)
    PROVE  NoGhostReaders' /\ inboard' \in [Slots -> Nat] /\ lost' \in BOOLEAN
<1> DEFINE n == getbnum(name[p])
<1>1. n \in 0 .. MaxBoards
    BY NumberFits DEF ReaderInv, Types, CopyOK
<1>2. inboard' = IF n = 0 THEN inboard
                 ELSE [inboard EXCEPT ![n] = IF inboard[n] > 0 THEN inboard[n] - 1 ELSE 0]
    BY DEF CountOut, Dec
<1>3. lost' = (lost \/ (pos[p] # 0 /\ n # pos[p]))
    BY DEF CountOut
<1> HIDE DEF n
<1>4. inboard \in [Slots -> Nat] /\ lost \in BOOLEAN
    BY DEF ReaderInv, Types, ReadingOK
<1>5. inboard' \in [Slots -> Nat]
    <2>1. CASE n = 0
        BY <1>2, <1>4, <2>1
    <2>2. CASE n # 0
        <3>1. n \in Slots
            BY <1>1, <2>2, BoundAssumption DEF Slots
        <3>2. (IF inboard[n] > 0 THEN inboard[n] - 1 ELSE 0) \in Nat
            BY <1>4, <3>1
        <3> QED
            BY <1>2, <1>4, <2>2, <3>2
    <2> QED
        BY <2>1, <2>2
<1>6. ASSUME NEW i \in Slots, ~lost' PROVE inboard'[i] <= Cardinality(In(i)')
    <2>1. inboard[i] <= Cardinality(In(i)) /\ (pos[p] = 0 \/ n = pos[p])
        BY <1>3, <1>6 DEF ReaderInv, NoGhostReaders
    <2>2. IsFiniteSet(In(i)) /\ Cardinality(In(i)) \in Nat
        BY Counted DEF ReaderInv
    <2>3. In(i)' = In(i) \ {p}
        BY DEF In, Inside, Goes
    <2>4. CASE p \in In(i)
        <3>1. n = i /\ i # 0
            BY <2>1, <2>4, BoundAssumption DEF In, Slots
        <3>2. Cardinality(In(i) \ {p}) = Cardinality(In(i)) - 1
            BY <2>2, <2>4, FS_RemoveElement
        <3>3. inboard'[i] = IF inboard[i] > 0 THEN inboard[i] - 1 ELSE 0
            BY <1>2, <1>4, <3>1
        <3>4. IsFiniteSet(In(i) \ {p})
            BY <2>2, FS_Subset
        <3>5. Cardinality(In(i) \ {p}) \in Nat
            BY <3>4, FS_CardinalityType
        <3> QED
            BY <1>4, <2>1, <2>2, <2>3, <3>2, <3>3, <3>5
    <2>5. CASE p \notin In(i)
        <3>1. In(i) \ {p} = In(i)
            BY <2>5
        <3>2. inboard'[i] <= inboard[i] /\ inboard'[i] \in Nat
            BY <1>1, <1>2, <1>4, BoundAssumption DEF Slots
        <3> QED
            BY <1>4, <2>1, <2>2, <2>3, <3>1, <3>2
    <2> QED
        BY <2>4, <2>5
<1> QED
    BY <1>3, <1>5, <1>6 DEF NoGhostReaders

LEMMA ReaderSteps ==
    ASSUME ReaderInv, NEW p \in Readers, Reader(p)
    PROVE  ReaderInv'
<1> DEFINE Others == \A q \in Proc \ {p} : pc'[q] = pc[q] /\ pos'[q] = pos[q]
<1>o. Types /\ FileOK /\ CopyOK /\ CommandOK /\ ReadingOK /\ p \in Proc
      /\ Flagged /\ NoGhostReaders
    BY DEF ReaderInv, Types, Proc
<1>1. ASSUME UNCHANGED <<boards, copy>> PROVE FileOK' /\ CopyOK'
    BY <1>o, <1>1 DEF boards, copy, FileOK, CopyOK
<1>2. ASSUME NEW l, Goto(p, l), Others PROVE Goes(p, l)
    BY <1>o, <1>2 DEF Goto, Goes, CommandOK, Proc
<1>3. ASSUME NEW l, Goes(p, l), NEW v \in BOOLEAN,
             UNCHANGED is_inboard \/ is_inboard' = [is_inboard EXCEPT ![p] = v],
             l \notin {"in", "moving"} \/ is_inboard'[p]
      PROVE  Flagged' /\ is_inboard' \in [Readers -> BOOLEAN]
    <2>1. is_inboard' \in [Readers -> BOOLEAN]
        BY <1>o, <1>3 DEF ReadingOK
    <2>2. \A q \in Readers \ {p} : is_inboard'[q] = is_inboard[q]
        BY <1>o, <1>3 DEF ReadingOK
    <2>3. ASSUME NEW q \in Readers, pc'[q] \in {"in", "moving"} PROVE is_inboard'[q]
        <3>1. CASE q = p
            BY <1>3, <2>3, <3>1 DEF Goes
        <3>2. CASE q # p
            BY <1>o, <1>3, <2>2, <2>3, <3>2 DEF Goes, Flagged
        <3> QED
            BY <3>1, <3>2
    <2> QED
        BY <2>1, <2>3 DEF Flagged
<1>n. {"counted", "group", "out", "gone"} \cap {"in", "moving"} = {}
    OBVIOUS
<1>4. /\ \A b \in Name : getbnum(b) \in 0 .. MaxBoards /\ b \in Record
      /\ name[p] \in Record /\ getbnum(name[p]) \in 0 .. MaxBoards /\ 0 \in 0 .. MaxBoards
    BY <1>o, NumberFits, BoundAssumption DEF CopyOK, Record, CommandOK
<1>5. {"out", "counted", "in", "moving", "group", "gone"} \subseteq Stages
    BY DEF Stages, Rest
<1>6. ASSUME NEW b \in Name, Read(p, b) PROVE ReaderInv'
    <2>1. UNCHANGED <<boards, copy, is_inboard, nested, lost>> /\ Goto(p, "counted")
          /\ CountIn(p, b) /\ pc[p] \notin Inside
        BY <1>6 DEF Read, Free, Inside
    <2>2. CommandOK' /\ Others
        BY <1>o, <1>4, <1>5, <2>1, GotoTypes DEF CountIn
    <2>3. Goes(p, "counted")
        BY <1>2, <2>1, <2>2
    <2>4. NoGhostReaders' /\ inboard' \in [Slots -> Nat]
        BY <2>1, <2>3, CameIn DEF Inside
    <2>5. Flagged' /\ is_inboard' \in [Readers -> BOOLEAN]
        BY <1>3, <1>n, <2>1, <2>3
    <2>6. FileOK' /\ CopyOK'
        BY <1>1, <2>1
    <2> QED
        BY <1>o, <2>1, <2>2, <2>4, <2>5, <2>6 DEF ReaderInv, Types, ReadingOK
<1>7. ASSUME NEW b \in Name, Select(p, b) PROVE ReaderInv'
    <2>1. UNCHANGED <<boards, copy, is_inboard, nested>> /\ Goto(p, "moving")
          /\ CountOut(p) /\ is_inboard[p]
        BY <1>7, <1>o DEF Select, Free, Flagged
    <2>2. CommandOK' /\ Others
        BY <1>7, <1>o, <1>4, <1>5, <2>1, GotoTypes DEF Select
    <2>3. Goes(p, "moving")
        BY <1>2, <2>1, <2>2
    <2>4. NoGhostReaders' /\ inboard' \in [Slots -> Nat] /\ lost' \in BOOLEAN
        BY <2>1, <2>3, WentOut DEF Inside
    <2>5. Flagged' /\ is_inboard' \in [Readers -> BOOLEAN]
        BY <1>3, <1>n, <2>1, <2>3
    <2>6. FileOK' /\ CopyOK'
        BY <1>1, <2>1
    <2> QED
        BY <1>o, <2>1, <2>2, <2>4, <2>5, <2>6 DEF ReaderInv, Types, ReadingOK
<1>8. ASSUME Flag(p) PROVE ReaderInv'
    <2>1. UNCHANGED <<boards, copy, name, pos, inboard, nested, lost>> /\ Goto(p, "in")
          /\ pc[p] = "counted" /\ is_inboard' = [is_inboard EXCEPT ![p] = TRUE]
        BY <1>8 DEF Flag
    <2>2. CommandOK' /\ Others
        BY <1>o, <1>4, <1>5, <2>1, GotoTypes
    <2>3. Goes(p, "in")
        BY <1>2, <2>1, <2>2
    <2>4. NoGhostReaders'
        BY <1>o, <2>1, <2>3, StayedIn DEF Inside, Goes
    <2>5. is_inboard'[p]
        BY <1>o, <2>1 DEF ReadingOK
    <2>6. Flagged' /\ is_inboard' \in [Readers -> BOOLEAN]
        BY <1>3, <2>1, <2>3, <2>5
    <2>7. FileOK' /\ CopyOK'
        BY <1>1, <2>1
    <2> QED
        BY <1>o, <2>1, <2>2, <2>4, <2>6, <2>7 DEF ReaderInv, Types, ReadingOK
<1>9. ASSUME Selected(p) PROVE ReaderInv'
    <2>1. UNCHANGED <<boards, copy, is_inboard, nested, lost>> /\ Goto(p, "in")
          /\ CountIn(p, name[p]) /\ pc[p] \notin Inside /\ is_inboard[p]
        BY <1>9, <1>o DEF Selected, Inside, Flagged
    <2>2. CommandOK' /\ Others
        BY <1>o, <1>4, <1>5, <2>1, GotoTypes DEF CountIn
    <2>3. Goes(p, "in")
        BY <1>2, <2>1, <2>2
    <2>4. NoGhostReaders' /\ inboard' \in [Slots -> Nat]
        BY <2>1, <2>3, CameIn DEF Inside
    <2>5. Flagged' /\ is_inboard' \in [Readers -> BOOLEAN]
        BY <1>3, <1>n, <2>1, <2>3
    <2>6. FileOK' /\ CopyOK'
        BY <1>1, <2>1
    <2> QED
        BY <1>o, <2>1, <2>2, <2>4, <2>5, <2>6 DEF ReaderInv, Types, ReadingOK
<1>10. ASSUME SelectGroup(p) PROVE ReaderInv'
    <2>1. UNCHANGED <<boards, copy, name, is_inboard>> /\ Goto(p, "group") /\ CountOut(p)
          /\ nested' \in SUBSET Readers /\ pos' = [pos EXCEPT ![p] = 0]
        BY <1>10, <1>o DEF SelectGroup, ReadingOK
    <2>2. CommandOK' /\ Others
        BY <1>o, <1>4, <1>5, <2>1, GotoTypes
    <2>3. Goes(p, "group")
        BY <1>2, <2>1, <2>2
    <2>4. NoGhostReaders' /\ inboard' \in [Slots -> Nat] /\ lost' \in BOOLEAN
        BY <2>1, <2>3, WentOut DEF Inside
    <2>5. Flagged' /\ is_inboard' \in [Readers -> BOOLEAN]
        BY <1>3, <1>n, <2>1, <2>3
    <2>6. FileOK' /\ CopyOK'
        BY <1>1, <2>1
    <2> QED
        BY <2>1, <2>2, <2>4, <2>5, <2>6 DEF ReaderInv, Types, ReadingOK
<1>11. ASSUME Leave(p) \/ LeaveGroup(p) PROVE ReaderInv'
    <2>1. UNCHANGED <<boards, copy>> /\ CountOut(p) /\ nested' \in SUBSET Readers
          /\ is_inboard' = [is_inboard EXCEPT ![p] = FALSE]
        BY <1>11, <1>o DEF Leave, LeaveGroup, ReadingOK
    <2>2. \/ Over(p, "out")
          \/ Goto(p, "group") /\ pos' = [pos EXCEPT ![p] = 0] /\ UNCHANGED name
        BY <1>11 DEF Leave, LeaveGroup
    <2>3. PICK l \in {"out", "group"} : Goto(p, l)
        BY <2>2 DEF Over
    <2>4. CommandOK' /\ Others
        <3>1. CASE Over(p, "out")
            BY <1>o, <1>5, <3>1, OverTypes
        <3>2. CASE Goto(p, "group") /\ pos' = [pos EXCEPT ![p] = 0] /\ UNCHANGED name
            BY <1>o, <1>4, <1>5, <3>2, GotoTypes
        <3> QED
            BY <2>2, <3>1, <3>2
    <2>5. Goes(p, l)
        BY <1>2, <2>3, <2>4
    <2>6. NoGhostReaders' /\ inboard' \in [Slots -> Nat] /\ lost' \in BOOLEAN
        BY <2>1, <2>5, WentOut DEF Inside
    <2>7. Flagged' /\ is_inboard' \in [Readers -> BOOLEAN]
        BY <1>3, <2>1, <2>5
    <2>8. FileOK' /\ CopyOK'
        BY <1>1, <2>1
    <2> QED
        BY <2>1, <2>4, <2>6, <2>7, <2>8 DEF ReaderInv, Types, ReadingOK
<1>12. ASSUME HangUp(p) PROVE ReaderInv'
    <2>1. Died(p) /\ Over(p, "gone") /\ is_inboard' = [is_inboard EXCEPT ![p] = FALSE]
          /\ nested' \in SUBSET Readers
        BY <1>12, <1>o DEF HangUp, Died, ReadingOK
    <2>2. FileOK' /\ CopyOK'
        BY <1>o, <2>1, DiedTypes
    <2>3. CommandOK' /\ Others
        BY <1>o, <1>5, <2>1, OverTypes
    <2>4. Goes(p, "gone")
        BY <1>2, <2>1, <2>3 DEF Over
    <2>5. Flagged' /\ is_inboard' \in [Readers -> BOOLEAN]
        BY <1>3, <1>n, <2>1, <2>4
    <2>6. NoGhostReaders' /\ inboard' \in [Slots -> Nat] /\ lost' \in BOOLEAN
        <3>1. CASE is_inboard[p]
            <4>1. CountOut(p)
                BY <1>12, <3>1 DEF HangUp
            <4> QED
                BY <2>4, <4>1, WentOut DEF Inside
        <3>2. CASE ~is_inboard[p]
            <4>1. lost' = (lost \/ pc[p] = "counted") /\ UNCHANGED inboard
                BY <1>12, <3>2 DEF HangUp
            <4>2. inboard' \in [Slots -> Nat] /\ lost' \in BOOLEAN
                BY <1>o, <4>1 DEF ReadingOK
            <4>3. CASE pc[p] = "counted"
                BY <4>1, <4>2, <4>3 DEF NoGhostReaders
            <4>4. CASE pc[p] # "counted"
                <5>1. pc[p] \notin Inside
                    BY <1>o, <3>2, <4>4 DEF Flagged, Inside
                <5>2. \A q \in Readers : /\ pc'[q] \in Inside <=> pc[q] \in Inside
                                         /\ pc[q] \in Inside => pos'[q] = pos[q]
                    BY <2>4, <5>1 DEF Goes, Inside
                <5>3. lost' <=> lost
                    BY <4>1, <4>4
                <5> QED
                    BY <1>o, <4>1, <4>2, <5>2, <5>3, StayedIn
            <4> QED
                BY <4>3, <4>4
        <3> QED
            BY <3>1, <3>2
    <2> QED
        BY <2>1, <2>2, <2>3, <2>5, <2>6 DEF ReaderInv, Types, ReadingOK
<1> QED
    BY <1>6, <1>7, <1>8, <1>9, <1>10, <1>11, <1>12 DEF Reader

\* Nobody else moves a reader or touches the counts.
LEMMA NotOfReaders ==
    ASSUME ReaderInv, Types', UNCHANGED reading,
           \A q \in Readers : pc'[q] = pc[q] /\ pos'[q] = pos[q]
    PROVE  ReaderInv'
<1>1. Flagged'
    BY DEF ReaderInv, Flagged, reading
<1>2. NoGhostReaders'
    BY StayedIn DEF ReaderInv, reading
<1> QED
    BY <1>1, <1>2 DEF ReaderInv

LEMMA InitReaderInv == Init => ReaderInv
<1> SUFFICES ASSUME Init PROVE ReaderInv
    OBVIOUS
<1>1. Flagged
    BY DEF Init, Flagged, Proc
<1>2. Types
    BY InitTypes
<1>3. NoGhostReaders
    <2>1. \A i \in Slots : inboard[i] = 0 /\ Cardinality(In(i)) \in Nat
        BY <1>2, Counted DEF Init
    <2> QED
        BY <2>1 DEF NoGhostReaders
<1> QED
    BY <1>1, <1>2, <1>3 DEF ReaderInv

LEMMA StepReaderInv == ReaderInv /\ [Next]_vars => ReaderInv'
<1> SUFFICES ASSUME ReaderInv, [Next]_vars PROVE ReaderInv'
    OBVIOUS
<1>o. Types
    BY DEF ReaderInv
<1>1. ASSUME NEW p \in Proc, Resolve(p) \/ Rebuilding(p) PROVE ReaderInv'
    BY <1>o, <1>1, RebuildTypes, NotOfReaders
<1>2. ASSUME NEW p \in Managers, Manager(p) PROVE ReaderInv'
    BY <1>o, <1>2, ManagerTypes, NotOfReaders
<1>3. ASSUME NEW p \in Readers, Reader(p) PROVE ReaderInv'
    BY <1>3, ReaderSteps
<1>4. CASE Age
    <2>1. UNCHANGED <<boards, command, reading>> /\ CopyOK'
        BY <1>o, <1>4 DEF Age, Types, CopyOK
    <2>2. Types'
        BY <1>o, <2>1 DEF Types, FileOK, CommandOK, ReadingOK, boards, command, reading
    <2> QED
        BY <2>1, <2>2, NotOfReaders DEF command
<1>5. CASE UNCHANGED vars
    <2>1. UNCHANGED <<pc, pos, reading>> /\ Types'
        BY <1>o, <1>5 DEF vars, boards, copy, reading, Types, FileOK, CopyOK, CommandOK,
                          ReadingOK
    <2> QED
        BY <2>1, NotOfReaders
<1> QED
    BY <1>1, <1>2, <1>3, <1>4, <1>5 DEF Next

(* Every variable of the board list has its type: no board gets a number past
   MAXBOARD, no slot of the copy past it is filled, no count is below 0. *)
THEOREM TypesHold == Spec => []TypeOK
<1>1. ReaderInv => TypeOK
    BY DEF ReaderInv, Types, FileOK, CopyOK, CommandOK, ReadingOK, TypeOK
<1> QED
    BY <1>1, InitReaderInv, StepReaderInv, PTL DEF Spec

(* Read, do_select, u_exit: a board's count of readers is never more than the
   readers who are in it, while each could be counted out under the number it
   was counted in by. *)
THEOREM NoGhosts == Spec => []NoGhostReaders
<1>1. ReaderInv => NoGhostReaders
    BY DEF ReaderInv
<1> QED
    BY <1>1, InitReaderInv, StepReaderInv, PTL DEF Spec
===============================================================================
