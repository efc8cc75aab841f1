--------------------------- MODULE SessionsProofs ---------------------------
(* A running session's slot is its own, an account's sessions keep within  *)
(* its limit and a login kicks its own account, for any number of          *)
(* processes, slots and accounts.                                          *)
EXTENDS Sessions, FiniteSetTheorems, WellFoundedInduction, TLAPS

(***************************************************************************)
(* OwnSlot speaks of sessions that have started and not begun to leave; it *)
(* is inductive only together with                                         *)
(*   - the lock: whoever is between getnewutmpent's or u_exit's lock and   *)
(*     the unlock holds it, so that there is one at a time;                *)
(*   - the slot getnewutmpent has picked, which stays vacant meanwhile;    *)
(*   - the slot of a session that is leaving, still its own until u_exit   *)
(*     has written it.                                                     *)
(***************************************************************************)
Holding == {"find", "claim", "left"}

LockHeld == \A p \in Proc : pc[p] \in Holding => holder = p

Placed ==
    \A p \in Proc : /\ pc[p] = "claim" => target[p] \in Slots
                    /\ pc[p] \in Registered => slot[p] \in Slots

OwnEntry == \A p \in Proc : pc[p] \in Registered => utmp[slot[p]] = Mine(p)

VacantTarget == \A p \in Proc : pc[p] = "claim" => Vacant(target[p])

TableInv == TypeOK /\ Placed /\ LockHeld /\ (~hasty => OwnEntry /\ VacantTarget)

(* A slot shows one process: two registered sessions are in two slots. *)
LEMMA MineFields ==
    ASSUME NEW p \in Proc
    PROVE  Mine(p).active = TRUE /\ Mine(p).pid = p /\ Mine(p).uid = user[p]
BY DEF Mine

LEMMA SlotsDiffer ==
    ASSUME OwnEntry, NEW p \in Proc, NEW q \in Proc, p # q,
           pc[p] \in Registered, pc[q] \in Registered
    PROVE  slot[p] # slot[q]
<1>1. utmp[slot[p]].pid = p /\ utmp[slot[q]].pid = q
    BY MineFields DEF OwnEntry
<1> QED
    BY <1>1

(* What is vacant is nobody's. *)
LEMMA VacantIsFree ==
    ASSUME OwnEntry, NEW s \in Slots, Vacant(s), NEW q \in Proc, pc[q] \in Registered
    PROVE  slot[q] # s
<1>1. utmp[slot[q]].pid = q /\ utmp[slot[q]].active
    BY MineFields DEF OwnEntry
<1> QED
    BY <1>1, ProcAssumption DEF Vacant

-----------------------------------------------------------------------------
(* The types. *)

LEMMA TypeExit ==
    ASSUME TypeOK, NEW p \in Proc, Exit(p),
           utmp' \in [Slots -> Entry], cool' \in SUBSET Slots, hasty' \in BOOLEAN
    PROVE  TypeOK'
<1>1. 1 \in Slots
    BY SizeAssumption DEF Slots
<1> QED
    BY <1>1, SizeAssumption DEF TypeOK, Exit, StartScan, Goto, Unlock, Stages

LEMMA TypeVanish ==
    ASSUME TypeOK, NEW p \in Proc, Vanish(p)
    PROVE  TypeOK'
BY TypeExit DEF Vanish, TypeOK

LEMMA MineIsEntry ==
    ASSUME TypeOK, NEW p \in Proc
    PROVE  Mine(p) \in Entry
BY DEF TypeOK, Mine, Entry

LEMMA SweptType ==
    ASSUME NEW t \in [Slots -> Entry]
    PROVE  Swept(t) \in [Slots -> Entry]
<1>1. \A s \in Slots : [t[s] EXCEPT !.active = FALSE, !.pid = NoProc] \in Entry
    BY DEF Entry
<1> QED
    BY <1>1 DEF Swept

LEMMA TypeStep ==
    ASSUME TypeOK, Placed, Next
    PROVE  TypeOK'
<1> PICK p \in Proc :
       \/ \E u \in User : Login(p, u)
       \/ Run(p) \/ Hangup(p) \/ Lock(p) \/ LockToLeave(p)
       \/ update_utmp(p) \/ Leave(p) \/ Crash(p)
       \/ \E s \in Slots : Kick(p, s)
    BY DEF Next
<1>1. CASE \E u \in User : Login(p, u)
    BY <1>1 DEF Login, Goto, TypeOK, Stages
<1>2. CASE count_self(p)
    <2>1. scan[p] + 1 \in Slots
        BY <1>2, SizeAssumption DEF count_self, TypeOK, Slots
    <2> QED
        BY <1>2, <2>1 DEF count_self, TypeOK
<1>3. CASE Admit(p) \/ KickOther(p) \/ Stay(p) \/ Slipped(p)
    <2>1. 1 \in Slots
        BY SizeAssumption DEF Slots
    <2>2. hup' \in SUBSET Proc
        BY <1>3 DEF Admit, KickOther, Stay, Slipped, TypeOK, Alive
    <2>3. /\ UNCHANGED <<utmp, cool, holder, user, slot, tries, target, hasty>>
          /\ StartScan(p) /\ \E s \in Stages : Goto(p, s)
        BY <1>3 DEF Admit, KickOther, Stay, Slipped, Stages
    <2> QED
        BY <2>1, <2>2, <2>3 DEF StartScan, Goto, TypeOK
<1>4. CASE Refuse(p) \/ GiveUp(p) \/ Crash(p)
    BY <1>4, TypeVanish DEF Refuse, GiveUp, Crash
<1>5. CASE Lock(p) \/ LockToLeave(p)
    BY <1>5 DEF Lock, LockToLeave, Goto, TypeOK, Stages
<1>6. CASE Find(p)
    <2>1. PICK c \in SUBSET Slots, s \in Slots :
              /\ cool' = c /\ target' = [target EXCEPT ![p] = s] /\ Goto(p, "claim")
              /\ UNCHANGED <<utmp, holder, user, slot, scan, count, tries, hup, hasty>>
        BY <1>6 DEF Find, FreeIn
    <2>2. s \in 0 .. Size
        BY SizeAssumption DEF Slots
    <2>3. pc' \in [Proc -> Stages] /\ target' \in [Proc -> 0 .. Size]
        BY <2>1, <2>2 DEF Goto, TypeOK, Stages
    <2> QED
        BY <2>1, <2>3 DEF TypeOK
<1>7. CASE Full(p)
    BY <1>7, SizeAssumption DEF Full, Goto, Unlock, TypeOK, Stages
<1>8. CASE Claim(p)
    <2> DEFINE t == [utmp EXCEPT ![target[p]] = Mine(p)]
    <2>1. t \in [Slots -> Entry]
        BY MineIsEntry DEF TypeOK
    <2>2. utmp' \in [Slots -> Entry] /\ cool' \in SUBSET Slots
        <3>1. target[p] \in Slots
            BY <1>8 DEF Claim, Placed
        <3> QED
            BY <1>8, <2>1, <3>1, SweptType DEF Claim, TypeOK
    <2> QED
        BY <1>8, <2>2, SizeAssumption DEF Claim, Goto, Unlock, TypeOK, Stages
<1>9. CASE Start(p) \/ Leave(p)
    BY <1>9 DEF Start, Leave, Goto, TypeOK, Stages
<1>10. CASE Mark(p)
    <2> DEFINE t == target[p]
    <2>1. utmp' \in [Slots -> Entry]
        <3>1. \A s \in Slots : [utmp[s] EXCEPT !.active = FALSE] \in Entry
            BY DEF TypeOK, Entry
        <3>2. utmp' = [utmp EXCEPT ![t] = [utmp[t] EXCEPT !.active = FALSE]]
            BY <1>10 DEF Mark
        <3> QED
            BY <3>1, <3>2 DEF TypeOK
    <2>2. hasty' \in BOOLEAN
        BY <1>10 DEF Mark, OwnerRuns, TypeOK
    <2> QED
        BY <1>10, <2>1, <2>2, SizeAssumption DEF Mark, Goto, TypeOK, Stages
<1>11. CASE u_exit(p)
    <2>1. [active |-> FALSE, pid |-> NoProc, uid |-> user[p]] \in Entry
        BY DEF TypeOK, Entry
    <2> QED
        BY <1>11, <2>1, TypeExit DEF u_exit, TypeOK
<1>12. CASE Hangup(p)
    <2>1. CASE Vanish(p)
        BY <2>1, TypeVanish
    <2>2. CASE ~Vanish(p)
        <3>1. 1 \in Slots
            BY SizeAssumption DEF Slots
        <3> QED
            BY <1>12, <2>2, <3>1 DEF Hangup, StartScan, Goto, TypeOK, Stages
    <2> QED
        BY <2>1, <2>2
<1>13. CASE update_utmp(p)
    <2>1. slot[p] \in Slots
        BY <1>13 DEF update_utmp, Placed, Registered, Started
    <2> QED
        BY <1>13, <2>1, MineIsEntry DEF update_utmp, session, TypeOK
<1>14. CASE \E s \in Slots : Kick(p, s)
    <2>1. PICK s \in Slots : Kick(p, s)
        BY <1>14
    <2>2. hup' \in SUBSET Proc
        BY <2>1 DEF Kick, TypeOK, Alive
    <2>3. s \in 0 .. Size
        BY SizeAssumption DEF Slots
    <2> QED
        BY <2>1, <2>2, <2>3 DEF Kick, Goto, TypeOK, Stages
<1> QED
    BY <1>1, <1>2, <1>3, <1>4, <1>5, <1>6, <1>7, <1>8, <1>9, <1>10, <1>11, <1>12,
       <1>13, <1>14 DEF Run

-----------------------------------------------------------------------------
(* The rest of the invariant. *)

(* A step of p that leaves the table, the lock and the slots alone, and goes *)
(* neither into the locked section nor into a session it was not in.         *)
Quiet(p) ==
    /\ UNCHANGED <<utmp, holder, slot, hasty>>
    /\ \A q \in Proc \ {p} : pc'[q] = pc[q] /\ user'[q] = user[q] /\ target'[q] = target[q]
    /\ pc'[p] \notin Holding
    /\ pc'[p] \in Registered => pc[p] \in Registered /\ user'[p] = user[p]

LEMMA QuietStep ==
    ASSUME TableInv, TypeOK', NEW p \in Proc, Quiet(p)
    PROVE  TableInv'
<1>1. Placed' /\ LockHeld'
    BY DEF TableInv, Quiet, Placed, LockHeld, Holding
<1>2. \A q \in Proc : pc'[q] \in Registered => Mine(q)' = Mine(q) /\ pc[q] \in Registered
    BY DEF Quiet, Mine
<1>3. ~hasty' => OwnEntry' /\ VacantTarget'
    BY <1>2 DEF TableInv, Quiet, OwnEntry, VacantTarget, Vacant, Holding
<1> QED
    BY <1>1, <1>3 DEF TableInv

(* Whoever goes takes along what it held and leaves the others alone. *)
LEMMA OthersStay ==
    ASSUME TypeOK, NEW p \in Proc, Exit(p)
    PROVE  /\ pc'[p] \notin Registered /\ pc'[p] \notin Holding
           /\ \A q \in Proc \ {p} : /\ pc'[q] = pc[q] /\ user'[q] = user[q]
                                    /\ slot'[q] = slot[q] /\ target'[q] = target[q]
                                    /\ Mine(q)' = Mine(q)
           /\ \A q \in Proc \ {p} : holder = q => holder' = q
BY DEF TypeOK, Exit, Goto, Unlock, Registered, Started, Holding, Mine

LEMMA ExitKeeps ==
    ASSUME TableInv, NEW p \in Proc, Exit(p)
    PROVE  Placed' /\ LockHeld'
<1>1. TypeOK
    BY DEF TableInv
<1> QED
    BY <1>1, OthersStay DEF TableInv, Placed, LockHeld, Holding

LEMMA VanishStep ==
    ASSUME TableInv, TypeOK', NEW p \in Proc, Vanish(p)
    PROVE  TableInv'
<1>1. TypeOK /\ Exit(p) /\ utmp' = utmp /\ hasty' = hasty
    BY DEF TableInv, Vanish
<1>2. Placed' /\ LockHeld'
    BY <1>1, ExitKeeps
<1>3. ~hasty' => OwnEntry' /\ VacantTarget'
    BY <1>1, OthersStay DEF TableInv, OwnEntry, VacantTarget, Vacant, Holding
<1> QED
    BY <1>2, <1>3 DEF TableInv

LEMMA LockStep ==
    ASSUME TableInv, TypeOK', NEW p \in Proc, Lock(p) \/ LockToLeave(p)
    PROVE  TableInv'
<1>1. /\ holder = NoProc /\ holder' = p
      /\ UNCHANGED <<utmp, user, slot, target, hasty>>
      /\ \/ pc[p] = "enter" /\ Goto(p, "find")
         \/ pc[p] = "leaving" /\ Goto(p, "left")
    BY DEF Lock, LockToLeave
<1>2. \A q \in Proc : pc[q] \notin Holding
    BY <1>1, ProcAssumption DEF TableInv, LockHeld
<1>3. \A q \in Proc : pc'[q] \in Holding => q = p
    BY <1>1, <1>2 DEF TableInv, TypeOK, Goto
<1>4. \A q \in Proc : /\ pc'[q] \in Registered => pc[q] \in Registered
                      /\ pc'[q] # "claim"
                      /\ Mine(q)' = Mine(q)
    BY <1>1, <1>2 DEF TableInv, TypeOK, Goto, Registered, Started, Mine, Holding
<1>5. Placed' /\ LockHeld'
    BY <1>1, <1>3, <1>4 DEF TableInv, Placed, LockHeld
<1>6. ~hasty' => OwnEntry' /\ VacantTarget'
    BY <1>1, <1>4 DEF TableInv, OwnEntry, VacantTarget
<1> QED
    BY <1>5, <1>6 DEF TableInv

LEMMA FindStep ==
    ASSUME TableInv, TypeOK', NEW p \in Proc, Find(p)
    PROVE  TableInv'
<1>1. PICK s \in Slots : Vacant(s) /\ target' = [target EXCEPT ![p] = s]
    BY DEF Find, FreeIn
<1>2. pc[p] = "find" /\ Goto(p, "claim") /\ UNCHANGED <<utmp, holder, user, slot, hasty>>
    BY DEF Find
<1>3. \A q \in Proc : q # p => pc'[q] = pc[q] /\ target'[q] = target[q]
    BY <1>1, <1>2 DEF TableInv, TypeOK, Goto
<1>4. pc'[p] = "claim" /\ target'[p] = s
    BY <1>1, <1>2 DEF TableInv, TypeOK, Goto
<1>5. \A q \in Proc : Mine(q)' = Mine(q)
    BY <1>2 DEF Mine
<1>6. Placed' /\ LockHeld'
    BY <1>2, <1>3, <1>4 DEF TableInv, Placed, LockHeld, Holding, Registered, Started
<1>7. ~hasty' => OwnEntry' /\ VacantTarget'
    BY <1>1, <1>2, <1>3, <1>4, <1>5
       DEF TableInv, OwnEntry, VacantTarget, Vacant, Registered, Started
<1> QED
    BY <1>6, <1>7 DEF TableInv

LEMMA FullStep ==
    ASSUME TableInv, TypeOK', NEW p \in Proc, Full(p)
    PROVE  TableInv'
<1>1. /\ pc[p] = "find" /\ Goto(p, "enter")
      /\ UNCHANGED <<utmp, user, slot, target, hasty>>
    BY DEF Full
<1>2. \A q \in Proc : /\ pc[q] \in Holding => q = p
                      /\ pc'[q] \in Registered \cup Holding => q # p /\ pc'[q] = pc[q]
                      /\ Mine(q)' = Mine(q)
    BY <1>1 DEF TableInv, TypeOK, LockHeld, Goto, Holding, Registered, Started, Mine
<1>3. Placed' /\ LockHeld'
    BY <1>1, <1>2 DEF TableInv, Placed, LockHeld, Holding
<1>4. ~hasty' => OwnEntry' /\ VacantTarget'
    BY <1>1, <1>2 DEF TableInv, OwnEntry, VacantTarget, Vacant, Holding
<1> QED
    BY <1>3, <1>4 DEF TableInv

(* The claim writes a slot that is nobody's, and its sweep spares the living. *)
LEMMA ClaimStep ==
    ASSUME TableInv, TypeOK', NEW p \in Proc, Claim(p)
    PROVE  TableInv'
<1> DEFINE t == [utmp EXCEPT ![target[p]] = Mine(p)]
<1>1. /\ pc[p] = "claim" /\ Goto(p, "entered") /\ Unlock(p)
      /\ utmp' = t \/ utmp' = Swept(t)
      /\ slot' = [slot EXCEPT ![p] = target[p]]
      /\ target' = [target EXCEPT ![p] = 0]
      /\ UNCHANGED <<user, hasty>>
    BY DEF Claim
<1>2. \A q \in Proc : q # p => /\ pc'[q] = pc[q] /\ slot'[q] = slot[q]
                               /\ target'[q] = target[q]
    BY <1>1 DEF TableInv, TypeOK, Goto
<1>3. pc'[p] = "entered" /\ slot'[p] = target[p] /\ target[p] \in Slots
    BY <1>1 DEF TableInv, TypeOK, Placed, Goto
<1>4. \A q \in Proc : q # p => pc[q] \notin Holding
    BY <1>1 DEF TableInv, LockHeld, Holding
<1>5. \A q \in Proc : pc[q] # "none" /\ Mine(q)' = Mine(q) => Alive(Mine(q).pid)
    BY MineFields DEF Alive
<1>6. \A q \in Proc : Mine(q)' = Mine(q)
    BY <1>1 DEF Mine
<1>7. Placed' /\ LockHeld'
    BY <1>2, <1>3, <1>4 DEF TableInv, Placed, LockHeld, Holding
<1>8. \A q \in Proc, s \in Slots : t[s] = Mine(q) /\ pc[q] # "none" => utmp'[s] = Mine(q)
    BY <1>1, <1>5, <1>6 DEF Swept
<1>9. ASSUME ~hasty' PROVE OwnEntry' /\ VacantTarget'
    <2>1. OwnEntry /\ VacantTarget
        BY <1>1, <1>9 DEF TableInv
    <2>2. ASSUME NEW q \in Proc, pc'[q] \in Registered
          PROVE  utmp'[slot'[q]] = Mine(q)'
        <3>1. CASE q = p
            <4>1. t[slot'[p]] = Mine(p)
                BY <1>3 DEF TableInv, TypeOK
            <4> QED
                BY <1>1, <1>3, <1>6, <1>8, <3>1, <4>1
        <3>2. CASE q # p
            <4>1. pc[q] \in Registered /\ slot'[q] = slot[q] /\ slot[q] \in Slots
                BY <1>2, <2>2, <3>2 DEF TableInv, Placed
            <4>2. slot[q] # target[p]
                BY <1>1, <1>3, <2>1, <4>1, VacantIsFree DEF VacantTarget
            <4>3. t[slot[q]] = Mine(q)
                BY <2>1, <4>1, <4>2 DEF OwnEntry, TableInv, TypeOK
            <4>4. pc[q] # "none"
                BY <4>1 DEF Registered, Started
            <4> QED
                BY <1>6, <1>8, <4>1, <4>3, <4>4
        <3> QED
            BY <3>1, <3>2
    <2>3. VacantTarget'
        BY <1>2, <1>3, <1>4 DEF VacantTarget, Holding
    <2> QED
        BY <2>2, <2>3 DEF OwnEntry
<1> QED
    BY <1>7, <1>9 DEF TableInv

LEMMA UpdateStep ==
    ASSUME TableInv, TypeOK', NEW p \in Proc, update_utmp(p)
    PROVE  TableInv'
<1>1. /\ pc[p] = "online" /\ utmp' = [utmp EXCEPT ![slot[p]] = Mine(p)]
      /\ UNCHANGED <<holder, pc, user, slot, target, hasty>>
    BY DEF update_utmp, session
<1>2. ~hasty => OwnEntry /\ utmp[slot[p]] = Mine(p)
    BY <1>1 DEF TableInv, OwnEntry, Registered, Started
<1>3. ~hasty => utmp' = utmp
    BY <1>1, <1>2 DEF TableInv, TypeOK
<1> QED
    BY <1>1, <1>3 DEF TableInv, Placed, LockHeld, OwnEntry, VacantTarget, Vacant, Mine

(* The user list marks a slot: a slot in use is what hasty records. *)
LEMMA MarkStep ==
    ASSUME TableInv, TypeOK', NEW p \in Proc, Mark(p)
    PROVE  TableInv'
<1>1. /\ pc[p] = "kicking" /\ Goto(p, "online")
      /\ utmp' = [utmp EXCEPT ![target[p]].active = FALSE]
      /\ hasty' = (hasty \/ OwnerRuns(target[p]))
      /\ target' = [target EXCEPT ![p] = 0]
      /\ UNCHANGED <<holder, user, slot>>
    BY DEF Mark
<1>2. \A q \in Proc : /\ pc'[q] \in Registered => pc[q] \in Registered
                      /\ pc'[q] \in Holding => q # p /\ pc[q] = pc'[q]
                      /\ q # p => target'[q] = target[q]
                      /\ Mine(q)' = Mine(q)
    BY <1>1 DEF TableInv, TypeOK, Goto, Registered, Started, Holding, Mine
<1>3. Placed' /\ LockHeld'
    BY <1>1, <1>2 DEF TableInv, Placed, LockHeld, Holding
<1>4. ASSUME ~hasty' PROVE OwnEntry' /\ VacantTarget'
    <2>1. OwnEntry /\ VacantTarget /\ ~OwnerRuns(target[p])
        BY <1>1, <1>4 DEF TableInv
    <2>2. ASSUME NEW q \in Proc, pc'[q] \in Registered
          PROVE  utmp'[slot'[q]] = Mine(q)'
        <3>1. pc[q] \in Registered /\ slot[q] # target[p]
            BY <1>2, <2>1, <2>2 DEF OwnerRuns
        <3> QED
            BY <1>1, <1>2, <2>1, <3>1 DEF OwnEntry, TableInv, TypeOK
    <2>3. ASSUME NEW q \in Proc, pc'[q] = "claim"
          PROVE  Vacant(target[q])'
        <3>1. pc[q] = "claim" /\ target'[q] = target[q] /\ Vacant(target[q])
            BY <1>2, <2>1, <2>3 DEF VacantTarget, Holding
        <3>2. target[q] \in Slots
            BY <3>1 DEF TableInv, Placed
        <3> QED
            BY <1>1, <3>1, <3>2 DEF Vacant, TableInv, TypeOK, Entry
    <2> QED
        BY <2>2, <2>3 DEF OwnEntry, VacantTarget
<1> QED
    BY <1>3, <1>4 DEF TableInv

LEMMA u_exitStep ==
    ASSUME TableInv, TypeOK', NEW p \in Proc, u_exit(p)
    PROVE  TableInv'
<1>1. /\ pc[p] = "left" /\ Exit(p) /\ hasty' = hasty /\ TypeOK
      /\ utmp' = [utmp EXCEPT ![slot[p]] =
                    [active |-> FALSE, pid |-> NoProc, uid |-> user[p]]]
    BY DEF u_exit, TableInv
<1>2. Placed' /\ LockHeld'
    BY <1>1, ExitKeeps
<1>3. \A q \in Proc : q # p => pc[q] # "claim"
    BY <1>1 DEF TableInv, LockHeld, Holding
<1>4. \A q \in Proc : pc'[q] \in Registered => q # p /\ pc[q] \in Registered
    BY <1>1, OthersStay
<1>5. ASSUME ~hasty' PROVE OwnEntry'
    <2>1. OwnEntry /\ pc[p] \in Registered
        BY <1>1, <1>5 DEF TableInv, Registered
    <2>2. ASSUME NEW q \in Proc, pc'[q] \in Registered
          PROVE  utmp'[slot'[q]] = Mine(q)'
        <3>1. slot[q] # slot[p]
            BY <1>4, <2>1, <2>2, SlotsDiffer
        <3> QED
            BY <1>1, <1>4, <2>1, <2>2, <3>1, OthersStay DEF OwnEntry, TypeOK
    <2> QED
        BY <2>2 DEF OwnEntry
<1>6. VacantTarget'
    BY <1>1, <1>3, OthersStay DEF VacantTarget, Holding
<1> QED
    BY <1>2, <1>5, <1>6 DEF TableInv

LEMMA TableInit == Init => TableInv
<1> SUFFICES ASSUME Init PROVE TableInv
    OBVIOUS
<1>1. TypeOK
    <2>1. 1 \in Slots /\ 0 \in 0 .. Size /\ 0 \in 0 .. MaxTries
        BY SizeAssumption DEF Slots
    <2>2. utmp \in [Slots -> Entry]
        BY DEF Init, Entry
    <2> QED
        BY <2>1, <2>2 DEF Init, TypeOK, Stages
<1> QED
    BY <1>1 DEF Init, TableInv, Placed, LockHeld, Holding, OwnEntry, VacantTarget,
                Registered, Started

LEMMA TableStep == TableInv /\ [Next]_vars => TableInv'
<1> SUFFICES ASSUME TableInv, [Next]_vars PROVE TableInv'
    OBVIOUS
<1>1. CASE UNCHANGED vars
    BY <1>1 DEF vars, session, TableInv, TypeOK, Placed, LockHeld, OwnEntry,
                VacantTarget, Vacant, Mine
<1>2. CASE Next
    <2>1. TypeOK'
        BY <1>2, TypeStep DEF TableInv
    <2> PICK p \in Proc :
           \/ \E u \in User : Login(p, u)
           \/ Run(p) \/ Hangup(p) \/ Lock(p) \/ LockToLeave(p)
           \/ update_utmp(p) \/ Leave(p) \/ Crash(p)
           \/ \E s \in Slots : Kick(p, s)
        BY <1>2 DEF Next
    <2>2. CASE \E u \in User : Login(p, u)
        BY <2>1, <2>2, QuietStep
           DEF Login, Goto, Quiet, TableInv, TypeOK, Holding, Registered, Started
    <2>3. CASE count_self(p)
        BY <2>1, <2>3, QuietStep
           DEF count_self, Quiet, TableInv, TypeOK, Holding
    <2>4. CASE Admit(p) \/ KickOther(p) \/ Start(p) \/ Stay(p) \/ Slipped(p) \/ Leave(p)
        BY <2>1, <2>4, QuietStep
           DEF Admit, KickOther, Start, Stay, Slipped, Leave, Goto, Quiet, TableInv,
               TypeOK, Holding, Registered, Started
    <2>5. CASE \E s \in Slots : Kick(p, s)
        BY <2>1, <2>5, QuietStep
           DEF Kick, Goto, Quiet, TableInv, TypeOK, Holding, Registered, Started
    <2>6. CASE Full(p)
        BY <2>1, <2>6, FullStep
    <2>7. CASE Refuse(p) \/ GiveUp(p) \/ Crash(p)
        BY <2>1, <2>7, VanishStep DEF Refuse, GiveUp, Crash
    <2>8. CASE Hangup(p)
        <3>1. CASE Vanish(p)
            BY <2>1, <3>1, VanishStep
        <3>2. CASE ~Vanish(p)
            BY <2>1, <2>8, <3>2, QuietStep
               DEF Hangup, Goto, Quiet, TableInv, TypeOK, Holding, Registered, Started
        <3> QED
            BY <3>1, <3>2
    <2>9. CASE Lock(p) \/ LockToLeave(p)
        BY <2>1, <2>9, LockStep
    <2>10. CASE Find(p)
        BY <2>1, <2>10, FindStep
    <2>11. CASE Claim(p)
        BY <2>1, <2>11, ClaimStep
    <2>12. CASE update_utmp(p)
        BY <2>1, <2>12, UpdateStep
    <2>13. CASE Mark(p)
        BY <2>1, <2>13, MarkStep
    <2>14. CASE u_exit(p)
        BY <2>1, <2>14, u_exitStep
    <2> QED
        BY <2>2, <2>3, <2>4, <2>5, <2>6, <2>7, <2>8, <2>9, <2>10, <2>11, <2>12,
           <2>13, <2>14 DEF Run
<1> QED
    BY <1>1, <1>2

(***************************************************************************)
(* Whatever sweeps, kicks, crashes and reused pids there are: a running    *)
(* session's slot shows that session, until the user list has marked a     *)
(* slot before its owner was gone.                                         *)
(***************************************************************************)
THEOREM OwnSlotHolds == Spec => []OwnSlot
<1>1. TableInv => OwnSlot
    BY DEF TableInv, OwnEntry, OwnSlot, Registered
<1> QED
    BY TableInit, TableStep, <1>1, PTL DEF Spec

(* The table, the processes and their counts keep their types, however many *)
(* there are.                                                               *)
THEOREM TypesHold == Spec => []TypeOK
<1>1. TableInv => TypeOK
    BY DEF TableInv
<1> QED
    BY TableInit, TableStep, <1>1, PTL DEF Spec

-----------------------------------------------------------------------------
(* The limit of an account. *)

(***************************************************************************)
(* Nothing stops two logins of one account from claiming their slots one   *)
(* after the other and counting at the same time.  What limits them is the *)
(* order of the two: each is in the table before it begins to count, so of *)
(* any sessions of an account the last to come in counts all the others,   *)
(* and stays only if they are within the limit.  "The last" is nowhere in  *)
(* the state, but that there is one for any slots can be said without it:  *)
(* among the sessions in them is one that has counted as many of the slots *)
(* as its walk has passed.  The last slot is left out: no walk looks at it.*)
(***************************************************************************)
Live == {"entered"} \cup Started
SessionOf(p, u) == pc[p] \in Live /\ user[p] = u

Limited == User \ (Multilog \cup {Guest})
Counting == 1 .. Size - 1

Held(T, u) == \A s \in T : \E q \in Proc : slot[q] = s /\ SessionOf(q, u)

Sees(x, T, u) ==
    \/ pc[x] = "entered"
    \/ pc[x] = "recheck" /\ Cardinality({s \in T : s < scan[x]}) <= count[x]
    \/ pc[x] \in {"online", "kicking"} /\ Cardinality(T) <= Limit[u]

Seen ==
    \A u \in Limited : \A T \in SUBSET Counting :
       T # {} /\ Held(T, u)
       => \E x \in Proc : slot[x] \in T /\ SessionOf(x, u) /\ Sees(x, T, u)

\* A walk begins at the first slot, and who has no slot has none recorded.
Fresh == \A p \in Proc :
            pc[p] \in {"enter", "find", "claim", "entered"} => scan[p] = 1 /\ count[p] = 0

Seated == \A p \in Proc : slot[p] # 0 => pc[p] \in Registered

LimitInv == TableInv /\ Fresh /\ Seated /\ (~hasty => Seen)

(* One step of p, of the kinds the limit tells apart. *)
Act(p) ==
    \/ \E u \in User : Login(p, u)
    \/ Run(p) \/ Hangup(p) \/ Lock(p) \/ LockToLeave(p)
    \/ update_utmp(p) \/ Leave(p) \/ Crash(p)
    \/ \E s \in Slots : Kick(p, s)

Enters(p) == \* before it has a slot, or gone
    /\ pc'[p] \notin Registered
    /\ slot'[p] = 0 \/ (slot'[p] = slot[p] /\ pc[p] \notin Registered)
    /\ pc'[p] \in {"enter", "find", "claim"} => scan'[p] = 1 /\ count'[p] = 0

Sits(p) == \* the claim
    /\ pc[p] = "claim" /\ pc'[p] = "entered" /\ slot'[p] = target[p]
    /\ user'[p] = user[p] /\ scan'[p] = scan[p] /\ count'[p] = count[p]

Goes(p) == \* on its way out
    pc[p] \in Registered /\ pc'[p] \in {"leaving", "left"}

Same(p) == user'[p] = user[p] /\ slot'[p] = slot[p]

Starts(p) ==
    /\ pc[p] = "entered" /\ pc'[p] = "recheck"
    /\ scan'[p] = scan[p] /\ count'[p] = count[p] /\ Same(p)

Counts(p) ==
    /\ pc[p] = "recheck" /\ pc'[p] = "recheck" /\ scan[p] < Size /\ Same(p)
    /\ scan'[p] = scan[p] + 1
    /\ count'[p] = IF ~Vacant(scan[p]) /\ utmp[scan[p]].uid = user[p]
                   THEN count[p] + 1 ELSE count[p]

Stays(p) ==
    /\ pc[p] = "recheck" /\ pc'[p] = "online" /\ scan[p] = Size /\ ~TooMany(p) /\ Same(p)

Lives(p) == {pc[p], pc'[p]} \subseteq {"online", "kicking"} /\ Same(p)

Others(p) ==
    \A q \in Proc \ {p} : /\ pc'[q] = pc[q] /\ user'[q] = user[q] /\ slot'[q] = slot[q]
                          /\ scan'[q] = scan[q] /\ count'[q] = count[q]

LEMMA Kinds ==
    ASSUME LimitInv, NEW p \in Proc, Act(p)
    PROVE  /\ Others(p) /\ (hasty => hasty')
           /\ \/ Enters(p) \/ Sits(p) \/ Starts(p) \/ Counts(p)
              \/ Stays(p) \/ (Goes(p) /\ slot'[p] = slot[p]) \/ Lives(p)
<1> USE DEF Others
<1>0. TypeOK
    BY DEF LimitInv, TableInv
<1>1. CASE \E u \in User : Login(p, u)
    <2>1. PICK u \in User : Login(p, u)
        BY <1>1
    <2>2. Enters(p)
        BY <1>0, <2>1 DEF Login, Goto, Enters, TypeOK, Registered, Started
    <2> QED
        BY <1>0, <2>1, <2>2 DEF Login, Goto, TypeOK
<1>2. CASE count_self(p)
    <2>1. CASE pc[p] = "check"
        BY <1>0, <1>2, <2>1 DEF count_self, TypeOK, Enters, Registered, Started
    <2>2. CASE pc[p] = "recheck"
        BY <1>0, <1>2, <2>2 DEF count_self, TypeOK, Counts, Same
    <2> QED
        BY <1>2, <2>1, <2>2 DEF count_self
<1>3. CASE Admit(p) \/ KickOther(p)
    <2>1. pc[p] = "check" /\ Goto(p, "enter") /\ StartScan(p) /\ UNCHANGED <<user, slot, hasty>>
        BY <1>3 DEF Admit, KickOther
    <2> QED
        BY <1>0, <2>1 DEF StartScan, Goto, TypeOK, Enters, Registered, Started
<1>4. CASE Vanish(p)
    <2>1. Exit(p) /\ hasty' = hasty
        BY <1>4 DEF Vanish
    <2> QED
        BY <1>0, <2>1 DEF Exit, StartScan, Goto, TypeOK, Enters, Registered, Started
<1>5. CASE Lock(p) \/ Find(p) \/ Full(p)
    <2>1. /\ pc[p] \in {"enter", "find"} /\ \E s \in {"enter", "find", "claim"} : Goto(p, s)
          /\ UNCHANGED <<user, slot, scan, count, hasty>>
        BY <1>5 DEF Lock, Find, Full
    <2> QED
        BY <1>0, <2>1 DEF Goto, TypeOK, Enters, Registered, Started, LimitInv, Fresh
<1>6. CASE Claim(p)
    <2>1. /\ pc[p] = "claim" /\ Goto(p, "entered") /\ slot' = [slot EXCEPT ![p] = target[p]]
          /\ UNCHANGED <<user, scan, count, hasty>>
        BY <1>6 DEF Claim
    <2> QED
        BY <1>0, <2>1 DEF Goto, TypeOK, Sits
<1>7. CASE Start(p)
    BY <1>0, <1>7 DEF Start, Goto, TypeOK, Starts, Same
<1>8. CASE Stay(p)
    BY <1>0, <1>8 DEF Stay, Counted, StartScan, Goto, TypeOK, Stays, Same
<1>9. CASE Slipped(p) \/ Leave(p) \/ LockToLeave(p)
    <2>1. /\ pc[p] \in Registered /\ \E s \in {"leaving", "left"} : Goto(p, s)
          /\ UNCHANGED <<user, slot, hasty>>
        BY <1>9 DEF Slipped, Leave, LockToLeave, Registered, Started
    <2>2. StartScan(p) \/ UNCHANGED <<scan, count>>
        BY <1>9 DEF Slipped, Leave, LockToLeave
    <2> QED
        BY <1>0, <2>1, <2>2 DEF Goto, StartScan, TypeOK, Goes
<1>10. CASE Mark(p)
    BY <1>0, <1>10 DEF Mark, Goto, TypeOK, Lives, Same
<1>11. CASE u_exit(p)
    <2>1. Exit(p) /\ hasty' = hasty
        BY <1>11 DEF u_exit
    <2> QED
        BY <1>0, <2>1 DEF Exit, StartScan, Goto, TypeOK, Enters, Registered, Started
<1>12. CASE Hangup(p) /\ ~Vanish(p)
    <2>1. /\ pc[p] \in Started /\ Goto(p, "leaving") /\ StartScan(p)
          /\ UNCHANGED <<user, slot, hasty>>
        BY <1>12 DEF Hangup
    <2> QED
        BY <1>0, <2>1 DEF Goto, StartScan, TypeOK, Goes, Registered
<1>13. CASE update_utmp(p)
    BY <1>0, <1>13 DEF update_utmp, session, Lives, Same
<1>14. CASE \E s \in Slots : Kick(p, s)
    BY <1>0, <1>14 DEF Kick, Goto, TypeOK, Lives, Same
<1> QED
    BY <1>1, <1>2, <1>3, <1>4, <1>5, <1>6, <1>7, <1>8, <1>9, <1>10, <1>11, <1>12,
       <1>13, <1>14 DEF Act, Run, Refuse, GiveUp, Crash

LEMMA FreshStep ==
    ASSUME LimitInv, NEW p \in Proc, Act(p)
    PROVE  Fresh' /\ Seated'
<1>1. Others(p)
    BY Kinds
<1>2. pc'[p] \in {"enter", "find", "claim", "entered"} => scan'[p] = 1 /\ count'[p] = 0
    BY Kinds DEF LimitInv, Fresh, Enters, Sits, Starts, Counts, Stays, Goes, Lives,
                 Registered, Started
<1>3. slot'[p] # 0 => pc'[p] \in Registered
    BY Kinds DEF LimitInv, Seated, Enters, Sits, Starts, Counts, Stays, Goes, Lives,
                 Registered, Started
<1>4. Fresh'
    BY <1>1, <1>2 DEF Fresh, LimitInv, Others
<1>5. Seated'
    BY <1>1, <1>3 DEF Seated, LimitInv, Others
<1> QED
    BY <1>4, <1>5

LEMMA SeenFinite ==
    ASSUME NEW T \in SUBSET Counting
    PROVE  IsFiniteSet(T) /\ Cardinality(T) \in Nat /\ T \subseteq Slots
<1>1. Size - 1 \in Int /\ 1 \in Int
    BY SizeAssumption
<1>2. IsFiniteSet(Counting)
    BY <1>1, FS_Interval DEF Counting
<1>3. IsFiniteSet(T) /\ Cardinality(T) \in Nat
    BY <1>2, FS_Subset, FS_CardinalityType
<1> QED
    BY <1>3, SizeAssumption DEF Counting, Slots

LEMMA LiveIsRegistered ==
    ASSUME NEW q \in Proc, pc[q] \in Live
    PROVE  pc[q] \in Registered
BY DEF Live, Registered, Started

(* Where nobody comes in, the session that has seen the others still has,   *)
(* unless it is gone, and then its slot is not among those of the sessions. *)
LEMMA SeenKeeps ==
    ASSUME TypeOK, OwnEntry, Seen,
           \A q \in Proc : pc'[q] \in Live => /\ pc[q] \in Live /\ user'[q] = user[q]
                                              /\ slot'[q] = slot[q],
           \A x \in Proc, u \in Limited, T \in SUBSET Counting :
              Held(T, u) /\ SessionOf(x, u) /\ pc'[x] \in Live /\ slot[x] \in T /\ Sees(x, T, u)
              => Sees(x, T, u)'
    PROVE  Seen'
<1> SUFFICES ASSUME NEW u \in Limited, NEW T \in SUBSET Counting, T # {}, Held(T, u)'
             PROVE  \E x \in Proc : slot'[x] \in T /\ SessionOf(x, u)' /\ Sees(x, T, u)'
    BY DEF Seen, Limited, Counting
<1>1. \A s \in T : \E q \in Proc : slot[q] = s /\ SessionOf(q, u) /\ SessionOf(q, u)'
    BY DEF Held, SessionOf
<1>2. Held(T, u)
    BY <1>1 DEF Held
<1>3. PICK x \in Proc : slot[x] \in T /\ SessionOf(x, u) /\ Sees(x, T, u)
    BY <1>2 DEF Seen
<1>4. PICK q \in Proc : slot[q] = slot[x] /\ SessionOf(q, u) /\ SessionOf(q, u)'
    BY <1>1, <1>3
<1>5. q = x
    BY <1>3, <1>4, SlotsDiffer, LiveIsRegistered DEF SessionOf
<1>6. pc'[x] \in Live /\ slot'[x] \in T /\ SessionOf(x, u)'
    BY <1>3, <1>4, <1>5 DEF SessionOf
<1>7. Sees(x, T, u)'
    BY <1>2, <1>3, <1>6
<1> QED
    BY <1>6, <1>7

(* A step of the walk past a slot of the set meets its entry, and counts it. *)
LEMMA CountsSees ==
    ASSUME TypeOK, OwnEntry, NEW x \in Proc, Counts(x), NEW u, NEW T \in SUBSET Counting,
           Held(T, u), user[x] = u, Sees(x, T, u)
    PROVE  Sees(x, T, u)'
<1> DEFINE before == {s \in T : s < scan[x]}
           after == {s \in T : s < scan[x] + 1}
<1>1. scan[x] \in Nat /\ count[x] \in Nat /\ T \subseteq Nat /\ scan[x] \in Slots
    BY SizeAssumption DEF TypeOK, Slots, Counting
<1>2. Cardinality(before) <= count[x] /\ pc'[x] = "recheck" /\ scan'[x] = scan[x] + 1
    BY DEF Counts, Sees
<1>3. before \in SUBSET Counting
    OBVIOUS
<1>4. IsFiniteSet(before) /\ Cardinality(before) \in Nat
    BY <1>3, SeenFinite
<1>5. Cardinality(after) <= count'[x]
    <2>1. CASE scan[x] \in T
        <3>1. PICK q \in Proc : slot[q] = scan[x] /\ SessionOf(q, u)
            BY <2>1 DEF Held
        <3>2. utmp[scan[x]] = Mine(q) /\ user[q] = u
            BY <3>1, LiveIsRegistered DEF OwnEntry, SessionOf
        <3>3. ~Vacant(scan[x]) /\ utmp[scan[x]].uid = u
            <4>1. /\ utmp[scan[x]].active = TRUE /\ utmp[scan[x]].pid = q
                  /\ utmp[scan[x]].uid = u
                BY <3>2, MineFields
            <4> QED
                BY <4>1, ProcAssumption DEF Vacant
        <3>4. count'[x] = count[x] + 1
            BY <3>3 DEF Counts
        <3>5. ASSUME NEW s \in T
              PROVE  s < scan[x] + 1 <=> s < scan[x] \/ s = scan[x]
            <4>1. s \in Nat /\ scan[x] \in Nat
                BY <1>1
            <4> QED
                BY <4>1
        <3>6. ~(scan[x] < scan[x])
            BY <1>1
        <3>7. after = before \cup {scan[x]} /\ scan[x] \notin before
            BY <2>1, <3>5, <3>6
        <3>8. Cardinality(after) = Cardinality(before) + 1
            BY <1>4, <3>7, FS_AddElement
        <3> QED
            BY <1>1, <1>2, <1>4, <3>4, <3>8
    <2>2. CASE scan[x] \notin T
        <3>0. \A s \in T : s < scan[x] + 1 <=> s < scan[x]
            BY <1>1, <2>2
        <3>1. after = before
            BY <3>0
        <3>2. count'[x] = count[x] \/ count'[x] = count[x] + 1
            BY DEF Counts
        <3> QED
            BY <1>1, <1>2, <1>4, <3>1, <3>2
    <2> QED
        BY <2>1, <2>2
<1> QED
    BY <1>2, <1>5 DEF Sees

(* The walk has ended before the last slot: all of the set has been counted. *)
LEMMA StaysSees ==
    ASSUME TypeOK, NEW x \in Proc, Stays(x), NEW u \in Limited, NEW T \in SUBSET Counting,
           user[x] = u, Sees(x, T, u)
    PROVE  Sees(x, T, u)'
<1>0. \A s \in T : s < scan[x]
    BY SizeAssumption DEF Stays, Counting
<1>1. {s \in T : s < scan[x]} = T
    BY <1>0
<1>2. Cardinality(T) <= count[x] /\ pc'[x] = "online"
    BY <1>1 DEF Stays, Sees
<1>3. ~(count[x] > Limit[u])
    BY DEF Stays, TooMany, Limited
<1>4. count[x] \in Nat /\ Limit[u] \in Nat /\ Cardinality(T) \in Nat
    BY SeenFinite, LimitAssumption DEF TypeOK, Limited
<1>5. Cardinality(T) <= Limit[u]
    BY <1>2, <1>3, <1>4
<1> QED
    BY <1>2, <1>5 DEF Sees

(* Who has just come in has nothing to have seen. *)
LEMMA SitsSeen ==
    ASSUME TypeOK, TypeOK', Placed, OwnEntry, OwnEntry', Seen, NEW p \in Proc, Sits(p), Others(p)
    PROVE  Seen'
<1> SUFFICES ASSUME NEW u \in Limited, NEW T \in SUBSET Counting, T # {}, Held(T, u)'
             PROVE  \E x \in Proc : slot'[x] \in T /\ SessionOf(x, u)' /\ Sees(x, T, u)'
    BY DEF Seen, Limited, Counting
<1>0. \A q \in Proc, r \in Proc :
         q # r /\ pc'[q] \in Live /\ pc'[r] \in Live => slot'[q] # slot'[r]
    <2>1. \A q \in Proc : pc'[q] \in Live => utmp'[slot'[q]] = Mine(q)'
        BY DEF OwnEntry, Live, Registered, Started
    <2>2. \A q \in Proc : Mine(q)'.pid = q
        BY DEF Mine
    <2> QED
        BY <2>1, <2>2
<1>1. CASE slot'[p] \in T
    <2>1. PICK q \in Proc : slot'[q] = slot'[p] /\ SessionOf(q, u)'
        BY <1>1 DEF Held
    <2>2. q = p
        BY <1>0, <2>1 DEF Sits, SessionOf, Live
    <2>3. Sees(p, T, u)'
        BY DEF Sits, Sees
    <2> QED
        BY <1>1, <2>1, <2>2, <2>3
<1>2. CASE slot'[p] \notin T
    <2>1. \A s \in T : \E q \in Proc : slot[q] = s /\ SessionOf(q, u)
        BY <1>2 DEF Held, SessionOf, Others
    <2>2. Held(T, u)
        BY <2>1 DEF Held
    <2>3. PICK x \in Proc : slot[x] \in T /\ SessionOf(x, u) /\ Sees(x, T, u)
        BY <2>2 DEF Seen
    <2>4. x # p
        BY <2>3 DEF Sits, SessionOf, Live, Started
    <2>5. /\ pc'[x] = pc[x] /\ user'[x] = user[x] /\ slot'[x] = slot[x]
          /\ scan'[x] = scan[x] /\ count'[x] = count[x]
        BY <2>4 DEF Others
    <2> QED
        BY <2>3, <2>5 DEF SessionOf, Sees
<1> QED
    BY <1>1, <1>2

LEMMA SeenStep ==
    ASSUME LimitInv, TableInv', NEW p \in Proc, Act(p), ~hasty'
    PROVE  Seen'
<1>1. /\ Others(p) /\ ~hasty
      /\ \/ Enters(p) \/ Sits(p) \/ Starts(p) \/ Counts(p)
         \/ Stays(p) \/ (Goes(p) /\ slot'[p] = slot[p]) \/ Lives(p)
    BY Kinds
<1>2. TypeOK /\ TypeOK' /\ Placed /\ OwnEntry /\ OwnEntry' /\ Seen /\ Fresh
    BY <1>1 DEF LimitInv, TableInv
<1>3. CASE Sits(p)
    BY <1>1, <1>2, <1>3, SitsSeen
<1>4. CASE ~Sits(p)
    <2>1. \A q \in Proc : pc'[q] \in Live => /\ pc[q] \in Live /\ user'[q] = user[q]
                                             /\ slot'[q] = slot[q]
        <3>1. pc'[p] \in Live => Starts(p) \/ Counts(p) \/ Stays(p) \/ Lives(p)
            BY <1>1, <1>4, LiveIsRegistered DEF Enters, Goes, Live, Registered, Started
        <3>2. pc'[p] \in Live => pc[p] \in Live /\ user'[p] = user[p] /\ slot'[p] = slot[p]
            BY <3>1 DEF Starts, Counts, Stays, Lives, Same, Live, Started
        <3> QED
            BY <1>1, <3>2 DEF Others
    <2>2. ASSUME NEW x \in Proc, NEW u \in Limited, NEW T \in SUBSET Counting,
                 Held(T, u), SessionOf(x, u), pc'[x] \in Live, slot[x] \in T, Sees(x, T, u)
          PROVE  Sees(x, T, u)'
        <3>0. user[x] = u /\ pc[x] \in Live
            BY <2>2 DEF SessionOf
        <3>1. CASE x # p
            <4>1. pc'[x] = pc[x] /\ scan'[x] = scan[x] /\ count'[x] = count[x]
                BY <1>1, <3>1 DEF Others
            <4> QED
                BY <2>2, <4>1 DEF Sees
        <3>2. CASE Starts(x)
            <4>1. scan[x] = 1 /\ count[x] = 0
                BY <1>2, <3>2 DEF Fresh, Starts
            <4>2. \A s \in T : ~(s < 1)
                BY SizeAssumption DEF Counting
            <4>3. {s \in T : s < 1} = {}
                BY <4>2
            <4>4. Cardinality({s \in T : s < 1}) <= 0
                BY <4>3, FS_EmptySet
            <4>5. pc'[x] = "recheck" /\ scan'[x] = 1 /\ count'[x] = 0
                BY <3>2, <4>1 DEF Starts
            <4> QED
                BY <4>4, <4>5 DEF Sees
        <3>3. CASE Counts(x)
            BY <1>2, <2>2, <3>0, <3>3, CountsSees
        <3>4. CASE Stays(x)
            BY <1>2, <2>2, <3>0, <3>4, StaysSees
        <3>5. CASE Lives(x)
            BY <2>2, <3>5 DEF Lives, Sees
        <3>6. CASE x = p /\ (Enters(x) \/ Goes(x))
            BY <2>2, <3>6, LiveIsRegistered
               DEF Enters, Goes, Live, Registered, Started
        <3> QED
            BY <1>1, <1>4, <3>1, <3>2, <3>3, <3>4, <3>5, <3>6
    <2> QED
        BY <1>2, <2>1, <2>2, SeenKeeps
<1> QED
    BY <1>3, <1>4

LEMMA LimitStep == LimitInv /\ [Next]_vars => LimitInv'
<1> SUFFICES ASSUME LimitInv, [Next]_vars PROVE LimitInv'
    OBVIOUS
<1>1. TableInv'
    BY TableStep DEF LimitInv
<1>2. CASE Next
    <2>1. PICK p \in Proc : Act(p)
        BY <1>2 DEF Next, Act
    <2>2. Fresh' /\ Seated'
        BY <2>1, FreshStep
    <2>3. ~hasty' => Seen'
        BY <1>1, <2>1, SeenStep
    <2> QED
        BY <1>1, <2>2, <2>3 DEF LimitInv
<1>3. CASE UNCHANGED vars
    <2>1. UNCHANGED <<pc, user, slot, scan, count, hasty>>
        BY <1>3 DEF vars, session
    <2>2. Fresh' /\ Seated'
        BY <2>1 DEF LimitInv, Fresh, Seated
    <2>3. ~hasty' => Seen'
        BY <2>1 DEF LimitInv, Seen, Held, SessionOf, Sees
    <2> QED
        BY <1>1, <2>2, <2>3 DEF LimitInv
<1> QED
    BY <1>2, <1>3

LEMMA LimitInit == Init => LimitInv
<1> SUFFICES ASSUME Init PROVE LimitInv
    OBVIOUS
<1>1. TableInv
    BY TableInit
<1>2. Fresh /\ Seated
    BY DEF Init, Fresh, Seated
<1>3. Seen
    <2> SUFFICES ASSUME NEW u \in Limited, NEW T \in SUBSET Counting, T # {}, Held(T, u)
                 PROVE  FALSE
        BY DEF Seen
    <2>1. PICK s \in T : TRUE
        OBVIOUS
    <2>2. PICK q \in Proc : SessionOf(q, u)
        BY <2>1 DEF Held
    <2> QED
        BY <2>2 DEF Init, SessionOf, Live, Started
<1> QED
    BY <1>1, <1>2, <1>3 DEF LimitInv

(* At the end the last of the sessions online has counted all of them. *)
LEMMA WithinLimit ==
    ASSUME LimitInv, ~hasty, NEW u \in Limited
    PROVE  Cardinality({p \in Online(u) : slot[p] # Size}) <= Limit[u]
<1> DEFINE P == {p \in Online(u) : slot[p] # Size}
           T == {slot[p] : p \in P}
<1>0. TypeOK /\ Placed /\ OwnEntry /\ Seen
    BY DEF LimitInv, TableInv
<1>1. \A p \in P : /\ p \in Proc /\ pc[p] \in {"online", "kicking"}
                   /\ SessionOf(p, u) /\ pc[p] \in Registered /\ slot[p] # Size
    BY DEF Online, SessionOf, Live, Registered, Started
<1>2. \A p \in P : slot[p] \in Counting
    BY <1>0, <1>1, SizeAssumption DEF Placed, Slots, Counting
<1>3. T \in SUBSET Counting
    BY <1>2
<1>4. Held(T, u)
    BY <1>1 DEF Held
<1>5. CASE P = {}
    <2>1. Cardinality(P) = 0
        BY <1>5, FS_EmptySet
    <2>2. Limit[u] \in Nat
        BY LimitAssumption DEF Limited
    <2> QED
        BY <2>1, <2>2
<1>6. CASE P # {}
    <2>1. T # {}
        BY <1>6
    <2>2. PICK x \in Proc : slot[x] \in T /\ SessionOf(x, u) /\ Sees(x, T, u)
        BY <1>0, <1>3, <1>4, <2>1 DEF Seen
    <2>3. PICK p \in P : slot[p] = slot[x]
        BY <2>2
    <2>4. p = x
        BY <1>0, <1>1, <2>2, <2>3, SlotsDiffer, LiveIsRegistered DEF SessionOf
    <2>5. Cardinality(T) <= Limit[u]
        BY <1>1, <2>2, <2>4 DEF Sees
    <2>6. IsFiniteSet(T) /\ Cardinality(T) \in Nat
        BY <1>3, SeenFinite
    <2> DEFINE f == [q \in P |-> slot[q]]
    <2>7. f \in Injection(P, T)
        <3>1. f \in [P -> T]
            OBVIOUS
        <3>2. \A q, r \in P : slot[q] = slot[r] => q = r
            BY <1>0, <1>1, SlotsDiffer
        <3> QED
            BY <3>1, <3>2 DEF Injection, IsInjective
    <2>8. IsFiniteSet(P) /\ Cardinality(P) <= Cardinality(T)
        <3> HIDE DEF P, T, f
        <3> QED
            BY <2>6, <2>7, FS_Injection
    <2>9. Cardinality(P) \in Nat /\ Limit[u] \in Nat
        BY <2>8, FS_CardinalityType, LimitAssumption DEF Limited
    <2> HIDE DEF P, T
    <2>10. Cardinality(P) <= Limit[u]
        BY <2>5, <2>6, <2>8, <2>9
    <2> QED
        BY <2>10 DEF P
<1> QED
    BY <1>5, <1>6

(***************************************************************************)
(* However the logins of an account race, those whose second count is over *)
(* are within its limit, as far as the count can see: the sessions in the  *)
(* last slot come on top, and nothing is said once the user list has       *)
(* marked a slot whose owner was running.                                  *)
(***************************************************************************)
THEOREM LoginLimitHolds == Spec => []LoginLimit
<1>1. LimitInv => LoginLimit
    BY WithinLimit DEF LoginLimit, Limited
<1> QED
    BY LimitInit, LimitStep, <1>1, PTL DEF Spec

-----------------------------------------------------------------------------
(* Who a login kicks. *)

(* The slots that match have a first one. *)
LEMMA FirstSlot ==
    ASSUME NEW S \in SUBSET Slots, S # {}
    PROVE  \E s \in S : \A t \in S : s <= t
<1> DEFINE R == OpToRel(<, Nat)
<1>0. S \subseteq Nat
    BY SizeAssumption DEF Slots
<1>1. \A x, y \in S : x < y => <<x, y>> \in R
    BY <1>0 DEF OpToRel
<1> HIDE DEF R
<1>2. IsWellFoundedOn(R, Nat)
    BY NatLessThanWellFounded DEF R
<1>3. PICK x \in S : \A y \in S : <<y, x>> \notin R
    BY <1>0, <1>2, WFMin
<1>4. \A y \in S : ~(y < x)
    BY <1>1, <1>3
<1> QED
    BY <1>0, <1>4

(* A login goes on to enter by being admitted or by kicking. *)
LEMMA WhoEnters ==
    ASSUME LimitInv, NEW p \in Proc, Next, pc[p] = "check", pc'[p] = "enter"
    PROVE  Admit(p) \/ KickOther(p)
<1>0. TypeOK
    BY DEF LimitInv, TableInv
<1>1. PICK r \in Proc : Act(r)
    BY DEF Next, Act
<1>2. r = p
    BY <1>1, Kinds DEF Others
<1>3. CASE \E u \in User : Login(p, u)
    BY <1>3 DEF Login
<1>4. CASE count_self(p)
    BY <1>4 DEF count_self
<1>5. CASE Vanish(p)
    BY <1>0, <1>5 DEF Vanish, Exit, Goto, TypeOK
<1>6. CASE \/ Lock(p) \/ Find(p) \/ Full(p) \/ Claim(p) \/ Start(p) \/ Stay(p)
           \/ Slipped(p) \/ Mark(p) \/ u_exit(p) \/ LockToLeave(p) \/ update_utmp(p)
           \/ Leave(p) \/ \E s \in Slots : Kick(p, s)
    BY <1>6 DEF Lock, Find, Full, Claim, Start, Stay, Slipped, Mark, u_exit,
                LockToLeave, update_utmp, Leave, Kick
<1>7. CASE Hangup(p) /\ ~Vanish(p)
    BY <1>7 DEF Hangup, Started
<1> QED
    BY <1>1, <1>2, <1>3, <1>4, <1>5, <1>6, <1>7 DEF Act, Run, Refuse, GiveUp, Crash

(* The entry that is found names the process it signals.  Either that       *)
(* process sits in the slot, and then the entry is its own and so is the    *)
(* account; or it does not, and the entry is somebody's who ended without   *)
(* giving it up.                                                            *)
LEMMA KicksOwn ==
    ASSUME LimitInv, ~hasty, NEW p \in Proc, KickOther(p), NEW q \in hup' \ hup
    PROVE  user[q] = user[p] \/ \E s \in Ghosts : utmp[s].pid = q
<1> DEFINE other == {s \in Slots : utmp[s].uid = user[p] /\ utmp[s].pid # p}
           first == CHOOSE s \in other : \A t \in other : s <= t
<1>1. other # {} /\ utmp[first].active /\ q = utmp[first].pid
    BY DEF KickOther
<1>2. \E s \in other : \A t \in other : s <= t
    BY <1>1, FirstSlot
<1>3. first \in other
    BY <1>2
<1> HIDE DEF first
<1>4. first \in Slots /\ utmp[first].uid = user[p]
    BY <1>3
<1>5. CASE \E r \in Proc : slot[r] = first /\ utmp[first].pid = r
    <2>1. slot[q] = first /\ q \in Proc
        BY <1>1, <1>5
    <2>2. slot[q] # 0
        BY <1>4, <2>1, SizeAssumption DEF Slots
    <2>3. utmp[first] = Mine(q)
        BY <2>1, <2>2 DEF LimitInv, Seated, TableInv, OwnEntry
    <2> QED
        BY <1>4, <2>1, <2>3, MineFields
<1>6. CASE ~\E r \in Proc : slot[r] = first /\ utmp[first].pid = r
    <2>1. first \in Ghosts
        BY <1>1, <1>4, <1>6 DEF Ghosts
    <2> QED
        BY <1>1, <2>1
<1> QED
    BY <1>5, <1>6

(***************************************************************************)
(* The SIGHUP of a login that answers Y goes to a session of its own       *)
(* account, or to whoever got the pid of a session that ended without      *)
(* u_exit, until the user list has marked a slot before its owner had gone.*)
(***************************************************************************)
THEOREM KicksOwnAccountHolds == Spec => KicksOwnAccount
<1> DEFINE Kicked ==
       ~hasty => \A p \in Proc :
          pc[p] = "check" /\ pc'[p] = "enter"
          => \A q \in hup' \ hup : user[q] = user[p] \/ \E s \in Ghosts : utmp[s].pid = q
<1>1. LimitInv /\ [Next]_vars => [Kicked]_vars
    <2> SUFFICES ASSUME LimitInv, Next, ~hasty, NEW p \in Proc,
                        pc[p] = "check", pc'[p] = "enter", NEW q \in hup' \ hup
                 PROVE  user[q] = user[p] \/ \E s \in Ghosts : utmp[s].pid = q
        BY DEF Kicked
    <2>1. Admit(p) \/ KickOther(p)
        BY WhoEnters
    <2>2. KickOther(p)
        BY <2>1 DEF Admit
    <2> QED
        BY <2>2, KicksOwn
<1> QED
    BY LimitInit, LimitStep, <1>1, PTL DEF Spec, KicksOwnAccount, Kicked
===============================================================================
