------------------------------- MODULE Messages -------------------------------
(***************************************************************************)
(* Instant messages (sendmsg.c, exec_cmd in xyz.c, mesgmore in more.c).    *)
(*                                                                         *)
(* A message is appended to the msgfile of an account and announced to one *)
(* session of it with SIGUSR2, of which the kernel keeps one at a time.    *)
(* The handler r_msg shows as many of the last records as it counts        *)
(* signals; while it runs, and while the browser r_msg2 does, signals are  *)
(* only counted (count_msg).  The handler interrupts whatever the process  *)
(* does, so a process is a stack of activations.                           *)
(***************************************************************************)
EXTENDS Naturals, Sequences, FiniteSets

CONSTANTS
    Session, Account,
    owner,              \* the account of each session
    GetKey,             \* sessions with DEF_MSGGETKEY: a message waits for a key
    Does,               \* what the user of each session does of Commands
    MaxMessages         \* messages sent in a behaviour

Commands == {"write", "browse", "view", "execute", "lock", "leave"}

ASSUME OwnerAssumption == owner \in [Session -> Account]
ASSUME GetKeyAssumption == GetKey \subseteq Session
ASSUME DoesAssumption == Does \in [Session -> SUBSET Commands]
ASSUME BoundAssumption == MaxMessages \in Nat

VARIABLES
    file,               \* each account's msgfile: its messages, by number
    from, to,           \* the sessions each message was sent by and to
    pending, handler,   \* SIGUSR2 of each process: pending, and its disposition
    stack,              \* each process's activations, the running one last
    msg_num, RMSG,      \* its globals
    refuses,            \* uinfo.mode is one that takes no messages
    \* What the properties remember.
    told,               \* messages whose signal the process took
    shown,              \* messages shown to the session they were sent to
    cleared             \* sessions for which the file vanished during a display

mail == <<file, from, to>>
signals == <<pending, handler>>
globals == <<msg_num, RMSG, refuses>>
ghosts == <<told, shown, cleared>>
vars == <<mail, signals, stack, globals, ghosts>>

MsgId == 1 .. MaxMessages

\* An activation: where it is, the size it found (i), the record counted from
\* the last (MsgNum), the RMSG to restore, the receiver, the message
\* read last or written.
Places == {"main", "program", "away", "back", "locked", "gone", "clear",
           "compose", "append", "kill",
           "enter", "loop", "read", "key", "install", "restore",
           "browse", "look", "choose", "close", "reset"}
Activation == [at : Places, i : 0 .. MaxMessages, MsgNum : 0 .. MaxMessages,
               premsg : BOOLEAN, uin : Session \cup {"none"},
               msg : 0 .. MaxMessages]
Fresh(place) == [at |-> place, i |-> 0, MsgNum |-> 0, premsg |-> FALSE,
                 uin |-> "none", msg |-> 0]

Depth == 2 * MaxMessages + 4

TypeOK ==
    /\ \A a \in Account : Len(file[a]) <= MaxMessages
    /\ DOMAIN file = Account
    /\ from \in Seq(Session) /\ Len(from) = Len(to)
    /\ to \in Seq(Session) /\ Len(to) <= MaxMessages
    /\ \A a \in Account : \A k \in DOMAIN file[a] :
          file[a][k] \in DOMAIN to /\ owner[to[file[a][k]]] = a
    /\ pending \in [Session -> BOOLEAN]
    /\ handler \in [Session -> {"r_msg_sig", "count_msg", "ignore"}]
    /\ DOMAIN stack = Session
    /\ \A s \in Session : /\ Len(stack[s]) \in 1 .. Depth
                          /\ \A k \in DOMAIN stack[s] : stack[s][k] \in Activation
    /\ msg_num \in [Session -> Nat] /\ RMSG \in [Session -> BOOLEAN]
    /\ refuses \in [Session -> BOOLEAN]
    /\ told \subseteq MsgId /\ shown \subseteq MsgId /\ cleared \subseteq Session

Init ==
    /\ file = [a \in Account |-> <<>>] /\ from = <<>> /\ to = <<>>
    /\ pending = [s \in Session |-> FALSE]
    /\ handler = [s \in Session |-> "r_msg_sig"]
    /\ stack = [s \in Session |-> <<Fresh("main")>>]
    /\ msg_num = [s \in Session |-> 0] /\ RMSG = [s \in Session |-> FALSE]
    /\ refuses = [s \in Session |-> FALSE]
    /\ told = {} /\ shown = {} /\ cleared = {}

-----------------------------------------------------------------------------
Top(s) == stack[s][Len(stack[s])]
Below(s) == SubSeq(stack[s], 1, Len(stack[s]) - 1)
At(s, place) == Top(s).at = place

Become(s, f) == stack' = [stack EXCEPT ![s] = Append(Below(s), f)]
Goto(s, place) == Become(s, [Top(s) EXCEPT !.at = place])
Call(s, f) == stack' = [stack EXCEPT ![s] = Append(@, f)]
Return(s) == stack' = [stack EXCEPT ![s] = Below(s)]

Handle(s, h) == handler' = [handler EXCEPT ![s] = h]
msgfile(s) == file[owner[s]]
Gone(s) == At(s, "gone")

\* Reading n lines of the file leaves the last one in the buffer.  None read
\* leaves what was there: at first whatever the memory was used for, garbage or
\* a message of an earlier display.  What the buffer has is on the screen.
Buffer(s, n) ==
    IF n > 0 THEN {msgfile(s)[IF n <= Len(msgfile(s)) THEN n ELSE Len(msgfile(s))]}
    ELSE IF Top(s).msg > 0 THEN {Top(s).msg}
    ELSE {0} \cup {m \in shown : to[m] = s}
Shows(s, m) == shown' = IF m > 0 /\ to[m] = s THEN shown \cup {m} ELSE shown

\* t_search: the session a message came from, or another one of its account.
t_search(s) ==
    LET m == Top(s).msg
        others == {t \in Session : owner[t] = owner[from[m]] /\ ~Gone(t)}
    IN  IF m = 0 THEN {} ELSE IF ~Gone(from[m]) THEN {from[m]} ELSE others

\* An answer goes to who can be found, is not the user himself, and takes it.
Answerable(s) ==
    {t \in t_search(s) : owner[t] # owner[s] /\ ~refuses[t]}

(* The kernel delivers the signal, between any two steps of the process. *)
r_msg_sig(s) ==
    /\ pending[s] /\ handler[s] = "r_msg_sig" /\ ~Gone(s)
    /\ pending' = [pending EXCEPT ![s] = FALSE]
    /\ Call(s, Fresh("enter"))
    /\ UNCHANGED <<mail, handler, globals, ghosts>>

count_msg(s) ==
    /\ pending[s] /\ handler[s] = "count_msg"
    /\ pending' = [pending EXCEPT ![s] = FALSE]
    /\ msg_num' = [msg_num EXCEPT ![s] = @ + 1]
    /\ UNCHANGED <<mail, handler, stack, RMSG, refuses, ghosts>>

(* r_msg *)
Enter(s) ==
    /\ At(s, "enter")
    /\ Handle(s, "count_msg")
    /\ msg_num' = [msg_num EXCEPT ![s] = @ + 1]
    /\ Become(s, [Top(s) EXCEPT !.at = "loop",
                                !.premsg = s \in GetKey /\ RMSG[s]])
    /\ UNCHANGED <<mail, pending, RMSG, refuses, ghosts>>

Loop(s) ==
    /\ At(s, "loop")
    /\ IF msg_num[s] = 0 THEN Goto(s, "install")
       ELSE Become(s, [Top(s) EXCEPT !.at = "read", !.i = Len(msgfile(s))])
    /\ UNCHANGED <<mail, signals, globals, ghosts>>

\* The file cannot be opened: what was counted stays counted, and RMSG as set.
Missing(s) ==
    /\ At(s, "read") /\ msgfile(s) = <<>>
    /\ Handle(s, "r_msg_sig") /\ Return(s)
    /\ cleared' = cleared \cup {s}
    /\ UNCHANGED <<mail, pending, globals, told, shown>>

\* Variant: one record short, j < i - msg_num.
read_one_less(s) ==
    /\ At(s, "read") /\ msgfile(s) # <<>>
    /\ \E m \in Buffer(s, IF Top(s).i < msg_num[s] THEN 0
                            ELSE Top(s).i - msg_num[s]) :
           /\ Shows(s, m)
           /\ Become(s, [Top(s) EXCEPT !.at = IF s \in GetKey THEN "key" ELSE "loop",
                                       !.i = 0, !.msg = m])
    /\ msg_num' = [msg_num EXCEPT ![s] = @ - 1]
    /\ RMSG' = [RMSG EXCEPT ![s] = @ \/ s \in GetKey]
    /\ UNCHANGED <<mail, signals, refuses, told, cleared>>

\* None is read when more was counted than there was a moment ago.
Read(s) ==
    /\ At(s, "read") /\ msgfile(s) # <<>>
    /\ \E m \in Buffer(s, IF Top(s).i + 1 < msg_num[s] THEN 0
                            ELSE Top(s).i + 1 - msg_num[s]) :
           /\ Shows(s, m)
           /\ Become(s, [Top(s) EXCEPT !.at = IF s \in GetKey THEN "key" ELSE "loop",
                                       !.i = 0, !.msg = m])
    /\ msg_num' = [msg_num EXCEPT ![s] = @ - 1]
    /\ RMSG' = [RMSG EXCEPT ![s] = @ \/ s \in GetKey]
    /\ UNCHANGED <<mail, signals, refuses, told, cleared>>

Key(s) ==
    /\ At(s, "key") /\ Goto(s, "loop")
    /\ UNCHANGED <<mail, signals, globals, ghosts>>

\* An answer: nothing is asked again between do_sendmsg's checks and its write.
Reply(s, t) ==
    /\ At(s, "key") /\ t \in Answerable(s)
    /\ stack' = [stack EXCEPT ![s] = Below(s) \o
                    <<[Top(s) EXCEPT !.at = "loop"],
                      [Fresh("append") EXCEPT !.uin = t]>>]
    /\ UNCHANGED <<mail, signals, globals, ghosts>>

\* Variant: signals go on being counted only.
install_nothing(s) ==
    /\ At(s, "install") /\ Goto(s, "restore")
    /\ UNCHANGED <<mail, signals, globals, ghosts>>

Install(s) ==
    /\ At(s, "install") /\ Handle(s, "r_msg_sig") /\ Goto(s, "restore")
    /\ UNCHANGED <<mail, pending, globals, ghosts>>

Restore(s) ==
    /\ At(s, "restore")
    /\ RMSG' = [RMSG EXCEPT ![s] = IF s \in GetKey THEN Top(s).premsg ELSE @]
    /\ Return(s)
    /\ UNCHANGED <<mail, signals, msg_num, refuses, ghosts>>

(* r_msg2, from igetkey; there is a message to browse. *)
Browse(s) ==
    /\ Top(s).at \in {"main", "compose", "clear"} /\ ~RMSG[s]
    /\ msgfile(s) # <<>>
    /\ Call(s, [Fresh("browse") EXCEPT !.i = Len(msgfile(s))])
    /\ UNCHANGED <<mail, signals, globals, ghosts>>

Browsing(s) ==
    /\ At(s, "browse")
    /\ Handle(s, "count_msg") /\ RMSG' = [RMSG EXCEPT ![s] = TRUE]
    /\ Goto(s, "look")
    /\ UNCHANGED <<mail, pending, msg_num, refuses, ghosts>>

Look(s) ==
    /\ At(s, "look") /\ msgfile(s) # <<>>
    /\ \E m \in Buffer(s, Top(s).i - Top(s).MsgNum) :
           Shows(s, m) /\ Become(s, [Top(s) EXCEPT !.at = "choose", !.msg = m])
    /\ UNCHANGED <<mail, signals, globals, told, cleared>>

\* ^Z the record before, ^A the one after, round the ends.
Choose(s) ==
    /\ At(s, "choose")
    /\ LET i == Top(s).i n == Top(s).MsgNum
       IN  \E next \in {(n + 1) % i, (n + i - 1) % i} :
              Become(s, [Top(s) EXCEPT !.at = "look", !.MsgNum = next])
    /\ UNCHANGED <<mail, signals, globals, ghosts>>

Answer(s, t) ==
    /\ At(s, "choose") /\ t \in Answerable(s)
    /\ stack' = [stack EXCEPT ![s] = Below(s) \o
                    <<Fresh("close"), [Fresh("append") EXCEPT !.uin = t]>>]
    /\ UNCHANGED <<mail, signals, globals, ghosts>>

Quit(s) ==
    /\ At(s, "choose") /\ Become(s, Fresh("close"))
    /\ UNCHANGED <<mail, signals, globals, ghosts>>

\* Variant: counted down whether or not something is counted.
close_uncounted(s) ==
    /\ At(s, "close")
    /\ RMSG' = [RMSG EXCEPT ![s] = FALSE]
    /\ msg_num' = [msg_num EXCEPT ![s] = @ - 1]
    /\ Goto(s, IF msg_num[s] > 0 THEN "enter" ELSE "reset")
    /\ UNCHANGED <<mail, signals, refuses, ghosts>>

\* Left, it shows what was counted in the meantime: r_msg counts one itself.
Close(s) ==
    /\ At(s, "close")
    /\ RMSG' = [RMSG EXCEPT ![s] = FALSE]
    /\ msg_num' = [msg_num EXCEPT ![s] = IF @ > 0 THEN @ - 1 ELSE 0]
    /\ Goto(s, IF msg_num[s] > 0 THEN "enter" ELSE "reset")
    /\ UNCHANGED <<mail, signals, refuses, ghosts>>

\* Variant: the browser stays marked open.
vanish_open(s) ==
    /\ At(s, "look") /\ msgfile(s) = <<>>
    /\ Become(s, Fresh(IF msg_num[s] > 0 THEN "enter" ELSE "reset"))
    /\ UNCHANGED <<mail, signals, globals, ghosts>>

\* The same when the file has gone, but for the one r_msg counts.
Vanished(s) ==
    /\ At(s, "look") /\ msgfile(s) = <<>>
    /\ RMSG' = [RMSG EXCEPT ![s] = FALSE]
    /\ Become(s, Fresh(IF msg_num[s] > 0 THEN "enter" ELSE "reset"))
    /\ UNCHANGED <<mail, signals, msg_num, refuses, ghosts>>

Reset(s) ==
    /\ At(s, "reset") /\ Handle(s, "r_msg_sig") /\ Return(s)
    /\ UNCHANGED <<mail, pending, globals, ghosts>>

(* do_sendmsg: who may be written to is asked before the text is typed. *)
Address(s, t) ==
    /\ At(s, "main") /\ ~refuses[t] /\ ~Gone(t)
    /\ Call(s, [Fresh("compose") EXCEPT !.uin = t])
    /\ UNCHANGED <<mail, signals, globals, ghosts>>

Compose(s) ==
    /\ At(s, "compose") /\ Goto(s, "append")
    /\ UNCHANGED <<mail, signals, globals, ghosts>>

Cancel(s) ==
    /\ At(s, "compose") /\ Return(s)
    /\ UNCHANGED <<mail, signals, globals, ghosts>>

file_append(s) ==
    /\ At(s, "append") /\ Len(to) < MaxMessages
    /\ LET t == Top(s).uin m == Len(to) + 1
       IN  /\ ~Gone(t)
           /\ file' = [file EXCEPT ![owner[t]] = Append(@, m)]
           /\ from' = Append(from, s) /\ to' = Append(to, t)
           /\ Become(s, [Top(s) EXCEPT !.at = "kill", !.msg = m])
    /\ UNCHANGED <<signals, globals, ghosts>>

\* The receiver's process has gone (or the bound on messages is reached).
Offline(s) ==
    /\ At(s, "append") /\ (Gone(Top(s).uin) \/ Len(to) = MaxMessages)
    /\ Return(s)
    /\ UNCHANGED <<mail, signals, globals, ghosts>>

Kill(s) ==
    /\ At(s, "kill")
    /\ LET t == Top(s).uin
       IN  IF handler[t] # "ignore" /\ ~Gone(t)
           THEN /\ pending' = [pending EXCEPT ![t] = TRUE]
                /\ told' = told \cup {Top(s).msg}
           ELSE UNCHANGED <<pending, told>>
    /\ Return(s)
    /\ UNCHANGED <<mail, handler, globals, shown, cleared>>

(* exec_cmd, for a program in whose mode messages are refused or not. *)
Execute(s) ==
    /\ At(s, "main")
    /\ Handle(s, "ignore") /\ pending' = [pending EXCEPT ![s] = FALSE]
    /\ told' = IF pending[s] THEN {m \in told : to[m] # s} ELSE told
    /\ Goto(s, "program")
    /\ UNCHANGED <<mail, globals, shown, cleared>>

Started(s) ==
    /\ At(s, "program")
    /\ \E r \in BOOLEAN : refuses' = [refuses EXCEPT ![s] = r]
    /\ Goto(s, "away")
    /\ UNCHANGED <<mail, signals, msg_num, RMSG, ghosts>>

Returned(s) ==
    /\ At(s, "away") /\ Handle(s, "r_msg_sig") /\ Goto(s, "back")
    /\ UNCHANGED <<mail, pending, globals, ghosts>>

Back(s) ==
    /\ Top(s).at \in {"back", "locked"}
    /\ refuses' = [refuses EXCEPT ![s] = FALSE] /\ Goto(s, "main")
    /\ UNCHANGED <<mail, signals, msg_num, RMSG, ghosts>>

\* x_lockscreen: messages are refused, but those on their way are shown.
Lock(s) ==
    /\ At(s, "main") /\ refuses' = [refuses EXCEPT ![s] = TRUE]
    /\ Goto(s, "locked")
    /\ UNCHANGED <<mail, signals, msg_num, RMSG, ghosts>>

(* mesgmore: the messages are read, then kept or cleared. *)
View(s) ==
    /\ At(s, "main") /\ msgfile(s) # <<>> /\ Call(s, Fresh("clear"))
    /\ UNCHANGED <<mail, signals, globals, ghosts>>

Keep(s) ==
    /\ At(s, "clear") /\ Return(s)
    /\ UNCHANGED <<mail, signals, globals, ghosts>>

Clear(s) ==
    /\ At(s, "clear") /\ file' = [file EXCEPT ![owner[s]] = <<>>]
    /\ Return(s)
    /\ UNCHANGED <<from, to, signals, globals, ghosts>>

Leave(s) ==
    /\ At(s, "main") /\ Len(stack[s]) = 1 /\ Goto(s, "gone")
    /\ UNCHANGED <<mail, signals, globals, ghosts>>

-----------------------------------------------------------------------------
\* What a process does by itself, and what it does when a key is hit.
Run(s) ==
    \/ Enter(s) \/ Loop(s) \/ Missing(s) \/ Read(s) \/ Install(s) \/ Restore(s)
    \/ Browsing(s) \/ Look(s) \/ Close(s) \/ Vanished(s) \/ Reset(s)
    \/ file_append(s) \/ Offline(s) \/ Kill(s)
    \/ Started(s) \/ (At(s, "back") /\ Back(s))

Keys(s) ==
    \/ Key(s) \/ Choose(s) \/ Quit(s) \/ Compose(s) \/ Cancel(s) \/ Keep(s) \/ Clear(s)
    \/ Returned(s) \/ (At(s, "locked") /\ Back(s))
    \/ \E t \in Session : Reply(s, t) \/ Answer(s, t)

Command(s) ==
    \/ "write" \in Does[s] /\ \E t \in Session : Address(s, t)
    \/ "browse" \in Does[s] /\ Browse(s)
    \/ "view" \in Does[s] /\ View(s)
    \/ "execute" \in Does[s] /\ Execute(s)
    \/ "lock" \in Does[s] /\ Lock(s)
    \/ "leave" \in Does[s] /\ Leave(s)

Signal(s) == r_msg_sig(s) \/ count_msg(s)

Next ==
    \E s \in Session : Run(s) \/ Keys(s) \/ Command(s) \/ Signal(s)

Spec == Init /\ [][Next]_vars

\* The kernel delivers signals and the processes run; nobody need hit a key.
FairSpec == Spec /\ \A s \in Session : WF_vars(Run(s)) /\ WF_vars(Signal(s))

-----------------------------------------------------------------------------
\* The process waits for a key, as it would without any message.
Idle(s) == ~pending[s] /\ handler[s] = "r_msg_sig"
           /\ Top(s).at \in {"main", "compose", "clear", "locked", "gone"}

\* The newest message of the file, if it is one to s and s took its signal.
Newest(s) == LET m == msgfile(s)[Len(msgfile(s))]
             IN  IF msgfile(s) # <<>> /\ to[m] = s /\ m \in told THEN {m} ELSE {}

\* Whatever was merged, counted late or read out of date: the newest message
\* of the file has been shown, unless a count is left to be shown later.
NewestShown == \A s \in Session :
    Idle(s) /\ msg_num[s] = 0 => Newest(s) \subseteq shown

\* The browser can be opened again once the displays are over, unless the file
\* vanished in the midst of one.
BrowserFree == \A s \in Session : Idle(s) /\ s \notin cleared => ~RMSG[s]

\* A signal gets its message shown with no further one, but where the user is
\* in front of an earlier message, or it came after the last look at the count.
\* (What is left counted is shown with the next message.)
Settled(s) ==
    \/ Top(s).at \in {"key", "choose", "gone", "away"}
    \/ Idle(s) /\ (Newest(s) \subseteq shown \/ msg_num[s] > 0)
SignalsServed == \A s \in Session : pending[s] ~> Settled(s)
=============================================================================
