---------------------------- MODULE MessagesProofs ----------------------------
(* Stacks of activations stay as deep as the messages sent allow, the      *)
(* newest message gets shown and the browser's mark is taken back: for any *)
(* number of sessions, accounts and messages.                              *)
EXTENDS Messages, SequenceTheorems, FiniteSetTheorems, TLAPS

(***************************************************************************)
(* What a stack looks like.  The menu is at the bottom, over it at most    *)
(* one of do_sendmsg and mesgmore, over that at most one browser, and then *)
(* one r_msg per signal taken.  What counts signals instead of taking them *)
(* (Counters) is on top, or under the answer it sends: nothing interrupts  *)
(* it, which is what the handlers rely on.                                 *)
(***************************************************************************)
Bases == {"main", "program", "away", "back", "locked", "gone"}
Writing == {"append", "kill"}
Browser == {"browse", "look", "choose", "close", "reset"}
Counters == {"loop", "read", "key", "install", "look", "choose", "close", "reset"}
Answering == {"loop", "close"}

Bottom(st) ==
    /\ st \in Seq(Activation) /\ st # <<>>
    /\ st[1].at \in Bases
    /\ Len(st) > 1 => st[1].at \in {"main", "back", "locked"}

OverMenu(st, k) == k = 2 /\ st[1].at = "main"
OnTop(st, k) == k = Len(st) /\ st[k - 1].at \in Answering

Placed(st, k) ==
    /\ st[k].at \notin Bases
    /\ st[k].at \in {"compose", "clear"} => OverMenu(st, k)
    /\ st[k].at \in Writing => OverMenu(st, k) \/ OnTop(st, k)
    /\ st[k].at \in Browser => k <= 3

Counts(st, k) ==
    \/ k = Len(st)
    \/ k = Len(st) - 1 /\ st[k].at \in Answering /\ st[k + 1].at \in Writing

Shape(st, h) ==
    /\ Bottom(st)
    /\ \A k \in 2 .. Len(st) : Placed(st, k)
    /\ \A k \in 1 .. Len(st) : st[k].at \in Counters => h = "count_msg" /\ Counts(st, k)
    /\ h = "count_msg" => \/ st[Len(st)].at = "enter"
                          \/ \E k \in 1 .. Len(st) : st[k].at \in Counters
    /\ h = "ignore" <=> st[1].at \in {"program", "away"}

\* What the locals of an activation are, when the messages went to these.
Local(f, these) ==
    /\ f.msg \in 0 .. Len(these)
    /\ f.at \in {"compose", "append", "kill"} => f.uin \in Session
    /\ f.at = "kill" => f.msg \in 1 .. Len(these) /\ these[f.msg] = f.uin
    /\ f.at \in {"browse", "look", "choose"} => f.MsgNum < f.i

Formed(s) ==
    /\ Shape(stack[s], handler[s])
    /\ \A k \in 1 .. Len(stack[s]) : Local(stack[s][k], to)
    /\ At(s, "read") => msg_num[s] > 0
Stacked == \A s \in Session : Formed(s)

\* The mail, and the sets that remember it.
Mail ==
    /\ from \in Seq(Session) /\ to \in Seq(Session)
    /\ Len(from) = Len(to) /\ Len(to) <= MaxMessages
    /\ file \in [Account -> Seq(Nat)]
    /\ \A a \in Account :
          /\ Len(file[a]) <= Len(to)
          /\ \A k \in 1 .. Len(file[a]) :
                file[a][k] \in 1 .. Len(to) /\ owner[to[file[a][k]]] = a

Fields ==
    /\ pending \in [Session -> BOOLEAN]
    /\ handler \in [Session -> {"r_msg_sig", "count_msg", "ignore"}]
    /\ stack \in [Session -> Seq(Activation)]
    /\ msg_num \in [Session -> Nat] /\ RMSG \in [Session -> BOOLEAN]
    /\ refuses \in [Session -> BOOLEAN]
    /\ told \subseteq 1 .. Len(to) /\ shown \subseteq 1 .. Len(to)
    /\ cleared \subseteq Session

TypedInv == Mail /\ Fields /\ Stacked

-----------------------------------------------------------------------------
(* The stack operations, and what they leave. *)
Replaced(st, f) == Append(SubSeq(st, 1, Len(st) - 1), f)
Shortened(st) == SubSeq(st, 1, Len(st) - 1)
Doubled(st, f, g) == SubSeq(st, 1, Len(st) - 1) \o <<f, g>>

LEMMA ShortenedIs ==
    ASSUME NEW A, NEW st \in Seq(A), st # <<>>
    PROVE  /\ Shortened(st) \in Seq(A) /\ Len(Shortened(st)) = Len(st) - 1
           /\ \A k \in 1 .. Len(st) - 1 : Shortened(st)[k] = st[k]
<1> DEFINE n == Len(st) - 1
<1>1. n \in Nat /\ n \in Int /\ 1 \in Int
    OBVIOUS
<1>2. \A i \in 1 .. n : st[i] \in A
    OBVIOUS
<1> HIDE DEF n
<1>3. /\ SubSeq(st, 1, n) \in Seq(A)
      /\ Len(SubSeq(st, 1, n)) = IF 1 <= n THEN n - 1 + 1 ELSE 0
      /\ \A i \in 1 .. n - 1 + 1 : SubSeq(st, 1, n)[i] = st[1 + i - 1]
    <2>1. \A S, t : \A k, l \in Int : (\A i \in k .. l : t[i] \in S) =>
            /\ SubSeq(t, k, l) \in Seq(S)
            /\ Len(SubSeq(t, k, l)) = IF k <= l THEN l - k + 1 ELSE 0
            /\ \A i \in 1 .. l - k + 1 : SubSeq(t, k, l)[i] = t[k + i - 1]
        BY SubSeqProperties, Zenon
    <2> QED
        BY <1>1, <1>2, <2>1
<1>4. Len(SubSeq(st, 1, n)) = n
    BY <1>1, <1>3
<1>5. \A i \in 1 .. n : SubSeq(st, 1, n)[i] = st[i]
    <2>1. \A i \in 1 .. n : i \in 1 .. n - 1 + 1 /\ 1 + i - 1 = i
        BY <1>1
    <2> QED
        BY <1>3, <2>1
<1> QED
    BY <1>3, <1>4, <1>5 DEF n, Shortened

LEMMA ReplacedIs ==
    ASSUME NEW A, NEW st \in Seq(A), st # <<>>, NEW f \in A
    PROVE  /\ Replaced(st, f) \in Seq(A) /\ Len(Replaced(st, f)) = Len(st)
           /\ Replaced(st, f)[Len(st)] = f
           /\ \A k \in 1 .. Len(st) - 1 : Replaced(st, f)[k] = st[k]
<1> DEFINE b == Shortened(st)
<1>1. Len(st) \in Nat /\ Len(st) >= 1
    OBVIOUS
<1>2. /\ b \in Seq(A) /\ Len(b) = Len(st) - 1
      /\ \A k \in 1 .. Len(st) - 1 : b[k] = st[k]
    BY ShortenedIs
<1> HIDE DEF b
<1>3. /\ Append(b, f) \in Seq(A) /\ Len(Append(b, f)) = Len(st)
      /\ Append(b, f)[Len(st)] = f
      /\ \A k \in 1 .. Len(st) - 1 : Append(b, f)[k] = b[k]
    BY <1>1, <1>2
<1> QED
    BY <1>2, <1>3 DEF b, Replaced, Shortened

LEMMA PushedIs ==
    ASSUME NEW A, NEW st \in Seq(A), NEW f \in A
    PROVE  /\ Append(st, f) \in Seq(A) /\ Len(Append(st, f)) = Len(st) + 1
           /\ Append(st, f)[Len(st) + 1] = f
           /\ \A k \in 1 .. Len(st) : Append(st, f)[k] = st[k]
OBVIOUS

LEMMA DoubledIs ==
    ASSUME NEW A, NEW st \in Seq(A), st # <<>>, NEW f \in A, NEW g \in A
    PROVE  /\ Doubled(st, f, g) \in Seq(A) /\ Len(Doubled(st, f, g)) = Len(st) + 1
           /\ Doubled(st, f, g)[Len(st)] = f /\ Doubled(st, f, g)[Len(st) + 1] = g
           /\ \A k \in 1 .. Len(st) - 1 : Doubled(st, f, g)[k] = st[k]
<1> DEFINE b == Shortened(st)
<1>1. Len(st) \in Nat /\ Len(st) >= 1
    OBVIOUS
<1>2. /\ b \in Seq(A) /\ Len(b) = Len(st) - 1
      /\ \A k \in 1 .. Len(st) - 1 : b[k] = st[k]
    BY ShortenedIs
<1> HIDE DEF b
<1> DEFINE c == <<f, g>>
<1>4. c \in Seq(A) /\ Len(c) = 2 /\ c[1] = f /\ c[2] = g
    OBVIOUS
<1> HIDE DEF c
<1>5. /\ b \o c \in Seq(A) /\ Len(b \o c) = Len(st) + 1
      /\ (b \o c)[Len(st)] = c[1] /\ (b \o c)[Len(st) + 1] = c[2]
      /\ \A k \in 1 .. Len(st) - 1 : (b \o c)[k] = b[k]
    <2>1. /\ b \o c \in Seq(A) /\ Len(b \o c) = Len(b) + Len(c)
          /\ \A i \in 1 .. Len(b) + Len(c) :
                (b \o c)[i] = IF i <= Len(b) THEN b[i] ELSE c[i - Len(b)]
        BY <1>2, <1>4, ConcatProperties, Zenon
    <2>2. Len(st) \in 1 .. Len(b) + Len(c) /\ Len(st) + 1 \in 1 .. Len(b) + Len(c)
        BY <1>1, <1>2, <1>4
    <2> QED
        BY <1>1, <1>2, <1>4, <2>1, <2>2
<1> QED
    BY <1>2, <1>4, <1>5 DEF b, c, Doubled, Shortened
-----------------------------------------------------------------------------
(***************************************************************************)
(* How the steps of a process shape its stack: the top goes on to another  *)
(* place, an activation is put over it, it returns, or it sends an answer. *)
(***************************************************************************)
Above(st) == st[Len(st)].at

\* What is below the top, while signals are not just counted or the top is no
\* answer, counts none.
LEMMA BelowTop ==
    ASSUME NEW st, NEW h, Shape(st, h), NEW k \in 1 .. Len(st) - 1,
           h # "count_msg" \/ Above(st) \notin Writing
    PROVE  st[k].at \notin Counters
<1>1. Len(st) \in Nat /\ k \in 1 .. Len(st) /\ k # Len(st)
    BY DEF Shape, Bottom
<1>2. SUFFICES ASSUME st[k].at \in Counters PROVE FALSE
    OBVIOUS
<1>3. h = "count_msg" /\ Counts(st, k)
    BY <1>1, <1>2 DEF Shape
<1>4. st[k + 1].at \in Writing /\ k + 1 = Len(st)
    BY <1>1, <1>3 DEF Counts
<1> QED
    BY <1>3, <1>4 DEF Above

\* The top goes on from place q to place p, and the disposition from h to g.
Turns(q, h, p, g) ==
    /\ p \in Bases <=> q \in Bases
    /\ p \notin {"compose", "clear"}
    /\ p \in Writing => q \in Writing \cup {"compose"}
    /\ q \in Writing => p \in Writing
    /\ p \in Browser => q \in Browser
    /\ p \in Counters => g = "count_msg"
    /\ g = "count_msg" => \/ p \in Counters \cup {"enter"}
                          \/ h = g /\ p \in Writing /\ q \in Writing
    /\ h = g \/ q \notin Writing
    /\ p \in Bases => (g = "ignore" <=> p \in {"program", "away"})
    /\ p \notin Bases => g # "ignore"
Moves(st, h, f, g) == f \in Activation /\ Turns(Above(st), h, f.at, g)

LEMMA OneOrMore ==
    ASSUME NEW n \in Nat, n >= 1
    PROVE  /\ n = 1 \/ n > 1
           /\ n > 1 => n # 1 /\ n \in 2 .. n /\ n - 1 \in 1 .. n
OBVIOUS

LEMMA ReplacedShape ==
    ASSUME NEW st, NEW h, Shape(st, h), NEW f, NEW g, Moves(st, h, f, g)
    PROVE  Shape(Replaced(st, f), g)
<1> DEFINE n == Len(st)
           r == Replaced(st, f)
<1>1. st \in Seq(Activation) /\ st # <<>> /\ n \in Nat /\ n >= 1
    BY DEF Shape, Bottom
<1>2. /\ r \in Seq(Activation) /\ Len(r) = n /\ r[n] = f
      /\ \A k \in 1 .. n - 1 : r[k] = st[k]
    BY <1>1, ReplacedIs DEF Moves
<1> HIDE DEF r
<1>a. /\ n = 1 \/ n > 1
      /\ n > 1 => n # 1 /\ n \in 2 .. n
    BY <1>1, OneOrMore, Zenon
<1>3. n = 1 <=> Above(st) \in Bases
    <2>1. CASE n = 1
        BY <2>1 DEF Shape, Bottom, Above
    <2>2. CASE n > 1
        <3>1. n \in 2 .. n /\ n # 1
            BY <1>a, <2>2
        <3> QED
            BY <3>1 DEF Shape, Placed, Above
    <2> QED
        BY <1>a, <2>1, <2>2
<1>4. Bottom(r)
    <2>1. r # <<>>
        BY <1>1, <1>2
    <2>2. CASE n = 1
        BY <1>1, <1>2, <1>3, <2>1, <2>2 DEF Bottom, Moves, Turns
    <2>3. CASE n > 1
        BY <1>1, <1>2, <2>1, <2>3 DEF Bottom, Shape
    <2> QED
        BY <1>a, <2>2, <2>3
<1>5. \A k \in 2 .. n : Placed(r, k)
    <2>1. SUFFICES ASSUME NEW k \in 2 .. n PROVE Placed(r, k)
        OBVIOUS
    <2>2. Placed(st, k) /\ n > 1
        BY <1>1 DEF Shape
    <2>3. r[1] = st[1]
        BY <1>1, <1>2, <2>2
    <2>4. CASE k < n
        <3>1. r[k] = st[k] /\ k # n
            BY <1>1, <1>2, <2>4
        <3> QED
            BY <1>2, <2>2, <2>3, <3>1 DEF Placed, OverMenu, OnTop
    <2>5. CASE k = n
        <3>1. r[k] = f /\ r[k - 1] = st[k - 1] /\ st[n].at = Above(st)
            BY <1>1, <1>2, <2>2, <2>5 DEF Above
        <3>2. f.at \notin Bases
            BY <1>a, <1>3, <2>2 DEF Moves, Turns
        <3>3. f.at \in Writing => OverMenu(r, k) \/ OnTop(r, k)
            <4>1. SUFFICES ASSUME f.at \in Writing PROVE OverMenu(r, k) \/ OnTop(r, k)
                OBVIOUS
            <4>2. OverMenu(st, k) \/ OnTop(st, k)
                BY <2>2, <2>5, <3>1, <4>1 DEF Placed, Moves, Turns
            <4> QED
                BY <1>2, <2>3, <2>5, <3>1, <4>2 DEF OverMenu, OnTop
        <3> QED
            BY <2>2, <2>5, <3>1, <3>2, <3>3 DEF Placed, Moves, Turns
    <2> QED
        BY <1>1, <2>4, <2>5
<1>6. \A k \in 1 .. n : r[k].at \in Counters => g = "count_msg" /\ Counts(r, k)
    <2>1. SUFFICES ASSUME NEW k \in 1 .. n, r[k].at \in Counters
                   PROVE  g = "count_msg" /\ Counts(r, k)
        OBVIOUS
    <2>2. CASE k = n
        BY <1>2, <2>1, <2>2 DEF Counts, Moves, Turns
    <2>3. CASE k # n
        <3>1. k \in 1 .. n - 1 /\ st[k].at \in Counters
            BY <1>1, <1>2, <2>1, <2>3
        <3>2. h = "count_msg" /\ Above(st) \in Writing /\ Counts(st, k)
            BY <1>1, <3>1, BelowTop DEF Shape
        <3>3. g = h /\ f.at \in Writing
            BY <3>2 DEF Counters, Writing, Moves, Turns
        <3> QED
            BY <1>1, <1>2, <3>1, <3>2, <3>3 DEF Counts
    <2> QED
        BY <2>2, <2>3
<1>7. g = "count_msg" => \/ r[n].at = "enter"
                         \/ \E k \in 1 .. n : r[k].at \in Counters
    <2>1. CASE f.at \in Counters \cup {"enter"}
        BY <1>1, <1>2, <2>1
    <2>2. CASE g = "count_msg" /\ h = g /\ f.at \in Writing /\ Above(st) \in Writing
        <3>1. PICK k \in 1 .. n : st[k].at \in Counters
            BY <2>2 DEF Shape, Above, Writing
        <3>2. k # n
            BY <2>2, <3>1 DEF Above, Writing, Counters
        <3> QED
            BY <1>1, <1>2, <3>1, <3>2
    <2> QED
        BY <2>1, <2>2 DEF Moves, Turns
<1>8. g = "ignore" <=> r[1].at \in {"program", "away"}
    <2>1. CASE n = 1
        BY <1>2, <1>3, <2>1 DEF Moves, Turns
    <2>2. CASE n > 1
        <3>1. r[1].at \in {"main", "back", "locked"}
            BY <1>1, <1>2, <2>2 DEF Shape, Bottom
        <3>2. g # "ignore"
            BY <1>a, <1>3, <2>2 DEF Moves, Turns
        <3> QED
            BY <3>1, <3>2
    <2> QED
        BY <1>a, <2>1, <2>2
<1> QED
    BY <1>2, <1>4, <1>5, <1>6, <1>7, <1>8 DEF Shape, r
\* Nothing but the menu is there where signals are ignored, and nothing counts
\* but under a display.
LEMMA Dispositions ==
    ASSUME NEW st, NEW h, Shape(st, h)
    PROVE  /\ Len(st) \in Nat /\ Len(st) >= 1 /\ Len(st) \in 1 .. Len(st)
           /\ Len(st) = 1 <=> Above(st) \in Bases
           /\ h = "ignore" <=> Above(st) \in {"program", "away"}
           /\ h = "count_msg" => Above(st) \in Counters \cup Writing \cup {"enter"}
           /\ h # "count_msg" => \A k \in 1 .. Len(st) : st[k].at \notin Counters
<1> DEFINE n == Len(st)
<1>1. st \in Seq(Activation) /\ st # <<>> /\ n \in Nat /\ n >= 1 /\ n \in 1 .. n
    BY DEF Shape, Bottom
<1>2. /\ n = 1 \/ n > 1
      /\ n > 1 => n # 1 /\ n \in 2 .. n
    BY <1>1, OneOrMore, Zenon
<1>3. n = 1 <=> Above(st) \in Bases
    <2>1. CASE n = 1
        BY <2>1 DEF Shape, Bottom, Above
    <2>2. CASE n > 1
        BY <1>2, <2>2 DEF Shape, Placed, Above
    <2> QED
        BY <1>2, <2>1, <2>2
<1>4. h = "ignore" <=> Above(st) \in {"program", "away"}
    <2>1. CASE n = 1
        BY <2>1 DEF Shape, Above
    <2>2. CASE n > 1
        <3>1. Above(st) \notin Bases
            BY <1>2, <1>3, <2>2
        <3>2. st[1].at \in {"main", "back", "locked"}
            BY <2>2 DEF Shape, Bottom
        <3> QED
            BY <3>1, <3>2 DEF Shape, Bases
    <2> QED
        BY <1>2, <2>1, <2>2
<1>5. h = "count_msg" => Above(st) \in Counters \cup Writing \cup {"enter"}
    <2>1. SUFFICES ASSUME h = "count_msg", Above(st) # "enter"
                   PROVE  Above(st) \in Counters \cup Writing
        OBVIOUS
    <2>2. PICK k \in 1 .. n : st[k].at \in Counters
        BY <2>1 DEF Shape, Above
    <2>3. Counts(st, k)
        BY <2>2 DEF Shape
    <2>4. CASE k = n
        BY <2>2, <2>4 DEF Above
    <2>5. CASE k = n - 1 /\ st[k + 1].at \in Writing
        <3>1. k + 1 = n
            BY <1>1, <2>5
        <3> QED
            BY <2>5, <3>1 DEF Above
    <2> QED
        BY <2>3, <2>4, <2>5 DEF Counts
<1>6. h # "count_msg" => \A k \in 1 .. n : st[k].at \notin Counters
    BY DEF Shape
<1> QED
    BY <1>1, <1>3, <1>4, <1>5, <1>6

\* f is put over the top, where signals are taken.
Pushes(st, h, f) ==
    /\ f \in Activation
    /\ h \notin {"count_msg", "ignore"} /\ Above(st) # "gone"
    /\ f.at \in {"enter", "compose", "clear", "browse"}
    /\ f.at \in {"compose", "clear"} => Above(st) = "main"
    /\ f.at = "browse" => Above(st) \in {"main", "compose", "clear"}

LEMMA PushedShape ==
    ASSUME NEW st, NEW h, Shape(st, h), NEW f, Pushes(st, h, f)
    PROVE  Shape(Append(st, f), h)
<1> DEFINE n == Len(st)
           r == Append(st, f)
<1>1. st \in Seq(Activation) /\ st # <<>>
    BY DEF Shape, Bottom
<1>2. /\ r \in Seq(Activation) /\ Len(r) = n + 1 /\ r[n + 1] = f
      /\ \A k \in 1 .. n : r[k] = st[k]
    BY <1>1, PushedIs DEF Pushes
<1> HIDE DEF r
<1>3. /\ n \in Nat /\ n >= 1 /\ n \in 1 .. n
      /\ n = 1 <=> Above(st) \in Bases
      /\ h = "ignore" <=> Above(st) \in {"program", "away"}
      /\ \A k \in 1 .. n : st[k].at \notin Counters
    BY Dispositions DEF Pushes
<1>4. /\ n = 1 \/ n > 1
      /\ n > 1 => n # 1 /\ n \in 2 .. n
    BY <1>3, OneOrMore, Zenon
<1>5. r[1] = st[1] /\ r # <<>> /\ 1 \in 1 .. n
    BY <1>2, <1>3
<1>6. Bottom(r)
    <2>1. st[1].at \in {"main", "back", "locked"}
        <3>1. CASE n = 1
            BY <1>3, <3>1 DEF Shape, Bottom, Above, Pushes, Bases
        <3>2. CASE n > 1
            BY <3>2 DEF Shape, Bottom
        <3> QED
            BY <1>4, <3>1, <3>2
    <2> QED
        BY <1>2, <1>5, <2>1 DEF Bottom, Bases
<1>7. \A k \in 2 .. n : st[k].at \in Writing => OverMenu(st, k)
    <2>1. SUFFICES ASSUME NEW k \in 2 .. n, st[k].at \in Writing, OnTop(st, k)
                   PROVE  FALSE
        BY DEF Shape, Placed
    <2>2. st[k - 1].at \in Counters /\ k - 1 \in 1 .. n
        BY <1>3, <2>1 DEF OnTop, Answering, Counters
    <2> QED
        BY <1>3, <2>2
<1>8. \A k \in 2 .. n + 1 : Placed(r, k)
    <2>1. SUFFICES ASSUME NEW k \in 2 .. n + 1 PROVE Placed(r, k)
        OBVIOUS
    <2>2. CASE k \in 2 .. n
        <3>1. r[k] = st[k] /\ Placed(st, k)
            BY <1>2, <1>3, <2>2 DEF Shape
        <3> QED
            BY <1>5, <1>7, <2>2, <3>1 DEF Placed, OverMenu
    <2>3. CASE k = n + 1
        <3>1. r[k].at \in {"enter", "compose", "clear", "browse"}
            BY <1>2, <2>3 DEF Pushes
        <3>2. r[k].at \in {"compose", "clear"} => OverMenu(r, k)
            <4>1. SUFFICES ASSUME r[k].at \in {"compose", "clear"} PROVE OverMenu(r, k)
                OBVIOUS
            <4>2. Above(st) = "main" /\ n = 1
                BY <1>2, <1>3, <2>3, <4>1 DEF Pushes, Bases
            <4> QED
                BY <1>5, <2>3, <4>2 DEF OverMenu, Above
        <3>3. r[k].at \in Browser => k <= 3
            <4>1. SUFFICES ASSUME r[k].at \in Browser PROVE k <= 3
                OBVIOUS
            <4>2. Above(st) \in {"main", "compose", "clear"}
                BY <1>2, <2>3, <4>1 DEF Pushes, Browser
            <4>3. CASE Above(st) = "main"
                <5>1. n = 1
                    BY <1>3, <4>3 DEF Bases
                <5> QED
                    BY <2>3, <5>1
            <4>4. CASE Above(st) \in {"compose", "clear"}
                <5>1. n \in 2 .. n
                    BY <1>3, <1>4, <4>4 DEF Bases
                <5>2. n = 2
                    BY <4>4, <5>1 DEF Shape, Placed, OverMenu, Above
                <5> QED
                    BY <2>3, <5>2
            <4> QED
                BY <4>2, <4>3, <4>4
        <3> QED
            BY <3>1, <3>2, <3>3 DEF Placed, Bases, Writing
    <2> QED
        BY <1>3, <2>2, <2>3
<1>9. \A k \in 1 .. n + 1 : r[k].at \notin Counters
    <2>1. SUFFICES ASSUME NEW k \in 1 .. n + 1 PROVE r[k].at \notin Counters
        OBVIOUS
    <2>2. CASE k \in 1 .. n
        BY <1>2, <1>3, <2>2
    <2>3. CASE k = n + 1
        BY <1>2, <2>3 DEF Pushes, Counters
    <2> QED
        BY <1>3, <2>2, <2>3
<1>10. r[1].at \notin {"program", "away"} /\ h \notin {"count_msg", "ignore"}
    BY <1>5 DEF Shape, Pushes
<1> HIDE DEF n
<1> QED
    BY <1>2, <1>6, <1>8, <1>9, <1>10 DEF Shape, r
\* The top returns, with the disposition from h to g.
Returns_(st, h, g) ==
    /\ Len(st) > 1
    /\ g # "ignore"
    /\ g = "count_msg" => Above(st) \in Writing
    /\ h = g \/ Above(st) \notin Writing

LEMMA ShortenedShape ==
    ASSUME NEW st, NEW h, Shape(st, h), NEW g, Returns_(st, h, g)
    PROVE  Shape(Shortened(st), g)
<1> DEFINE n == Len(st)
           r == Shortened(st)
<1>1. st \in Seq(Activation) /\ st # <<>>
    BY DEF Shape, Bottom
<1>2. /\ r \in Seq(Activation) /\ Len(r) = n - 1
      /\ \A k \in 1 .. n - 1 : r[k] = st[k]
    BY <1>1, ShortenedIs
<1> HIDE DEF r
<1>3. n \in Nat /\ n > 1
    BY Dispositions DEF Returns_
<1>4. r[1] = st[1] /\ r # <<>> /\ st[1].at \in {"main", "back", "locked"}
    <2>1. 1 \in 1 .. n - 1
        BY <1>3
    <2> QED
        BY <1>2, <1>3, <2>1 DEF Shape, Bottom
<1>5. Bottom(r)
    BY <1>2, <1>4 DEF Bottom, Bases
<1>6. \A k \in 2 .. n - 1 : Placed(r, k)
    <2>1. SUFFICES ASSUME NEW k \in 2 .. n - 1 PROVE Placed(r, k)
        OBVIOUS
    <2>2. k # n /\ k \in 2 .. n /\ k \in 1 .. n - 1
        BY <1>3
    <2>3. Placed(st, k) /\ r[k] = st[k]
        BY <1>2, <2>2 DEF Shape
    <2> QED
        BY <1>4, <2>2, <2>3 DEF Placed, OverMenu, OnTop
<1>7. \A k \in 1 .. n - 1 : r[k].at \in Counters => g = "count_msg" /\ k = n - 1
    <2>1. SUFFICES ASSUME NEW k \in 1 .. n - 1, r[k].at \in Counters
                   PROVE  g = "count_msg" /\ k = n - 1
        OBVIOUS
    <2>2. st[k].at \in Counters /\ k \in 1 .. n /\ k # n
        BY <1>2, <1>3, <2>1
    <2>3. h = "count_msg" /\ Above(st) \in Writing
        BY <2>2, BelowTop DEF Shape
    <2>4. Counts(st, k)
        BY <2>2 DEF Shape
    <2> QED
        BY <2>2, <2>3, <2>4 DEF Counts, Returns_
<1>8. g = "count_msg" => \E k \in 1 .. n - 1 : r[k].at \in Counters
    <2>1. SUFFICES ASSUME g = "count_msg"
                   PROVE  \E k \in 1 .. n - 1 : r[k].at \in Counters
        OBVIOUS
    <2>2. h = "count_msg" /\ Above(st) \in Writing
        BY <2>1 DEF Returns_
    <2>3. PICK k \in 1 .. n : st[k].at \in Counters
        BY <2>2 DEF Shape, Above, Writing
    <2>4. k # n
        BY <2>2, <2>3 DEF Above, Writing, Counters
    <2>5. k \in 1 .. n - 1
        BY <1>3, <2>4
    <2> QED
        BY <1>2, <2>3, <2>5
<1>9. r[1].at \notin {"program", "away"} /\ g # "ignore"
    BY <1>4 DEF Returns_
<1>10. \A k \in 1 .. Len(r) : r[k].at \in Counters => g = "count_msg" /\ Counts(r, k)
    BY <1>2, <1>7 DEF Counts
<1>11. \A k \in 2 .. Len(r) : Placed(r, k)
    BY <1>2, <1>6
<1>12. g = "count_msg" => \E k \in 1 .. Len(r) : r[k].at \in Counters
    BY <1>2, <1>8
<1>13. g = "ignore" <=> r[1].at \in {"program", "away"}
    BY <1>9
<1> QED
    BY <1>5, <1>10, <1>11, <1>12, <1>13 DEF Shape, r

\* The display sends an answer: it waits for it at f, under the writing e.
Answers(st, f, e) ==
    /\ f \in Activation /\ e \in Activation /\ e.at = "append"
    /\ \/ Above(st) = "key" /\ f.at = "loop"
       \/ Above(st) = "choose" /\ f.at = "close"

LEMMA DoubledShape ==
    ASSUME NEW st, NEW h, Shape(st, h), NEW f, NEW e, Answers(st, f, e)
    PROVE  Shape(Doubled(st, f, e), h)
<1> DEFINE n == Len(st)
           r == Doubled(st, f, e)
<1>1. st \in Seq(Activation) /\ st # <<>>
    BY DEF Shape, Bottom
<1>2. /\ r \in Seq(Activation) /\ Len(r) = n + 1 /\ r[n] = f /\ r[n + 1] = e
      /\ \A k \in 1 .. n - 1 : r[k] = st[k]
    <2>1. f \in Activation /\ e \in Activation
        BY DEF Answers
    <2> QED
        BY <1>1, <2>1, DoubledIs
<1> HIDE DEF r
<1>3. n \in Nat /\ n > 1 /\ h = "count_msg"
    <2>1. /\ n \in Nat /\ n >= 1 /\ n \in 1 .. n
          /\ n # 1
        BY Dispositions DEF Answers, Bases
    <2>2. st[n].at \in Counters
        BY DEF Answers, Above, Counters
    <2>3. h = "count_msg"
        BY <2>1, <2>2 DEF Shape
    <2> QED
        BY <2>1, <2>3, OneOrMore, Zenon
<1>4. r[1] = st[1] /\ r # <<>> /\ st[1].at \in {"main", "back", "locked"}
    <2>1. 1 \in 1 .. n - 1
        BY <1>3
    <2> QED
        BY <1>2, <1>3, <2>1 DEF Shape, Bottom
<1>5. Bottom(r)
    BY <1>2, <1>4 DEF Bottom, Bases
<1>6. \A k \in 2 .. n + 1 : Placed(r, k)
    <2>1. SUFFICES ASSUME NEW k \in 2 .. n + 1 PROVE Placed(r, k)
        OBVIOUS
    <2>2. CASE k \in 2 .. n - 1
        <3>1. k # n /\ k \in 2 .. n /\ k \in 1 .. n - 1
            BY <1>3, <2>2
        <3>2. Placed(st, k) /\ r[k] = st[k]
            BY <1>2, <3>1 DEF Shape
        <3> QED
            BY <1>4, <3>1, <3>2 DEF Placed, OverMenu, OnTop
    <2>3. CASE k = n
        <3>1. Placed(st, k) /\ st[k].at = Above(st)
            BY <1>3, <2>3 DEF Shape, Above
        <3>2. r[k].at \in {"loop", "close"} /\ (r[k].at = "close" => k <= 3)
            BY <1>2, <2>3, <3>1 DEF Placed, Answers, Browser
        <3> QED
            BY <3>2 DEF Placed, Bases, Writing, Browser
    <2>4. CASE k = n + 1
        <3>1. k - 1 = n
            BY <1>3, <2>4
        <3>2. OnTop(r, k)
            BY <1>2, <2>4, <3>1 DEF OnTop, Answers, Answering
        <3>3. r[k].at = "append"
            BY <1>2, <2>4 DEF Answers
        <3> QED
            BY <3>2, <3>3 DEF Placed, Bases, Writing, Browser
    <2> QED
        BY <1>3, <2>2, <2>3, <2>4
<1>7. \A k \in 1 .. n + 1 : r[k].at \in Counters => k = n
    <2>1. SUFFICES ASSUME NEW k \in 1 .. n + 1, r[k].at \in Counters PROVE k = n
        OBVIOUS
    <2>2. k # n + 1
        BY <1>2, <2>1 DEF Answers, Counters
    <2>3. ASSUME k \in 1 .. n - 1 PROVE FALSE
        <3>1. st[k].at \in Counters
            BY <1>2, <2>1, <2>3
        <3>2. Above(st) \notin Writing
            BY DEF Answers, Writing
        <3> QED
            BY <2>3, <3>1, <3>2, BelowTop
    <2> QED
        BY <1>3, <2>2, <2>3
<1>8. r[n].at \in Answering /\ r[n].at \in Counters /\ r[n + 1].at \in Writing /\ n \in 1 .. n + 1
    BY <1>2, <1>3 DEF Answers, Answering, Counters, Writing
<1>9. r[1].at \notin {"program", "away"}
    BY <1>4
<1>10. \A k \in 1 .. Len(r) : r[k].at \in Counters => h = "count_msg" /\ Counts(r, k)
    <2>1. SUFFICES ASSUME NEW k \in 1 .. Len(r), r[k].at \in Counters
                   PROVE  Counts(r, k)
        BY <1>3
    <2>2. k = n
        BY <1>2, <1>7, <2>1
    <2>3. n = Len(r) - 1
        BY <1>2, <1>3
    <2> QED
        BY <1>8, <2>2, <2>3 DEF Counts
<1>11. \A k \in 2 .. Len(r) : Placed(r, k)
    BY <1>2, <1>6
<1>12. \E k \in 1 .. Len(r) : r[k].at \in Counters
    BY <1>2, <1>8
<1>13. h = "ignore" <=> r[1].at \in {"program", "away"}
    BY <1>3, <1>9
<1> QED
    BY <1>5, <1>10, <1>11, <1>12, <1>13 DEF Shape, r
-----------------------------------------------------------------------------
LEMMA FrameIs ==
    ASSUME NEW f \in Activation, NEW p \in Places
    PROVE  LET g == [f EXCEPT !.at = p]
           IN  /\ g \in Activation
               /\ g.at = p /\ g.i = f.i /\ g.MsgNum = f.MsgNum
               /\ g.premsg = f.premsg /\ g.uin = f.uin /\ g.msg = f.msg
BY DEF Activation

LEMMA FreshIs ==
    ASSUME NEW p \in Places
    PROVE  /\ Fresh(p) \in Activation
           /\ Fresh(p).at = p /\ Fresh(p).i = 0 /\ Fresh(p).MsgNum = 0
           /\ Fresh(p).premsg = FALSE /\ Fresh(p).uin = "none" /\ Fresh(p).msg = 0
<1>1. 0 \in 0 .. MaxMessages
    BY BoundAssumption
<1> QED
    BY <1>1 DEF Activation, Fresh

\* What every step of s leaves of the others, and of the messages there were.
Further == Len(to) <= Len(to') /\ \A m \in 1 .. Len(to) : to'[m] = to[m]
Aside(s) == \A t \in Session \ {s} :
    handler'[t] = handler[t] /\ msg_num'[t] = msg_num[t]

LEMMA LocalKeeps ==
    ASSUME TypedInv, Further, to' \in Seq(Session), NEW f, Local(f, to)
    PROVE  Local(f, to')
<1>1. Len(to) \in Nat /\ Len(to') \in Nat
    BY DEF TypedInv, Mail
<1>2. f.msg \in 0 .. Len(to')
    BY <1>1 DEF Local, Further
<1>3. f.at = "kill" => f.msg \in 1 .. Len(to') /\ to'[f.msg] = f.uin
    BY <1>1 DEF Local, Further
<1> QED
    BY <1>2, <1>3 DEF Local

LEMMA TopIs ==
    ASSUME TypedInv, NEW s \in Session
    PROVE  /\ stack[s] \in Seq(Activation) /\ stack[s] # <<>>
           /\ Len(stack[s]) \in Nat /\ Len(stack[s]) >= 1
           /\ Len(stack[s]) \in 1 .. Len(stack[s])
           /\ Top(s) \in Activation /\ Top(s) = stack[s][Len(stack[s])]
           /\ Above(stack[s]) = Top(s).at
           /\ Local(Top(s), to)
<1>1. stack[s] \in Seq(Activation) /\ stack[s] # <<>>
    BY DEF TypedInv, Stacked, Formed, Shape, Bottom
<1>2. /\ Len(stack[s]) \in Nat /\ Len(stack[s]) >= 1
      /\ Len(stack[s]) \in 1 .. Len(stack[s])
    BY <1>1
<1>3. stack[s][Len(stack[s])] \in Activation
    BY <1>1, <1>2
<1> QED
    BY <1>1, <1>2, <1>3 DEF Top, Above, TypedInv, Stacked, Formed

\* The others' stacks stay formed, whatever s does to its own.
LEMMA OthersFormed ==
    ASSUME TypedInv, NEW s \in Session, Further, to' \in Seq(Session), Aside(s),
           NEW t \in Session \ {s}, stack'[t] = stack[t]
    PROVE  Formed(t)'
<1>1. Formed(t)
    BY DEF TypedInv, Stacked
<1>2. Shape(stack'[t], handler'[t])
    BY <1>1 DEF Formed, Aside
<1>3. \A k \in 1 .. Len(stack'[t]) : Local(stack'[t][k], to')
    BY <1>1, LocalKeeps DEF Formed
<1>4. At(t, "read")' => msg_num'[t] > 0
    BY <1>1 DEF Formed, Aside, At, Top
<1> QED
    BY <1>2, <1>3, <1>4 DEF Formed

LEMMA MoveKeeps ==
    ASSUME TypedInv, NEW s \in Session, Further, to' \in Seq(Session), Aside(s),
           NEW f, Become(s, f), Moves(stack[s], handler[s], f, handler'[s]),
           Local(f, to'), f.at = "read" => msg_num'[s] > 0
    PROVE  Stacked' /\ stack' \in [Session -> Seq(Activation)]
<1> DEFINE r == Replaced(stack[s], f)
<1>1. f \in Activation
    BY DEF Moves
<1>2. /\ r \in Seq(Activation) /\ Len(r) = Len(stack[s]) /\ r[Len(stack[s])] = f
      /\ \A k \in 1 .. Len(stack[s]) - 1 : r[k] = stack[s][k]
    <2>1. stack[s] \in Seq(Activation) /\ stack[s] # <<>>
        BY TopIs
    <2>2. ASSUME NEW st \in Seq(Activation), st # <<>>
          PROVE  /\ Replaced(st, f) \in Seq(Activation)
                 /\ Len(Replaced(st, f)) = Len(st) /\ Replaced(st, f)[Len(st)] = f
                 /\ \A k \in 1 .. Len(st) - 1 : Replaced(st, f)[k] = st[k]
        BY <1>1, <2>2, ReplacedIs
    <2> QED
        BY <2>1, <2>2
<1>3. Shape(r, handler'[s])
    BY ReplacedShape DEF TypedInv, Stacked, Formed
<1>4. stack' = [stack EXCEPT ![s] = r]
    BY DEF Become, Below, Replaced
<1> HIDE DEF r
<1>5. stack \in [Session -> Seq(Activation)]
    BY DEF TypedInv, Fields
<1>6. stack' \in [Session -> Seq(Activation)] /\ stack'[s] = r
      /\ \A t \in Session \ {s} : stack'[t] = stack[t]
    BY <1>2, <1>4, <1>5
<1>7. \A k \in 1 .. Len(r) : Local(r[k], to')
    <2>1. SUFFICES ASSUME NEW k \in 1 .. Len(r) PROVE Local(r[k], to')
        OBVIOUS
    <2>2. CASE k = Len(stack[s])
        BY <1>2, <2>2
    <2>3. CASE k # Len(stack[s])
        <3>1. k \in 1 .. Len(stack[s]) - 1 /\ k \in 1 .. Len(stack[s])
            BY <1>2, <2>3, TopIs
        <3>2. Local(stack[s][k], to)
            BY <3>1 DEF TypedInv, Stacked, Formed
        <3> QED
            BY <1>2, <3>1, <3>2, LocalKeeps
    <2> QED
        BY <2>2, <2>3
<1>8. Formed(s)'
    <2>1. Top(s)' = f
        BY <1>2, <1>6 DEF Top
    <2> QED
        BY <1>3, <1>6, <1>7, <2>1 DEF Formed, At
<1>9. \A t \in Session \ {s} : Formed(t)'
    BY <1>6, OthersFormed
<1> QED
    BY <1>6, <1>8, <1>9 DEF Stacked

LEMMA CallKeeps ==
    ASSUME TypedInv, NEW s \in Session, to' = to, Aside(s),
           NEW f, Call(s, f), Pushes(stack[s], handler[s], f), handler'[s] = handler[s],
           Local(f, to)
    PROVE  Stacked' /\ stack' \in [Session -> Seq(Activation)]
<1> DEFINE r == Append(stack[s], f)
<1>1. f \in Activation /\ f.at # "read"
    BY DEF Pushes
<1>2. /\ r \in Seq(Activation) /\ Len(r) = Len(stack[s]) + 1
      /\ r[Len(stack[s]) + 1] = f
      /\ \A k \in 1 .. Len(stack[s]) : r[k] = stack[s][k]
    <2>1. stack[s] \in Seq(Activation) /\ stack[s] # <<>>
        BY TopIs
    <2> QED
        BY <1>1, <2>1, PushedIs
<1>3. Shape(r, handler'[s])
    BY PushedShape DEF TypedInv, Stacked, Formed
<1>4. stack' = [stack EXCEPT ![s] = r]
    BY DEF Call
<1> HIDE DEF r
<1>5. stack \in [Session -> Seq(Activation)] /\ Further /\ to' \in Seq(Session)
    BY DEF TypedInv, Fields, Further, Mail
<1>6. stack' \in [Session -> Seq(Activation)] /\ stack'[s] = r
      /\ \A t \in Session \ {s} : stack'[t] = stack[t]
    BY <1>2, <1>4, <1>5
<1>7. \A k \in 1 .. Len(r) : Local(r[k], to')
    <2>1. SUFFICES ASSUME NEW k \in 1 .. Len(r) PROVE Local(r[k], to)
        OBVIOUS
    <2>2. CASE k = Len(stack[s]) + 1
        BY <1>2, <2>2
    <2>3. CASE k # Len(stack[s]) + 1
        <3>1. k \in 1 .. Len(stack[s])
            BY <1>2, <2>3, TopIs
        <3> QED
            BY <1>2, <3>1 DEF TypedInv, Stacked, Formed
    <2> QED
        BY <2>2, <2>3
<1>8. Formed(s)'
    <2>1. Top(s)' = f
        BY <1>2, <1>6 DEF Top
    <2> QED
        BY <1>1, <1>3, <1>6, <1>7, <2>1 DEF Formed, At
<1>9. \A t \in Session \ {s} : Formed(t)'
    BY <1>5, <1>6, OthersFormed
<1> QED
    BY <1>6, <1>8, <1>9 DEF Stacked

\* What a return uncovers reads nothing.
LEMMA Uncovers ==
    ASSUME NEW st, NEW h, Shape(st, h), Len(st) > 1
    PROVE  st[Len(st) - 1].at # "read"
<1>1. Len(st) \in Nat /\ Len(st) - 1 \in 1 .. Len(st) /\ Len(st) - 1 # Len(st)
    BY Dispositions
<1>2. SUFFICES ASSUME st[Len(st) - 1].at = "read" PROVE FALSE
    OBVIOUS
<1>3. Counts(st, Len(st) - 1)
    BY <1>1, <1>2 DEF Shape, Counters
<1> QED
    BY <1>1, <1>2, <1>3 DEF Counts, Answering

LEMMA ReturnKeeps ==
    ASSUME TypedInv, NEW s \in Session, to' = to, Aside(s),
           Return(s), Returns_(stack[s], handler[s], handler'[s])
    PROVE  Stacked' /\ stack' \in [Session -> Seq(Activation)]
<1> DEFINE r == Shortened(stack[s])
<1>1. Len(stack[s]) > 1
    BY DEF Returns_
<1>2. /\ r \in Seq(Activation) /\ Len(r) = Len(stack[s]) - 1
      /\ \A k \in 1 .. Len(stack[s]) - 1 : r[k] = stack[s][k]
    BY TopIs, ShortenedIs, Zenon
<1>3. Shape(r, handler'[s])
    BY ShortenedShape DEF TypedInv, Stacked, Formed
<1>4. stack' = [stack EXCEPT ![s] = r]
    BY DEF Return, Below, Shortened
<1> HIDE DEF r
<1>5. stack \in [Session -> Seq(Activation)] /\ Further /\ to' \in Seq(Session)
    BY DEF TypedInv, Fields, Further, Mail
<1>6. stack' \in [Session -> Seq(Activation)] /\ stack'[s] = r
      /\ \A t \in Session \ {s} : stack'[t] = stack[t]
    BY <1>2, <1>4, <1>5
<1>7. \A k \in 1 .. Len(r) : Local(r[k], to')
    <2>1. SUFFICES ASSUME NEW k \in 1 .. Len(r) PROVE Local(r[k], to)
        OBVIOUS
    <2>2. k \in 1 .. Len(stack[s]) /\ k \in 1 .. Len(stack[s]) - 1
        BY <1>2, TopIs
    <2> QED
        BY <1>2, <2>2 DEF TypedInv, Stacked, Formed
<1>8. Formed(s)'
    <2>1. Top(s)' = stack[s][Len(stack[s]) - 1]
        <3>1. Len(r) \in 1 .. Len(stack[s]) - 1
            BY <1>1, <1>2, TopIs
        <3> QED
            BY <1>2, <1>6, <3>1 DEF Top
    <2>2. Top(s)'.at # "read"
        BY <1>1, <2>1, Uncovers DEF TypedInv, Stacked, Formed
    <2> QED
        BY <1>3, <1>6, <1>7, <2>2 DEF Formed, At
<1>9. \A t \in Session \ {s} : Formed(t)'
    BY <1>5, <1>6, OthersFormed
<1> QED
    BY <1>6, <1>8, <1>9 DEF Stacked

LEMMA AnswerKeeps ==
    ASSUME TypedInv, NEW s \in Session, to' = to, Aside(s), NEW f, NEW e,
           stack' = [stack EXCEPT ![s] = Below(s) \o <<f, e>>],
           Answers(stack[s], f, e), handler'[s] = handler[s],
           Local(f, to), Local(e, to)
    PROVE  Stacked' /\ stack' \in [Session -> Seq(Activation)]
<1> DEFINE r == Doubled(stack[s], f, e)
<1>1. f \in Activation /\ e \in Activation /\ e.at # "read"
    BY DEF Answers
<1>2. /\ r \in Seq(Activation) /\ Len(r) = Len(stack[s]) + 1
      /\ r[Len(stack[s])] = f /\ r[Len(stack[s]) + 1] = e
      /\ \A k \in 1 .. Len(stack[s]) - 1 : r[k] = stack[s][k]
    <2>1. stack[s] \in Seq(Activation) /\ stack[s] # <<>>
        BY TopIs
    <2>2. ASSUME NEW st \in Seq(Activation), st # <<>>
          PROVE  /\ Doubled(st, f, e) \in Seq(Activation)
                 /\ Len(Doubled(st, f, e)) = Len(st) + 1
                 /\ Doubled(st, f, e)[Len(st)] = f /\ Doubled(st, f, e)[Len(st) + 1] = e
                 /\ \A k \in 1 .. Len(st) - 1 : Doubled(st, f, e)[k] = st[k]
        BY <1>1, <2>2, DoubledIs
    <2> QED
        BY <2>1, <2>2
<1>3. Shape(r, handler'[s])
    BY DoubledShape DEF TypedInv, Stacked, Formed
<1>4. stack' = [stack EXCEPT ![s] = r]
    BY DEF Below, Doubled
<1> HIDE DEF r
<1>5. stack \in [Session -> Seq(Activation)] /\ Further /\ to' \in Seq(Session)
    BY DEF TypedInv, Fields, Further, Mail
<1>6. stack' \in [Session -> Seq(Activation)] /\ stack'[s] = r
      /\ \A t \in Session \ {s} : stack'[t] = stack[t]
    BY <1>2, <1>4, <1>5
<1>7. \A k \in 1 .. Len(r) : Local(r[k], to')
    <2>1. SUFFICES ASSUME NEW k \in 1 .. Len(r) PROVE Local(r[k], to)
        OBVIOUS
    <2>2. CASE k \in {Len(stack[s]), Len(stack[s]) + 1}
        BY <1>2, <2>2
    <2>3. CASE k \notin {Len(stack[s]), Len(stack[s]) + 1}
        <3>1. k \in 1 .. Len(stack[s]) /\ k \in 1 .. Len(stack[s]) - 1
            BY <1>2, <2>3, TopIs
        <3> QED
            BY <1>2, <3>1 DEF TypedInv, Stacked, Formed
    <2> QED
        BY <2>2, <2>3
<1>8. Formed(s)'
    <2>1. Top(s)' = e
        BY <1>2, <1>6 DEF Top
    <2> QED
        BY <1>1, <1>3, <1>6, <1>7, <2>1 DEF Formed, At
<1>9. \A t \in Session \ {s} : Formed(t)'
    BY <1>5, <1>6, OthersFormed
<1> QED
    BY <1>6, <1>8, <1>9 DEF Stacked
LEMMA Disposed ==
    ASSUME TypedInv, NEW s \in Session
    PROVE  /\ Top(s).at \in Counters => handler[s] = "count_msg"
           /\ handler[s] = "ignore" <=> Top(s).at \in {"program", "away"}
           /\ handler[s] = "count_msg" => Top(s).at \in Counters \cup Writing \cup {"enter"}
           /\ Len(stack[s]) = 1 <=> Top(s).at \in Bases
           /\ handler[s] \in {"r_msg_sig", "count_msg", "ignore"}
<1>1. Shape(stack[s], handler[s]) /\ Above(stack[s]) = Top(s).at
    BY TopIs DEF TypedInv, Stacked, Formed
<1>2. Top(s).at \in Counters => handler[s] = "count_msg"
    BY <1>1, Dispositions DEF Shape, Above
<1> QED
    BY <1>1, <1>2, Dispositions DEF TypedInv, Fields

LEMMA GotoKeeps ==
    ASSUME TypedInv, NEW s \in Session, to' = to, Aside(s), NEW p \in Places,
           Goto(s, p), Turns(Top(s).at, handler[s], p, handler'[s]),
           p \notin {"read", "kill", "compose"},
           p = "append" => Top(s).at = "compose",
           p \in {"browse", "look", "choose"} => Top(s).at \in {"browse", "look", "choose"}
    PROVE  Stacked' /\ stack' \in [Session -> Seq(Activation)]
<1> DEFINE f == [Top(s) EXCEPT !.at = p]
<1>1. Top(s) \in Activation /\ Above(stack[s]) = Top(s).at /\ Local(Top(s), to)
    BY TopIs
<1>2. f \in Activation /\ f.at = p /\ f.i = Top(s).i /\ f.MsgNum = Top(s).MsgNum
      /\ f.uin = Top(s).uin /\ f.msg = Top(s).msg
    BY <1>1, FrameIs
<1>3. Become(s, f)
    BY DEF Goto
<1> HIDE DEF f
<1>4. Moves(stack[s], handler[s], f, handler'[s])
    BY <1>1, <1>2 DEF Moves
<1>5. Local(f, to')
    BY <1>1, <1>2 DEF Local
<1>6. Further /\ to' \in Seq(Session)
    BY DEF TypedInv, Mail, Further
<1> QED
    BY <1>2, <1>3, <1>4, <1>5, <1>6, MoveKeeps

-----------------------------------------------------------------------------
(* The steps, one lemma each. *)
LEMMA SignalTyped ==
    ASSUME TypedInv, NEW s \in Session, r_msg_sig(s) \/ count_msg(s)
    PROVE  TypedInv'
<1>1. CASE r_msg_sig(s)
    <2>1. Mail'
        BY <1>1 DEF r_msg_sig, mail, TypedInv, Mail
    <2>2. Fresh("enter") \in Activation /\ Fresh("enter").at = "enter"
          /\ Local(Fresh("enter"), to)
        BY FreshIs DEF Places, Local, TypedInv, Mail
    <2>3. Pushes(stack[s], handler[s], Fresh("enter"))
        BY <1>1, <2>2, TopIs DEF Pushes, r_msg_sig, Gone, At
    <2>4. Stacked' /\ stack' \in [Session -> Seq(Activation)]
        BY <1>1, <2>2, <2>3, CallKeeps DEF r_msg_sig, mail, globals, Aside
    <2>5. Fields'
        BY <1>1, <2>4 DEF r_msg_sig, mail, globals, ghosts, TypedInv, Fields
    <2> QED
        BY <2>1, <2>4, <2>5 DEF TypedInv
<1>2. CASE count_msg(s)
    <2>1. Mail'
        BY <1>2 DEF count_msg, mail, TypedInv, Mail
    <2>2. \A t \in Session : msg_num'[t] \in Nat /\ (msg_num[t] > 0 => msg_num'[t] > 0)
        BY <1>2 DEF count_msg, TypedInv, Fields
    <2>3. Stacked'
        BY <1>2, <2>2 DEF count_msg, mail, TypedInv, Stacked, Formed, At, Top
    <2>4. Fields'
        BY <1>2 DEF count_msg, mail, ghosts, TypedInv, Fields
    <2> QED
        BY <2>1, <2>3, <2>4 DEF TypedInv
<1> QED
    BY <1>1, <1>2
LEMMA KeyTyped ==
    ASSUME TypedInv, NEW s \in Session, Key(s)
    PROVE  TypedInv'
<1>1. Mail' /\ to' = to /\ Aside(s)
    BY DEF Key, mail, signals, globals, Aside, Handle, TypedInv, Mail, Fields
<1>2. Turns(Top(s).at, handler[s], "loop", handler'[s])
    BY Disposed DEF Key, signals, Handle, At, TypedInv, Fields,
       Turns, Bases, Writing, Browser, Counters
<1>3. Stacked' /\ stack' \in [Session -> Seq(Activation)]
    BY <1>1, <1>2, GotoKeeps DEF Key, At, Places
<1>4. Fields'
    BY <1>3 DEF Key, mail, signals, globals, ghosts, Handle, TypedInv, Fields
<1> QED
    BY <1>1, <1>3, <1>4 DEF TypedInv

LEMMA InstallTyped ==
    ASSUME TypedInv, NEW s \in Session, Install(s)
    PROVE  TypedInv'
<1>1. Mail' /\ to' = to /\ Aside(s)
    BY DEF Install, mail, signals, globals, Aside, Handle, TypedInv, Mail, Fields
<1>2. Turns(Top(s).at, handler[s], "restore", handler'[s])
    BY Disposed DEF Install, signals, Handle, At, TypedInv, Fields,
       Turns, Bases, Writing, Browser, Counters
<1>3. Stacked' /\ stack' \in [Session -> Seq(Activation)]
    BY <1>1, <1>2, GotoKeeps DEF Install, At, Places
<1>4. Fields'
    BY <1>3 DEF Install, mail, signals, globals, ghosts, Handle, TypedInv, Fields
<1> QED
    BY <1>1, <1>3, <1>4 DEF TypedInv

LEMMA BrowsingTyped ==
    ASSUME TypedInv, NEW s \in Session, Browsing(s)
    PROVE  TypedInv'
<1>1. Mail' /\ to' = to /\ Aside(s)
    BY DEF Browsing, mail, signals, globals, Aside, Handle, TypedInv, Mail, Fields
<1>2. Turns(Top(s).at, handler[s], "look", handler'[s])
    BY Disposed DEF Browsing, signals, Handle, At, TypedInv, Fields,
       Turns, Bases, Writing, Browser, Counters
<1>3. Stacked' /\ stack' \in [Session -> Seq(Activation)]
    BY <1>1, <1>2, GotoKeeps DEF Browsing, At, Places
<1>4. Fields'
    BY <1>3 DEF Browsing, mail, signals, globals, ghosts, Handle, TypedInv, Fields
<1> QED
    BY <1>1, <1>3, <1>4 DEF TypedInv

LEMMA ComposeTyped ==
    ASSUME TypedInv, NEW s \in Session, Compose(s)
    PROVE  TypedInv'
<1>1. Mail' /\ to' = to /\ Aside(s)
    BY DEF Compose, mail, signals, globals, Aside, Handle, TypedInv, Mail, Fields
<1>2. Turns(Top(s).at, handler[s], "append", handler'[s])
    BY Disposed DEF Compose, signals, Handle, At, TypedInv, Fields,
       Turns, Bases, Writing, Browser, Counters
<1>3. Stacked' /\ stack' \in [Session -> Seq(Activation)]
    BY <1>1, <1>2, GotoKeeps DEF Compose, At, Places
<1>4. Fields'
    BY <1>3 DEF Compose, mail, signals, globals, ghosts, Handle, TypedInv, Fields
<1> QED
    BY <1>1, <1>3, <1>4 DEF TypedInv

LEMMA ExecuteTyped ==
    ASSUME TypedInv, NEW s \in Session, Execute(s)
    PROVE  TypedInv'
<1>1. Mail' /\ to' = to /\ Aside(s)
    BY DEF Execute, mail, signals, globals, Aside, Handle, TypedInv, Mail, Fields
<1>2. Turns(Top(s).at, handler[s], "program", handler'[s])
    BY Disposed DEF Execute, signals, Handle, At, TypedInv, Fields,
       Turns, Bases, Writing, Browser, Counters
<1>3. Stacked' /\ stack' \in [Session -> Seq(Activation)]
    BY <1>1, <1>2, GotoKeeps DEF Execute, At, Places
<1>4. Fields'
    BY <1>3 DEF Execute, mail, signals, globals, ghosts, Handle, TypedInv, Fields
<1> QED
    BY <1>1, <1>3, <1>4 DEF TypedInv

LEMMA StartedTyped ==
    ASSUME TypedInv, NEW s \in Session, Started(s)
    PROVE  TypedInv'
<1>1. Mail' /\ to' = to /\ Aside(s)
    BY DEF Started, mail, signals, globals, Aside, Handle, TypedInv, Mail, Fields
<1>2. Turns(Top(s).at, handler[s], "away", handler'[s])
    BY Disposed DEF Started, signals, Handle, At, TypedInv, Fields,
       Turns, Bases, Writing, Browser, Counters
<1>3. Stacked' /\ stack' \in [Session -> Seq(Activation)]
    BY <1>1, <1>2, GotoKeeps DEF Started, At, Places
<1>4. Fields'
    BY <1>3 DEF Started, mail, signals, globals, ghosts, Handle, TypedInv, Fields
<1> QED
    BY <1>1, <1>3, <1>4 DEF TypedInv

LEMMA ReturnedTyped ==
    ASSUME TypedInv, NEW s \in Session, Returned(s)
    PROVE  TypedInv'
<1>1. Mail' /\ to' = to /\ Aside(s)
    BY DEF Returned, mail, signals, globals, Aside, Handle, TypedInv, Mail, Fields
<1>2. Turns(Top(s).at, handler[s], "back", handler'[s])
    BY Disposed DEF Returned, signals, Handle, At, TypedInv, Fields,
       Turns, Bases, Writing, Browser, Counters
<1>3. Stacked' /\ stack' \in [Session -> Seq(Activation)]
    BY <1>1, <1>2, GotoKeeps DEF Returned, At, Places
<1>4. Fields'
    BY <1>3 DEF Returned, mail, signals, globals, ghosts, Handle, TypedInv, Fields
<1> QED
    BY <1>1, <1>3, <1>4 DEF TypedInv

LEMMA BackTyped ==
    ASSUME TypedInv, NEW s \in Session, Back(s)
    PROVE  TypedInv'
<1>1. Mail' /\ to' = to /\ Aside(s)
    BY DEF Back, mail, signals, globals, Aside, Handle, TypedInv, Mail, Fields
<1>2. Turns(Top(s).at, handler[s], "main", handler'[s])
    BY Disposed DEF Back, signals, Handle, At, TypedInv, Fields,
       Turns, Bases, Writing, Browser, Counters
<1>3. Stacked' /\ stack' \in [Session -> Seq(Activation)]
    BY <1>1, <1>2, GotoKeeps DEF Back, At, Places
<1>4. Fields'
    BY <1>3 DEF Back, mail, signals, globals, ghosts, Handle, TypedInv, Fields
<1> QED
    BY <1>1, <1>3, <1>4 DEF TypedInv

LEMMA LockTyped ==
    ASSUME TypedInv, NEW s \in Session, Lock(s)
    PROVE  TypedInv'
<1>1. Mail' /\ to' = to /\ Aside(s)
    BY DEF Lock, mail, signals, globals, Aside, Handle, TypedInv, Mail, Fields
<1>2. Turns(Top(s).at, handler[s], "locked", handler'[s])
    BY Disposed DEF Lock, signals, Handle, At, TypedInv, Fields,
       Turns, Bases, Writing, Browser, Counters
<1>3. Stacked' /\ stack' \in [Session -> Seq(Activation)]
    BY <1>1, <1>2, GotoKeeps DEF Lock, At, Places
<1>4. Fields'
    BY <1>3 DEF Lock, mail, signals, globals, ghosts, Handle, TypedInv, Fields
<1> QED
    BY <1>1, <1>3, <1>4 DEF TypedInv

LEMMA LeaveTyped ==
    ASSUME TypedInv, NEW s \in Session, Leave(s)
    PROVE  TypedInv'
<1>1. Mail' /\ to' = to /\ Aside(s)
    BY DEF Leave, mail, signals, globals, Aside, Handle, TypedInv, Mail, Fields
<1>2. Turns(Top(s).at, handler[s], "gone", handler'[s])
    BY Disposed DEF Leave, signals, Handle, At, TypedInv, Fields,
       Turns, Bases, Writing, Browser, Counters
<1>3. Stacked' /\ stack' \in [Session -> Seq(Activation)]
    BY <1>1, <1>2, GotoKeeps DEF Leave, At, Places
<1>4. Fields'
    BY <1>3 DEF Leave, mail, signals, globals, ghosts, Handle, TypedInv, Fields
<1> QED
    BY <1>1, <1>3, <1>4 DEF TypedInv
LEMMA MissingTyped ==
    ASSUME TypedInv, NEW s \in Session, Missing(s)
    PROVE  TypedInv'
<1>1. Mail' /\ to' = to /\ Aside(s)
    BY DEF Missing, mail, signals, globals, Aside, Handle, TypedInv, Mail, Fields
<1>2. Returns_(stack[s], handler[s], handler'[s])
    <2>1. Len(stack[s]) > 1
        <3>1. Len(stack[s]) # 1
            BY Disposed DEF Missing, At, Bases
        <3> QED
            BY <3>1, TopIs, OneOrMore, Zenon
    <2>2. Above(stack[s]) = Top(s).at
        BY TopIs
    <2> QED
        BY <2>1, <2>2, Disposed DEF Missing, signals, Handle, At, TypedInv, Fields,
           Returns_, Bases, Writing, Counters
<1>3. Stacked' /\ stack' \in [Session -> Seq(Activation)]
    BY <1>1, <1>2, ReturnKeeps DEF Missing
<1>4. Fields'
    BY <1>3 DEF Missing, mail, signals, globals, ghosts, Handle, TypedInv, Fields
<1> QED
    BY <1>1, <1>3, <1>4 DEF TypedInv

LEMMA RestoreTyped ==
    ASSUME TypedInv, NEW s \in Session, Restore(s)
    PROVE  TypedInv'
<1>1. Mail' /\ to' = to /\ Aside(s)
    BY DEF Restore, mail, signals, globals, Aside, Handle, TypedInv, Mail, Fields
<1>2. Returns_(stack[s], handler[s], handler'[s])
    <2>1. Len(stack[s]) > 1
        <3>1. Len(stack[s]) # 1
            BY Disposed DEF Restore, At, Bases
        <3> QED
            BY <3>1, TopIs, OneOrMore, Zenon
    <2>2. Above(stack[s]) = Top(s).at
        BY TopIs
    <2> QED
        BY <2>1, <2>2, Disposed DEF Restore, signals, Handle, At, TypedInv, Fields,
           Returns_, Bases, Writing, Counters
<1>3. Stacked' /\ stack' \in [Session -> Seq(Activation)]
    BY <1>1, <1>2, ReturnKeeps DEF Restore
<1>4. Fields'
    <2>1. Top(s).premsg \in BOOLEAN
        BY TopIs DEF Activation
    <2> QED
        BY <1>3, <2>1 DEF Restore, mail, signals, globals, ghosts, TypedInv, Fields
<1> QED
    BY <1>1, <1>3, <1>4 DEF TypedInv

LEMMA ResetTyped ==
    ASSUME TypedInv, NEW s \in Session, Reset(s)
    PROVE  TypedInv'
<1>1. Mail' /\ to' = to /\ Aside(s)
    BY DEF Reset, mail, signals, globals, Aside, Handle, TypedInv, Mail, Fields
<1>2. Returns_(stack[s], handler[s], handler'[s])
    <2>1. Len(stack[s]) > 1
        <3>1. Len(stack[s]) # 1
            BY Disposed DEF Reset, At, Bases
        <3> QED
            BY <3>1, TopIs, OneOrMore, Zenon
    <2>2. Above(stack[s]) = Top(s).at
        BY TopIs
    <2> QED
        BY <2>1, <2>2, Disposed DEF Reset, signals, Handle, At, TypedInv, Fields,
           Returns_, Bases, Writing, Counters
<1>3. Stacked' /\ stack' \in [Session -> Seq(Activation)]
    BY <1>1, <1>2, ReturnKeeps DEF Reset
<1>4. Fields'
    BY <1>3 DEF Reset, mail, signals, globals, ghosts, Handle, TypedInv, Fields
<1> QED
    BY <1>1, <1>3, <1>4 DEF TypedInv

LEMMA CancelTyped ==
    ASSUME TypedInv, NEW s \in Session, Cancel(s)
    PROVE  TypedInv'
<1>1. Mail' /\ to' = to /\ Aside(s)
    BY DEF Cancel, mail, signals, globals, Aside, Handle, TypedInv, Mail, Fields
<1>2. Returns_(stack[s], handler[s], handler'[s])
    <2>1. Len(stack[s]) > 1
        <3>1. Len(stack[s]) # 1
            BY Disposed DEF Cancel, At, Bases
        <3> QED
            BY <3>1, TopIs, OneOrMore, Zenon
    <2>2. Above(stack[s]) = Top(s).at
        BY TopIs
    <2> QED
        BY <2>1, <2>2, Disposed DEF Cancel, signals, Handle, At, TypedInv, Fields,
           Returns_, Bases, Writing, Counters
<1>3. Stacked' /\ stack' \in [Session -> Seq(Activation)]
    BY <1>1, <1>2, ReturnKeeps DEF Cancel
<1>4. Fields'
    BY <1>3 DEF Cancel, mail, signals, globals, ghosts, Handle, TypedInv, Fields
<1> QED
    BY <1>1, <1>3, <1>4 DEF TypedInv

LEMMA OfflineTyped ==
    ASSUME TypedInv, NEW s \in Session, Offline(s)
    PROVE  TypedInv'
<1>1. Mail' /\ to' = to /\ Aside(s)
    BY DEF Offline, mail, signals, globals, Aside, Handle, TypedInv, Mail, Fields
<1>2. Returns_(stack[s], handler[s], handler'[s])
    <2>1. Len(stack[s]) > 1
        <3>1. Len(stack[s]) # 1
            BY Disposed DEF Offline, At, Bases
        <3> QED
            BY <3>1, TopIs, OneOrMore, Zenon
    <2>2. Above(stack[s]) = Top(s).at
        BY TopIs
    <2> QED
        BY <2>1, <2>2, Disposed DEF Offline, signals, Handle, At, TypedInv, Fields,
           Returns_, Bases, Writing, Counters
<1>3. Stacked' /\ stack' \in [Session -> Seq(Activation)]
    BY <1>1, <1>2, ReturnKeeps DEF Offline
<1>4. Fields'
    BY <1>3 DEF Offline, mail, signals, globals, ghosts, Handle, TypedInv, Fields
<1> QED
    BY <1>1, <1>3, <1>4 DEF TypedInv

LEMMA KeepTyped ==
    ASSUME TypedInv, NEW s \in Session, Keep(s)
    PROVE  TypedInv'
<1>1. Mail' /\ to' = to /\ Aside(s)
    BY DEF Keep, mail, signals, globals, Aside, Handle, TypedInv, Mail, Fields
<1>2. Returns_(stack[s], handler[s], handler'[s])
    <2>1. Len(stack[s]) > 1
        <3>1. Len(stack[s]) # 1
            BY Disposed DEF Keep, At, Bases
        <3> QED
            BY <3>1, TopIs, OneOrMore, Zenon
    <2>2. Above(stack[s]) = Top(s).at
        BY TopIs
    <2> QED
        BY <2>1, <2>2, Disposed DEF Keep, signals, Handle, At, TypedInv, Fields,
           Returns_, Bases, Writing, Counters
<1>3. Stacked' /\ stack' \in [Session -> Seq(Activation)]
    BY <1>1, <1>2, ReturnKeeps DEF Keep
<1>4. Fields'
    BY <1>3 DEF Keep, mail, signals, globals, ghosts, Handle, TypedInv, Fields
<1> QED
    BY <1>1, <1>3, <1>4 DEF TypedInv

LEMMA ClearTyped ==
    ASSUME TypedInv, NEW s \in Session, Clear(s)
    PROVE  TypedInv'
<1>1. Mail' /\ to' = to /\ Aside(s)
    <2>1. owner[s] \in Account /\ <<>> \in Seq(Nat) /\ Len(<<>>) = 0
        BY OwnerAssumption
    <2>2. file' = [file EXCEPT ![owner[s]] = <<>>] /\ from' = from /\ to' = to
        BY DEF Clear
    <2>3. file' \in [Account -> Seq(Nat)]
        BY <2>1, <2>2 DEF TypedInv, Mail
    <2>4. ASSUME NEW a \in Account
          PROVE  /\ Len(file'[a]) <= Len(to)
                 /\ \A k \in 1 .. Len(file'[a]) :
                       file'[a][k] \in 1 .. Len(to) /\ owner[to[file'[a][k]]] = a
        <3>1. CASE a = owner[s]
            <4>1. file'[a] = <<>>
                BY <2>1, <2>2, <3>1 DEF TypedInv, Mail
            <4>2. Len(to) \in Nat
                BY DEF TypedInv, Mail
            <4> QED
                BY <4>1, <4>2
        <3>2. CASE a # owner[s]
            <4>1. file'[a] = file[a]
                BY <2>1, <2>2, <3>2 DEF TypedInv, Mail
            <4> QED
                BY <4>1 DEF TypedInv, Mail
        <3> QED
            BY <3>1, <3>2
    <2> QED
        BY <2>2, <2>3, <2>4 DEF Clear, signals, globals, Aside, TypedInv, Mail
<1>2. Returns_(stack[s], handler[s], handler'[s])
    <2>1. Len(stack[s]) > 1
        <3>1. Len(stack[s]) # 1
            BY Disposed DEF Clear, At, Bases
        <3> QED
            BY <3>1, TopIs, OneOrMore, Zenon
    <2>2. Above(stack[s]) = Top(s).at
        BY TopIs
    <2> QED
        BY <2>1, <2>2, Disposed DEF Clear, signals, Handle, At, TypedInv, Fields,
           Returns_, Bases, Writing, Counters
<1>3. Stacked' /\ stack' \in [Session -> Seq(Activation)]
    BY <1>1, <1>2, ReturnKeeps DEF Clear
<1>4. Fields'
    BY <1>3 DEF Clear, mail, signals, globals, ghosts, Handle, TypedInv, Fields
<1> QED
    BY <1>1, <1>3, <1>4 DEF TypedInv

LEMMA KillTyped ==
    ASSUME TypedInv, NEW s \in Session, Kill(s)
    PROVE  TypedInv'
<1>1. Mail' /\ to' = to /\ Aside(s)
    BY DEF Kill, mail, signals, globals, Aside, Handle, TypedInv, Mail, Fields
<1>2. Returns_(stack[s], handler[s], handler'[s])
    <2>1. Len(stack[s]) > 1
        <3>1. Len(stack[s]) # 1
            BY Disposed DEF Kill, At, Bases
        <3> QED
            BY <3>1, TopIs, OneOrMore, Zenon
    <2>2. Above(stack[s]) = Top(s).at
        BY TopIs
    <2> QED
        BY <2>1, <2>2, Disposed DEF Kill, signals, Handle, At, TypedInv, Fields,
           Returns_, Bases, Writing, Counters
<1>3. Stacked' /\ stack' \in [Session -> Seq(Activation)]
    BY <1>1, <1>2, ReturnKeeps DEF Kill
<1>4. Fields'
    <2>1. Top(s).uin \in Session /\ Top(s).msg \in 1 .. Len(to)
        BY TopIs DEF Local, Kill, At
    <2>2. pending' \in [Session -> BOOLEAN]
        <3>1. pending \in [Session -> BOOLEAN]
            BY DEF TypedInv, Fields
        <3> QED
            BY <3>1 DEF Kill
    <2>3. told' \subseteq 1 .. Len(to)
        <3>1. told \subseteq 1 .. Len(to)
            BY DEF TypedInv, Fields
        <3> QED
            BY <2>1, <3>1 DEF Kill
    <2> QED
        BY <1>3, <2>2, <2>3 DEF Kill, mail, globals, TypedInv, Fields
<1> QED
    BY <1>1, <1>3, <1>4 DEF TypedInv

LEMMA BrowseTyped ==
    ASSUME TypedInv, NEW s \in Session, Browse(s)
    PROVE  TypedInv'
<1> DEFINE f == [Fresh("browse") EXCEPT !.i = Len(msgfile(s))]
<1>1. Mail' /\ to' = to /\ Aside(s) /\ handler'[s] = handler[s]
    BY DEF Browse, mail, signals, globals, Aside, TypedInv, Mail, Fields
<1>2. f \in Activation /\ f.at = "browse" /\ Local(f, to) /\ Call(s, f)
    <2>1. Fresh("browse") \in Activation /\ Fresh("browse").at = "browse"
          /\ Fresh("browse").msg = 0 /\ Fresh("browse").MsgNum = 0
        <3>1. "browse" \in Places
            BY DEF Places
        <3> QED
            BY <3>1, FreshIs
    <2>2. Len(msgfile(s)) \in 0 .. MaxMessages /\ Len(msgfile(s)) > 0
        <3>1. msgfile(s) \in Seq(Nat) /\ Len(msgfile(s)) <= Len(to) /\ msgfile(s) # <<>>
            BY OwnerAssumption DEF Browse, msgfile, TypedInv, Mail
        <3>2. Len(to) \in Nat /\ Len(to) <= MaxMessages
            BY DEF TypedInv, Mail
        <3> QED
            BY <3>1, <3>2, BoundAssumption
    <2>3. f \in Activation /\ f.at = "browse" /\ f.msg = 0 /\ f.MsgNum = 0
          /\ f.i = Len(msgfile(s))
        BY <2>1, <2>2 DEF Activation
    <2> HIDE DEF f
    <2>4. Local(f, to)
        BY <2>2, <2>3 DEF Local, TypedInv, Mail
    <2> QED
        BY <2>3, <2>4 DEF Browse, f
<1> HIDE DEF f
<1>3. Above(stack[s]) = Top(s).at
    BY TopIs
<1>4. Pushes(stack[s], handler[s], f)
    BY <1>2, <1>3, Disposed DEF Browse, Pushes, At, Counters, Writing
<1>5. Stacked' /\ stack' \in [Session -> Seq(Activation)]
    BY <1>1, <1>2, <1>4, CallKeeps
<1>6. Fields'
    BY <1>5 DEF Browse, mail, signals, globals, ghosts, TypedInv, Fields
<1> QED
    BY <1>1, <1>5, <1>6 DEF TypedInv

LEMMA AddressTyped ==
    ASSUME TypedInv, NEW s \in Session, NEW t \in Session, Address(s, t)
    PROVE  TypedInv'
<1> DEFINE f == [Fresh("compose") EXCEPT !.uin = t]
<1>1. Mail' /\ to' = to /\ Aside(s) /\ handler'[s] = handler[s]
    BY DEF Address, mail, signals, globals, Aside, TypedInv, Mail, Fields
<1>2. f \in Activation /\ f.at = "compose" /\ Local(f, to) /\ Call(s, f)
    <2>1. Fresh("compose") \in Activation /\ Fresh("compose").at = "compose"
          /\ Fresh("compose").msg = 0
        <3>1. "compose" \in Places
            BY DEF Places
        <3> QED
            BY <3>1, FreshIs
    <2>2. f \in Activation /\ f.at = "compose" /\ f.msg = 0 /\ f.uin = t
        BY <2>1 DEF Activation
    <2> HIDE DEF f
    <2>3. Local(f, to)
        BY <2>2 DEF Local, TypedInv, Mail
    <2> QED
        BY <2>2, <2>3 DEF Address, f
<1> HIDE DEF f
<1>3. Above(stack[s]) = Top(s).at
    BY TopIs
<1>4. Pushes(stack[s], handler[s], f)
    BY <1>2, <1>3, Disposed DEF Address, Pushes, At, Counters, Writing
<1>5. Stacked' /\ stack' \in [Session -> Seq(Activation)]
    BY <1>1, <1>2, <1>4, CallKeeps
<1>6. Fields'
    BY <1>5 DEF Address, mail, signals, globals, ghosts, TypedInv, Fields
<1> QED
    BY <1>1, <1>5, <1>6 DEF TypedInv

LEMMA ViewTyped ==
    ASSUME TypedInv, NEW s \in Session, View(s)
    PROVE  TypedInv'
<1> DEFINE f == Fresh("clear")
<1>1. Mail' /\ to' = to /\ Aside(s) /\ handler'[s] = handler[s]
    BY DEF View, mail, signals, globals, Aside, TypedInv, Mail, Fields
<1>2. f \in Activation /\ f.at = "clear" /\ Local(f, to) /\ Call(s, f)
    BY FreshIs DEF View, Places, Local, TypedInv, Mail
<1> HIDE DEF f
<1>3. Above(stack[s]) = Top(s).at
    BY TopIs
<1>4. Pushes(stack[s], handler[s], f)
    BY <1>2, <1>3, Disposed DEF View, Pushes, At, Counters, Writing
<1>5. Stacked' /\ stack' \in [Session -> Seq(Activation)]
    BY <1>1, <1>2, <1>4, CallKeeps
<1>6. Fields'
    BY <1>5 DEF View, mail, signals, globals, ghosts, TypedInv, Fields
<1> QED
    BY <1>1, <1>5, <1>6 DEF TypedInv
LEMMA MsgFileIs ==
    ASSUME TypedInv, NEW s \in Session
    PROVE  /\ owner[s] \in Account
           /\ msgfile(s) \in Seq(Nat) /\ Len(msgfile(s)) \in Nat
           /\ Len(msgfile(s)) <= Len(to) /\ Len(to) \in Nat
           /\ Len(msgfile(s)) \in 0 .. MaxMessages /\ Len(to) \in 0 .. MaxMessages
           /\ msgfile(s) # <<>> => Len(msgfile(s)) > 0
           /\ \A k \in 1 .. Len(msgfile(s)) :
                 msgfile(s)[k] \in 1 .. Len(to) /\ owner[to[msgfile(s)[k]]] = owner[s]
<1>1. owner[s] \in Account
    BY OwnerAssumption
<1>2. msgfile(s) \in Seq(Nat) /\ Len(msgfile(s)) <= Len(to)
    BY <1>1 DEF msgfile, TypedInv, Mail
<1>3. Len(to) \in Nat /\ Len(to) <= MaxMessages
    BY DEF TypedInv, Mail
<1>4. \A k \in 1 .. Len(msgfile(s)) :
         msgfile(s)[k] \in 1 .. Len(to) /\ owner[to[msgfile(s)[k]]] = owner[s]
    BY <1>1 DEF msgfile, TypedInv, Mail
<1> HIDE DEF msgfile
<1>5. Len(msgfile(s)) \in Nat /\ (msgfile(s) # <<>> => Len(msgfile(s)) > 0)
    BY <1>2
<1> QED
    BY <1>1, <1>2, <1>3, <1>4, <1>5, BoundAssumption

LEMMA BufferIs ==
    ASSUME TypedInv, NEW s \in Session, msgfile(s) # <<>>, NEW n \in Nat,
           NEW m \in Buffer(s, n)
    PROVE  m \in 0 .. Len(to)
<1>1. CASE n > 0
    <2>1. (IF n <= Len(msgfile(s)) THEN n ELSE Len(msgfile(s))) \in 1 .. Len(msgfile(s))
        BY <1>1, MsgFileIs
    <2> QED
        BY <1>1, <2>1, MsgFileIs DEF Buffer
<1>2. CASE ~(n > 0)
    <2>1. Top(s).msg \in 0 .. Len(to)
        BY TopIs DEF Local
    <2>2. 0 \in 0 .. Len(to) /\ \A x \in shown : x \in 0 .. Len(to)
        <3>1. shown \subseteq 1 .. Len(to) /\ Len(to) \in Nat
            BY MsgFileIs DEF TypedInv, Fields
        <3> QED
            BY <3>1
    <2> QED
        <3>1. m = Top(s).msg \/ m = 0 \/ m \in shown
            BY <1>2 DEF Buffer
        <3> QED
            BY <2>1, <2>2, <3>1
<1> QED
    BY <1>1, <1>2

LEMMA ShowsKeeps ==
    ASSUME TypedInv, NEW s, NEW m \in 0 .. Len(to), Shows(s, m)
    PROVE  shown' \subseteq 1 .. Len(to) /\ shown \subseteq shown'
BY DEF Shows, TypedInv, Fields, Mail

LEMMA EnterTyped ==
    ASSUME TypedInv, NEW s \in Session, Enter(s)
    PROVE  TypedInv'
<1> DEFINE f == [Top(s) EXCEPT !.at = "loop", !.premsg = s \in GetKey /\ RMSG[s]]
<1>1. Mail' /\ to' = to /\ Aside(s) /\ Further /\ to' \in Seq(Session)
    BY DEF Enter, mail, Aside, Handle, Further, TypedInv, Mail, Fields
<1>2. Top(s) \in Activation /\ Local(Top(s), to) /\ Top(s).at = "enter"
      /\ Above(stack[s]) = Top(s).at
    BY TopIs DEF Enter, At
<1>3. (s \in GetKey /\ RMSG[s]) \in BOOLEAN
    BY DEF TypedInv, Fields
<1>4. f \in Activation /\ f.at = "loop" /\ f.msg = Top(s).msg
    BY <1>2, <1>3 DEF Activation, Places
<1>5. Become(s, f)
    BY DEF Enter
<1> HIDE DEF f
<1>6. Local(f, to')
    BY <1>1, <1>2, <1>4 DEF Local
<1>7. Moves(stack[s], handler[s], f, handler'[s])
    BY <1>2, <1>4, Disposed DEF Enter, Handle, TypedInv, Fields,
       Moves, Turns, Bases, Writing, Browser, Counters
<1>8. Stacked' /\ stack' \in [Session -> Seq(Activation)]
    BY <1>1, <1>4, <1>5, <1>6, <1>7, MoveKeeps
<1>9. Fields'
    <2>1. handler' \in [Session -> {"r_msg_sig", "count_msg", "ignore"}]
          /\ msg_num' \in [Session -> Nat]
        BY DEF Enter, Handle, TypedInv, Fields
    <2> QED
        BY <1>1, <1>8, <2>1 DEF Enter, ghosts, TypedInv, Fields
<1> QED
    BY <1>1, <1>8, <1>9 DEF TypedInv

LEMMA LoopTyped ==
    ASSUME TypedInv, NEW s \in Session, Loop(s)
    PROVE  TypedInv'
<1>1. Mail' /\ to' = to /\ Aside(s) /\ Further /\ to' \in Seq(Session)
      /\ handler' = handler /\ msg_num' = msg_num
    BY DEF Loop, mail, signals, globals, Aside, Further, TypedInv, Mail, Fields
<1>2. Top(s) \in Activation /\ Local(Top(s), to) /\ Top(s).at = "loop"
      /\ Above(stack[s]) = Top(s).at /\ handler[s] = "count_msg"
    BY TopIs, Disposed DEF Loop, At, Counters
<1>3. Stacked' /\ stack' \in [Session -> Seq(Activation)]
    <2>1. CASE msg_num[s] = 0
        <3>1. Turns(Top(s).at, handler[s], "install", handler'[s])
            BY <1>1, <1>2 DEF Turns, Bases, Writing, Browser, Counters
        <3> QED
            BY <1>1, <2>1, <3>1, GotoKeeps DEF Loop, Places
    <2>2. CASE msg_num[s] # 0
        <3> DEFINE f == [Top(s) EXCEPT !.at = "read", !.i = Len(msgfile(s))]
        <3>1. f \in Activation /\ f.at = "read" /\ f.msg = Top(s).msg
            BY <1>2, MsgFileIs DEF Activation, Places
        <3>2. Become(s, f)
            BY <2>2 DEF Loop
        <3> HIDE DEF f
        <3>3. Local(f, to')
            BY <1>1, <1>2, <3>1 DEF Local
        <3>4. Moves(stack[s], handler[s], f, handler'[s])
            BY <1>1, <1>2, <3>1 DEF Moves, Turns, Bases, Writing, Browser, Counters
        <3>5. msg_num'[s] > 0
            BY <1>1, <2>2 DEF TypedInv, Fields
        <3> QED
            BY <1>1, <3>2, <3>3, <3>4, <3>5, MoveKeeps
    <2> QED
        BY <2>1, <2>2
<1>4. Fields'
    BY <1>3 DEF Loop, mail, signals, globals, ghosts, TypedInv, Fields
<1> QED
    BY <1>1, <1>3, <1>4 DEF TypedInv

LEMMA ReadTyped ==
    ASSUME TypedInv, NEW s \in Session, Read(s)
    PROVE  TypedInv'
<1>1. Mail' /\ to' = to /\ Aside(s) /\ Further /\ to' \in Seq(Session)
      /\ handler' = handler
    BY DEF Read, mail, signals, Aside, Further, TypedInv, Mail, Fields
<1>2. Top(s) \in Activation /\ Local(Top(s), to) /\ Top(s).at = "read"
      /\ Above(stack[s]) = Top(s).at /\ handler[s] = "count_msg"
    BY TopIs, Disposed DEF Read, At, Counters
<1>3. msg_num[s] \in Nat /\ msg_num[s] > 0 /\ Top(s).i \in 0 .. MaxMessages
    BY <1>2 DEF Read, Activation, TypedInv, Fields, Stacked, Formed
<1> DEFINE n == IF Top(s).i + 1 < msg_num[s] THEN 0 ELSE Top(s).i + 1 - msg_num[s]
           Next_(m) == [Top(s) EXCEPT !.at = IF s \in GetKey THEN "key" ELSE "loop",
                                      !.i = 0, !.msg = m]
<1>4. n \in Nat
    BY <1>3, BoundAssumption
<1>5. PICK m \in Buffer(s, n) : Shows(s, m) /\ Become(s, Next_(m))
    BY DEF Read
<1> HIDE DEF n
<1>6. m \in 0 .. Len(to) /\ m \in 0 .. MaxMessages
    <2>1. m \in 0 .. Len(to)
        BY <1>4, BufferIs DEF Read
    <2> QED
        BY <2>1, MsgFileIs, BoundAssumption
<1> DEFINE f == Next_(m)
<1>7. f \in Activation /\ f.at \in {"key", "loop"} /\ f.msg = m
    <2> DEFINE p == IF s \in GetKey THEN "key" ELSE "loop"
    <2>1. p \in {"key", "loop"} /\ 0 \in 0 .. MaxMessages
        BY BoundAssumption
    <2> HIDE DEF p
    <2>2. /\ [Top(s) EXCEPT !.at = p, !.i = 0, !.msg = m] \in Activation
          /\ [Top(s) EXCEPT !.at = p, !.i = 0, !.msg = m].at = p
          /\ [Top(s) EXCEPT !.at = p, !.i = 0, !.msg = m].msg = m
        BY <1>2, <1>6, <2>1 DEF Activation, Places
    <2> QED
        BY <2>1, <2>2 DEF p
<1>8. Become(s, f)
    BY <1>5
<1> HIDE DEF f
<1>9. Local(f, to')
    BY <1>1, <1>6, <1>7 DEF Local
<1>10. Moves(stack[s], handler[s], f, handler'[s])
    BY <1>1, <1>2, <1>7 DEF Moves, Turns, Bases, Writing, Browser, Counters
<1>11. Stacked' /\ stack' \in [Session -> Seq(Activation)]
    BY <1>1, <1>7, <1>8, <1>9, <1>10, MoveKeeps
<1>12. shown' \subseteq 1 .. Len(to)
    BY <1>5, <1>6, ShowsKeeps
<1>13. msg_num' \in [Session -> Nat] /\ RMSG' \in [Session -> BOOLEAN]
    BY <1>3 DEF Read, TypedInv, Fields
<1>14. Fields'
    BY <1>1, <1>11, <1>12, <1>13 DEF Read, signals, TypedInv, Fields
<1> QED
    BY <1>1, <1>11, <1>14 DEF TypedInv

LEMMA LookTyped ==
    ASSUME TypedInv, NEW s \in Session, Look(s)
    PROVE  TypedInv'
<1>1. Mail' /\ to' = to /\ Aside(s) /\ Further /\ to' \in Seq(Session)
      /\ handler' = handler
    BY DEF Look, mail, signals, globals, Aside, Further, TypedInv, Mail, Fields
<1>2. Top(s) \in Activation /\ Local(Top(s), to) /\ Top(s).at = "look"
      /\ Above(stack[s]) = Top(s).at /\ handler[s] = "count_msg"
    BY TopIs, Disposed DEF Look, At, Counters
<1>3. /\ Top(s).i \in 0 .. MaxMessages /\ Top(s).MsgNum \in 0 .. MaxMessages
      /\ Top(s).MsgNum < Top(s).i
    BY <1>2 DEF Activation, Local
<1>4. Top(s).i - Top(s).MsgNum \in Nat
    BY <1>3, BoundAssumption
<1>5. PICK m \in Buffer(s, Top(s).i - Top(s).MsgNum) :
          Shows(s, m) /\ Become(s, [Top(s) EXCEPT !.at = "choose", !.msg = m])
    BY DEF Look
<1>6. m \in 0 .. Len(to) /\ m \in 0 .. MaxMessages
    <2>1. m \in 0 .. Len(to)
        BY <1>4, BufferIs DEF Look
    <2> QED
        BY <2>1, MsgFileIs, BoundAssumption
<1> DEFINE f == [Top(s) EXCEPT !.at = "choose", !.msg = m]
<1>7. f \in Activation /\ f.at = "choose" /\ f.msg = m
      /\ f.i = Top(s).i /\ f.MsgNum = Top(s).MsgNum
    BY <1>2, <1>6 DEF Activation, Places
<1>8. Become(s, f)
    BY <1>5
<1> HIDE DEF f
<1>9. Local(f, to')
    BY <1>1, <1>3, <1>6, <1>7 DEF Local
<1>10. Moves(stack[s], handler[s], f, handler'[s])
    BY <1>1, <1>2, <1>7 DEF Moves, Turns, Bases, Writing, Browser, Counters
<1>11. Stacked' /\ stack' \in [Session -> Seq(Activation)]
    BY <1>1, <1>7, <1>8, <1>9, <1>10, MoveKeeps
<1>12. shown' \subseteq 1 .. Len(to)
    BY <1>5, <1>6, ShowsKeeps
<1>13. Fields'
    BY <1>1, <1>11, <1>12 DEF Look, signals, globals, TypedInv, Fields
<1> QED
    BY <1>1, <1>11, <1>13 DEF TypedInv

\* The next record stays one of those counted when the browser opened.
LEMMA Around ==
    ASSUME NEW i \in Nat, NEW n \in Nat, n < i
    PROVE  (n + 1) % i \in 0 .. i - 1 /\ (n + i - 1) % i \in 0 .. i - 1
OBVIOUS

LEMMA ChooseTyped ==
    ASSUME TypedInv, NEW s \in Session, Choose(s)
    PROVE  TypedInv'
<1>1. Mail' /\ to' = to /\ Aside(s) /\ Further /\ to' \in Seq(Session)
      /\ handler' = handler
    BY DEF Choose, mail, signals, globals, Aside, Further, TypedInv, Mail, Fields
<1>2. Top(s) \in Activation /\ Local(Top(s), to) /\ Top(s).at = "choose"
      /\ Above(stack[s]) = Top(s).at /\ handler[s] = "count_msg"
    BY TopIs, Disposed DEF Choose, At, Counters
<1>3. /\ Top(s).i \in 0 .. MaxMessages /\ Top(s).MsgNum \in 0 .. MaxMessages
      /\ Top(s).MsgNum < Top(s).i
    BY <1>2 DEF Activation, Local
<1>4. PICK next \in {(Top(s).MsgNum + 1) % Top(s).i,
                     (Top(s).MsgNum + Top(s).i - 1) % Top(s).i} :
          Become(s, [Top(s) EXCEPT !.at = "look", !.MsgNum = next])
    BY DEF Choose
<1>5. next \in 0 .. Top(s).i - 1
    <2>1. Top(s).i \in Nat /\ Top(s).MsgNum \in Nat
        BY <1>3, BoundAssumption
    <2> QED
        BY <1>3, <1>4, <2>1, Around
<1>6. next \in 0 .. MaxMessages /\ next < Top(s).i
    BY <1>3, <1>5, BoundAssumption
<1> DEFINE f == [Top(s) EXCEPT !.at = "look", !.MsgNum = next]
<1>7. f \in Activation /\ f.at = "look" /\ f.msg = Top(s).msg
      /\ f.i = Top(s).i /\ f.MsgNum = next
    BY <1>2, <1>6 DEF Activation, Places
<1>8. Become(s, f)
    BY <1>4
<1> HIDE DEF f
<1>9. Local(f, to')
    BY <1>1, <1>2, <1>6, <1>7 DEF Local
<1>10. Moves(stack[s], handler[s], f, handler'[s])
    BY <1>1, <1>2, <1>7 DEF Moves, Turns, Bases, Writing, Browser, Counters
<1>11. Stacked' /\ stack' \in [Session -> Seq(Activation)]
    BY <1>1, <1>7, <1>8, <1>9, <1>10, MoveKeeps
<1>12. Fields'
    BY <1>1, <1>11 DEF Choose, signals, globals, ghosts, TypedInv, Fields
<1> QED
    BY <1>1, <1>11, <1>12 DEF TypedInv
LEMMA ReplyTyped ==
    ASSUME TypedInv, NEW s \in Session, NEW t \in Session, Reply(s, t)
    PROVE  TypedInv'
<1> DEFINE f == [Top(s) EXCEPT !.at = "loop"]
           e == [Fresh("append") EXCEPT !.uin = t]
<1>1. Mail' /\ to' = to /\ Aside(s) /\ handler' = handler
    BY DEF Reply, mail, signals, globals, Aside, TypedInv, Mail, Fields
<1>2. Top(s) \in Activation /\ Local(Top(s), to) /\ Top(s).at = "key"
      /\ Above(stack[s]) = Top(s).at
    BY TopIs DEF Reply, At
<1>3. f \in Activation /\ f.at = "loop" /\ f.msg = Top(s).msg
    <2>1. "loop" \in Places
        BY DEF Places
    <2> QED
        BY <1>2, <2>1, FrameIs
<1>4. Fresh("append") \in Activation /\ Fresh("append").at = "append"
      /\ Fresh("append").msg = 0
    <2>1. "append" \in Places
        BY DEF Places
    <2> QED
        BY <2>1, FreshIs
<1>5. e \in Activation /\ e.at = "append" /\ e.msg = 0 /\ e.uin = t
    BY <1>4 DEF Activation
<1>6. stack' = [stack EXCEPT ![s] = Below(s) \o <<f, e>>]
    BY DEF Reply
<1> HIDE DEF f, e
<1>7. Local(f, to) /\ Local(e, to)
    BY <1>2, <1>3, <1>5, MsgFileIs DEF Local
<1>8. Answers(stack[s], f, e)
    BY <1>2, <1>3, <1>5 DEF Answers
<1>9. Stacked' /\ stack' \in [Session -> Seq(Activation)]
    BY <1>1, <1>6, <1>7, <1>8, AnswerKeeps
<1>10. Fields'
    BY <1>1, <1>9 DEF Reply, signals, globals, ghosts, TypedInv, Fields
<1> QED
    BY <1>1, <1>9, <1>10 DEF TypedInv

LEMMA AnswerTyped ==
    ASSUME TypedInv, NEW s \in Session, NEW t \in Session, Answer(s, t)
    PROVE  TypedInv'
<1> DEFINE f == Fresh("close")
           e == [Fresh("append") EXCEPT !.uin = t]
<1>1. Mail' /\ to' = to /\ Aside(s) /\ handler' = handler
    BY DEF Answer, mail, signals, globals, Aside, TypedInv, Mail, Fields
<1>2. Top(s).at = "choose" /\ Above(stack[s]) = Top(s).at
    BY TopIs DEF Answer, At
<1>3. f \in Activation /\ f.at = "close" /\ f.msg = 0
    <2>1. "close" \in Places
        BY DEF Places
    <2> QED
        BY <2>1, FreshIs
<1>4. Fresh("append") \in Activation /\ Fresh("append").at = "append"
      /\ Fresh("append").msg = 0
    <2>1. "append" \in Places
        BY DEF Places
    <2> QED
        BY <2>1, FreshIs
<1>5. e \in Activation /\ e.at = "append" /\ e.msg = 0 /\ e.uin = t
    BY <1>4 DEF Activation
<1>6. stack' = [stack EXCEPT ![s] = Below(s) \o <<f, e>>]
    BY DEF Answer
<1> HIDE DEF f, e
<1>7. Local(f, to) /\ Local(e, to)
    BY <1>3, <1>5, MsgFileIs DEF Local
<1>8. Answers(stack[s], f, e)
    BY <1>2, <1>3, <1>5 DEF Answers
<1>9. Stacked' /\ stack' \in [Session -> Seq(Activation)]
    BY <1>1, <1>6, <1>7, <1>8, AnswerKeeps
<1>10. Fields'
    BY <1>1, <1>9 DEF Answer, signals, globals, ghosts, TypedInv, Fields
<1> QED
    BY <1>1, <1>9, <1>10 DEF TypedInv

LEMMA QuitTyped ==
    ASSUME TypedInv, NEW s \in Session, Quit(s) \/ Vanished(s)
    PROVE  TypedInv'
<1>1. Mail' /\ to' = to /\ Aside(s) /\ Further /\ to' \in Seq(Session)
      /\ handler' = handler
    <2>1. mail' = mail /\ handler' = handler /\ msg_num' = msg_num
        BY DEF Quit, Vanished, signals, globals
    <2> QED
        BY <2>1 DEF mail, Aside, Further, TypedInv, Mail
<1>2. Top(s).at \in {"choose", "look"} /\ Above(stack[s]) = Top(s).at
      /\ handler[s] = "count_msg"
    BY TopIs, Disposed DEF Quit, Vanished, At, Counters
<1>3. PICK q \in {"close", "enter", "reset"} : Become(s, Fresh(q))
    BY DEF Quit, Vanished
<1>4. Fresh(q) \in Activation /\ Fresh(q).at = q /\ Fresh(q).msg = 0
    <2>1. q \in Places
        BY <1>3 DEF Places
    <2> QED
        BY <2>1, FreshIs
<1>5. Local(Fresh(q), to')
    BY <1>1, <1>3, <1>4, MsgFileIs DEF Local
<1>6. Moves(stack[s], handler[s], Fresh(q), handler'[s])
    BY <1>1, <1>2, <1>3, <1>4 DEF Moves, Turns, Bases, Writing, Browser, Counters
<1>7. Stacked' /\ stack' \in [Session -> Seq(Activation)]
    BY <1>1, <1>3, <1>4, <1>5, <1>6, MoveKeeps
<1>8. RMSG' \in [Session -> BOOLEAN] /\ msg_num' = msg_num /\ refuses' = refuses
    BY DEF Quit, Vanished, globals, TypedInv, Fields
<1>9. Fields'
    BY <1>1, <1>7, <1>8 DEF Quit, Vanished, signals, ghosts, TypedInv, Fields
<1> QED
    BY <1>1, <1>7, <1>9 DEF TypedInv

LEMMA CloseTyped ==
    ASSUME TypedInv, NEW s \in Session, Close(s)
    PROVE  TypedInv'
<1>1. Mail' /\ to' = to /\ Aside(s) /\ handler' = handler
    BY DEF Close, mail, signals, Aside, TypedInv, Mail, Fields
<1>2. PICK p \in {"enter", "reset"} : Goto(s, p)
    BY DEF Close
<1>3. Turns(Top(s).at, handler[s], p, handler'[s])
    BY <1>1, <1>2, Disposed DEF Close, At, Turns, Bases, Writing, Browser, Counters
<1>4. Stacked' /\ stack' \in [Session -> Seq(Activation)]
    BY <1>1, <1>2, <1>3, GotoKeeps DEF Close, At, Places
<1>5. msg_num' \in [Session -> Nat]
    BY DEF Close, TypedInv, Fields
<1>6. Fields'
    BY <1>1, <1>4, <1>5 DEF Close, signals, ghosts, TypedInv, Fields
<1> QED
    BY <1>1, <1>4, <1>6 DEF TypedInv

LEMMA AppendTyped ==
    ASSUME TypedInv, NEW s \in Session, file_append(s)
    PROVE  TypedInv'
<1> DEFINE t == Top(s).uin
           n == Len(to) + 1
           a == owner[t]
           f == [Top(s) EXCEPT !.at = "kill", !.msg = n]
<1>1. Top(s) \in Activation /\ Local(Top(s), to) /\ Top(s).at = "append"
      /\ Above(stack[s]) = Top(s).at
    BY TopIs DEF file_append, At
<1>2. t \in Session /\ a \in Account
    BY <1>1, OwnerAssumption DEF Local
<1>3. /\ Len(to) \in Nat /\ n \in 1 .. MaxMessages /\ n \in 0 .. MaxMessages
      /\ from \in Seq(Session) /\ to \in Seq(Session) /\ Len(from) = Len(to)
    BY BoundAssumption DEF file_append, TypedInv, Mail
<1>4. /\ to' = Append(to, t) /\ from' = Append(from, s)
      /\ file' = [file EXCEPT ![a] = Append(file[a], n)]
      /\ Become(s, f)
    BY DEF file_append
<1>5. f \in Activation /\ f.at = "kill" /\ f.msg = n /\ f.uin = t
    BY <1>1, <1>3 DEF Activation, Places
<1> HIDE DEF f, t
<1>6. /\ to' \in Seq(Session) /\ from' \in Seq(Session)
      /\ Len(to') = n /\ Len(from') = n
      /\ to'[n] = t /\ \A m \in 1 .. Len(to) : to'[m] = to[m]
    BY <1>2, <1>3, <1>4
<1>7. Further
    BY <1>3, <1>6 DEF Further
<1>8. file \in [Account -> Seq(Nat)] /\ \A b \in Account :
          /\ Len(file[b]) <= Len(to)
          /\ \A k \in 1 .. Len(file[b]) :
                file[b][k] \in 1 .. Len(to) /\ owner[to[file[b][k]]] = b
    BY DEF TypedInv, Mail
<1>9. Mail'
    <2>1. /\ Append(file[a], n) \in Seq(Nat)
          /\ Len(Append(file[a], n)) = Len(file[a]) + 1
          /\ Append(file[a], n)[Len(file[a]) + 1] = n
          /\ \A k \in 1 .. Len(file[a]) : Append(file[a], n)[k] = file[a][k]
          /\ Len(file[a]) \in Nat
        BY <1>2, <1>3, <1>8
    <2>2. file' \in [Account -> Seq(Nat)] /\ file'[a] = Append(file[a], n)
          /\ \A b \in Account \ {a} : file'[b] = file[b]
        BY <1>2, <1>4, <1>8, <2>1
    <2>3. ASSUME NEW b \in Account
          PROVE  /\ Len(file'[b]) <= n
                 /\ \A k \in 1 .. Len(file'[b]) :
                       file'[b][k] \in 1 .. n /\ owner[to'[file'[b][k]]] = b
        <3>1. CASE b # a
            <4>1. file'[b] = file[b]
                BY <2>2, <3>1
            <4>2. Len(file[b]) <= n
                BY <1>2, <1>3, <1>8
            <4>3. \A k \in 1 .. Len(file[b]) :
                     file[b][k] \in 1 .. n /\ owner[to'[file[b][k]]] = b
                BY <1>3, <1>6, <1>8
            <4> QED
                BY <4>1, <4>2, <4>3
        <3>2. CASE b = a
            <4>1. Len(file'[b]) = Len(file[a]) + 1 /\ Len(file[a]) <= Len(to)
                BY <1>8, <2>1, <2>2, <3>2
            <4>2. ASSUME NEW k \in 1 .. Len(file'[b])
                  PROVE  file'[b][k] \in 1 .. n /\ owner[to'[file'[b][k]]] = b
                <5>1. CASE k = Len(file[a]) + 1
                    <6>1. file'[b][k] = n
                        BY <2>1, <2>2, <3>2, <5>1
                    <6>2. owner[to'[n]] = b /\ n \in 1 .. n
                        BY <1>3, <1>6, <3>2
                    <6> QED
                        BY <6>1, <6>2
                <5>2. CASE k # Len(file[a]) + 1
                    <6>1. k \in 1 .. Len(file[a])
                        BY <2>1, <4>1, <5>2
                    <6>2. file'[b][k] = file[a][k]
                        BY <2>1, <2>2, <3>2, <6>1
                    <6> QED
                        BY <1>2, <1>3, <1>6, <1>8, <3>2, <6>1, <6>2
                <5> QED
                    BY <5>1, <5>2
            <4>3. Len(file'[b]) <= n
                BY <1>3, <2>1, <4>1
            <4> QED
                BY <4>2, <4>3
        <3> QED
            BY <3>1, <3>2
    <2> QED
        BY <1>3, <1>6, <2>2, <2>3 DEF Mail
<1>10. Local(f, to')
    BY <1>2, <1>3, <1>5, <1>6 DEF Local
<1>11. handler' = handler /\ Aside(s)
    BY DEF file_append, signals, globals, Aside
<1>12. Moves(stack[s], handler[s], f, handler'[s])
    BY <1>1, <1>5, <1>11, Disposed DEF Moves, Turns, Bases, Writing, Browser, Counters
<1>13. Stacked' /\ stack' \in [Session -> Seq(Activation)]
    BY <1>4, <1>5, <1>6, <1>7, <1>10, <1>11, <1>12, MoveKeeps
<1>14. told' \subseteq 1 .. Len(to') /\ shown' \subseteq 1 .. Len(to')
    BY <1>3, <1>6 DEF file_append, ghosts, TypedInv, Fields
<1>15. Fields'
    BY <1>11, <1>13, <1>14 DEF file_append, signals, globals, ghosts, TypedInv, Fields
<1> QED
    BY <1>9, <1>13, <1>15 DEF TypedInv
LEMMA TypedInit == Init => TypedInv
<1> SUFFICES ASSUME Init PROVE TypedInv
    OBVIOUS
<1>1. <<>> \in Seq(Session) /\ <<>> \in Seq(Nat) /\ Len(<<>>) = 0
    OBVIOUS
<1>2. Mail
    BY <1>1, BoundAssumption DEF Init, Mail
<1>3. Fresh("main") \in Activation /\ Fresh("main").at = "main" /\ Fresh("main").msg = 0
    <2>1. "main" \in Places
        BY DEF Places
    <2> QED
        BY <2>1, FreshIs
<1> DEFINE st == <<Fresh("main")>>
<1>4. st \in Seq(Activation) /\ Len(st) = 1 /\ st[1] = Fresh("main") /\ st # <<>>
    BY <1>3
<1> HIDE DEF st
<1>5. \A s \in Session : stack[s] = st /\ handler[s] = "r_msg_sig"
    BY DEF Init, st
<1>6. Fields
    <2>1. stack \in [Session -> Seq(Activation)]
        BY <1>4 DEF Init, st
    <2>2. \A h \in {"r_msg_sig", "count_msg", "ignore"} :
             [s \in Session |-> h] \in [Session -> {"r_msg_sig", "count_msg", "ignore"}]
        OBVIOUS
    <2> QED
        BY <2>1, <2>2 DEF Init, Fields
<1>7. ASSUME NEW s \in Session PROVE Formed(s)
    <2>1. Bottom(st)
        BY <1>3, <1>4 DEF Bottom, Bases
    <2>2. Shape(st, "r_msg_sig")
        BY <1>3, <1>4, <2>1 DEF Shape, Counters
    <2>3. \A k \in 1 .. Len(st) : Local(st[k], to)
        <3>1. Local(Fresh("main"), to)
            BY <1>1, <1>3 DEF Local, Init
        <3> QED
            BY <1>4, <3>1
    <2>4. ~At(s, "read")
        BY <1>3, <1>4, <1>5 DEF At, Top
    <2> QED
        BY <1>5, <2>2, <2>3, <2>4 DEF Formed
<1> QED
    BY <1>2, <1>6, <1>7 DEF TypedInv, Stacked

LEMMA TypedStep == TypedInv /\ [Next]_vars => TypedInv'
<1> SUFFICES ASSUME TypedInv, [Next]_vars PROVE TypedInv'
    OBVIOUS
<1>1. ASSUME NEW s \in Session, Run(s) PROVE TypedInv'
    BY <1>1, EnterTyped, LoopTyped, MissingTyped, ReadTyped, InstallTyped,
       RestoreTyped, BrowsingTyped, LookTyped, CloseTyped, QuitTyped, ResetTyped,
       AppendTyped, OfflineTyped, KillTyped, StartedTyped, BackTyped DEF Run
<1>2. ASSUME NEW s \in Session, Keys(s) PROVE TypedInv'
    BY <1>2, KeyTyped, ChooseTyped, QuitTyped, ComposeTyped, CancelTyped, KeepTyped,
       ClearTyped, ReturnedTyped, BackTyped, ReplyTyped, AnswerTyped DEF Keys
<1>3. ASSUME NEW s \in Session, Command(s) PROVE TypedInv'
    BY <1>3, AddressTyped, BrowseTyped, ViewTyped, ExecuteTyped, LockTyped, LeaveTyped
       DEF Command
<1>4. ASSUME NEW s \in Session, Signal(s) PROVE TypedInv'
    BY <1>4, SignalTyped DEF Signal
<1>5. CASE UNCHANGED vars
    <2>1. Mail'
        BY <1>5 DEF vars, mail, TypedInv, Mail
    <2>2. Fields'
        BY <1>5 DEF vars, mail, signals, globals, ghosts, TypedInv, Fields
    <2>3. Stacked'
        BY <1>5 DEF vars, mail, signals, globals, TypedInv, Stacked, Formed, At, Top
    <2> QED
        BY <2>1, <2>2, <2>3 DEF TypedInv
<1> QED
    BY <1>1, <1>2, <1>3, <1>4, <1>5 DEF Next

-----------------------------------------------------------------------------
(***************************************************************************)
(* What is owed.  A message whose signal was taken is shown, or still to   *)
(* be: the signal is pending, a handler has yet to count it (Entering), or *)
(* it is counted.  In front of the file with one count left, the size that *)
(* was read must still be the file's (Counted): the count has gone up for  *)
(* every signal taken since.                                               *)
(*                                                                         *)
(* And whose the mark RMSG is: it is set while a browser or a display that *)
(* waits for a key is open, and a display remembers it set only when it    *)
(* interrupted another one that had yet to put it back.                    *)
(***************************************************************************)
Some(s, X) == \E k \in 1 .. Len(stack[s]) : stack[s][k].at \in X

Entering(s) == Some(s, {"enter"})
Counted(s) ==
    /\ msg_num[s] > 0
    /\ At(s, "read") => msg_num[s] > 1 \/ Top(s).i >= Len(msgfile(s))
Owed(s) == Newest(s) \subseteq shown \/ pending[s] \/ Entering(s) \/ Counted(s)

Showing(s) == {"look", "choose", "close"}
    \cup (IF s \in GetKey THEN {"loop", "read", "key", "install", "restore"} ELSE {})
Remembers(s) == \A k \in 1 .. Len(stack[s]) : stack[s][k].premsg =>
    \E j \in 1 .. k - 1 : stack[s][j].at = "restore"
Marked(s) == s \notin cleared => (RMSG[s] => Some(s, Showing(s))) /\ Remembers(s)

ShowInv == \A s \in Session : Owed(s) /\ Marked(s)

\* The four operations leave the stack as it is below the top.
Kept(s, m) == /\ m \in Nat /\ m <= Len(stack[s]) /\ m <= Len(stack'[s])
              /\ \A k \in 1 .. m : stack'[s][k] = stack[s][k]
Alike(s) == \A t \in Session \ {s} : stack'[t] = stack[t]

LEMMA BecomeIs ==
    ASSUME TypedInv, NEW s \in Session, NEW f \in Activation, Become(s, f)
    PROVE  /\ Alike(s) /\ Kept(s, Len(stack[s]) - 1)
           /\ Len(stack'[s]) = Len(stack[s])
           /\ stack'[s][Len(stack[s])] = f /\ Top(s)' = f
<1> DEFINE r == Replaced(stack[s], f)
<1>1. stack[s] \in Seq(Activation) /\ stack[s] # <<>>
      /\ Len(stack[s]) \in Nat /\ Len(stack[s]) >= 1
    BY TopIs
<1>2. /\ Len(r) = Len(stack[s]) /\ r[Len(stack[s])] = f
      /\ \A k \in 1 .. Len(stack[s]) - 1 : r[k] = stack[s][k]
    <2>1. ASSUME NEW st \in Seq(Activation), st # <<>>
          PROVE  /\ Len(Replaced(st, f)) = Len(st) /\ Replaced(st, f)[Len(st)] = f
                 /\ \A k \in 1 .. Len(st) - 1 : Replaced(st, f)[k] = st[k]
        BY <2>1, ReplacedIs
    <2> QED
        BY <1>1, <2>1
<1>3. stack' = [stack EXCEPT ![s] = r] /\ stack \in [Session -> Seq(Activation)]
    BY DEF Become, Below, Replaced, TypedInv, Fields
<1> HIDE DEF r
<1>4. stack'[s] = r /\ Alike(s)
    BY <1>3 DEF Alike
<1> QED
    BY <1>1, <1>2, <1>4 DEF Kept, Top

LEMMA CallIs ==
    ASSUME TypedInv, NEW s \in Session, NEW f \in Activation, Call(s, f)
    PROVE  /\ Alike(s) /\ Kept(s, Len(stack[s]))
           /\ Len(stack'[s]) = Len(stack[s]) + 1
           /\ stack'[s][Len(stack[s]) + 1] = f /\ Top(s)' = f
<1> DEFINE r == Append(stack[s], f)
<1>1. stack[s] \in Seq(Activation) /\ Len(stack[s]) \in Nat
    BY TopIs
<1>2. /\ Len(r) = Len(stack[s]) + 1 /\ r[Len(stack[s]) + 1] = f
      /\ \A k \in 1 .. Len(stack[s]) : r[k] = stack[s][k]
    BY <1>1, PushedIs
<1>3. stack' = [stack EXCEPT ![s] = r] /\ stack \in [Session -> Seq(Activation)]
    BY DEF Call, TypedInv, Fields
<1> HIDE DEF r
<1>4. stack'[s] = r /\ Alike(s)
    BY <1>3 DEF Alike
<1> QED
    BY <1>1, <1>2, <1>4 DEF Kept, Top

LEMMA ReturnIs ==
    ASSUME TypedInv, NEW s \in Session, Return(s), Len(stack[s]) > 1
    PROVE  /\ Alike(s) /\ Kept(s, Len(stack[s]) - 1)
           /\ Len(stack'[s]) = Len(stack[s]) - 1
           /\ Top(s)'.at # "read"
<1> DEFINE r == Shortened(stack[s])
<1>1. stack[s] \in Seq(Activation) /\ stack[s] # <<>> /\ Len(stack[s]) \in Nat
    BY TopIs
<1>2. /\ Len(r) = Len(stack[s]) - 1
      /\ \A k \in 1 .. Len(stack[s]) - 1 : r[k] = stack[s][k]
    BY <1>1, ShortenedIs, Zenon
<1>3. stack' = [stack EXCEPT ![s] = r] /\ stack \in [Session -> Seq(Activation)]
    BY DEF Return, Below, Shortened, TypedInv, Fields
<1> HIDE DEF r
<1>4. stack'[s] = r /\ Alike(s)
    BY <1>3 DEF Alike
<1>5. Len(r) \in 1 .. Len(stack[s]) - 1
    BY <1>1, <1>2
<1>6. Top(s)' = stack[s][Len(stack[s]) - 1]
    BY <1>2, <1>4, <1>5 DEF Top
<1>7. Top(s)'.at # "read"
    BY <1>6, Uncovers DEF TypedInv, Stacked, Formed
<1> QED
    BY <1>1, <1>2, <1>4, <1>7 DEF Kept

LEMMA AnswerIs ==
    ASSUME TypedInv, NEW s \in Session, NEW f \in Activation, NEW e \in Activation,
           stack' = [stack EXCEPT ![s] = Below(s) \o <<f, e>>]
    PROVE  /\ Alike(s) /\ Kept(s, Len(stack[s]) - 1)
           /\ Len(stack'[s]) = Len(stack[s]) + 1
           /\ stack'[s][Len(stack[s])] = f /\ stack'[s][Len(stack[s]) + 1] = e
           /\ Top(s)' = e
<1> DEFINE r == Doubled(stack[s], f, e)
<1>1. stack[s] \in Seq(Activation) /\ stack[s] # <<>>
      /\ Len(stack[s]) \in Nat /\ Len(stack[s]) >= 1
    BY TopIs
<1>2. /\ Len(r) = Len(stack[s]) + 1 /\ r[Len(stack[s])] = f /\ r[Len(stack[s]) + 1] = e
      /\ \A k \in 1 .. Len(stack[s]) - 1 : r[k] = stack[s][k]
    <2>1. ASSUME NEW st \in Seq(Activation), st # <<>>
          PROVE  /\ Len(Doubled(st, f, e)) = Len(st) + 1
                 /\ Doubled(st, f, e)[Len(st)] = f /\ Doubled(st, f, e)[Len(st) + 1] = e
                 /\ \A k \in 1 .. Len(st) - 1 : Doubled(st, f, e)[k] = st[k]
        BY <2>1, DoubledIs
    <2> QED
        BY <1>1, <2>1
<1>3. stack' = [stack EXCEPT ![s] = r] /\ stack \in [Session -> Seq(Activation)]
    BY DEF Below, Doubled, TypedInv, Fields
<1> HIDE DEF r
<1>4. stack'[s] = r /\ Alike(s)
    BY <1>3 DEF Alike
<1> QED
    BY <1>1, <1>2, <1>4 DEF Kept, Top

LEMMA SomeKept ==
    ASSUME TypedInv, NEW s \in Session, NEW X, Some(s, X),
           Kept(s, Len(stack[s])) \/ (Kept(s, Len(stack[s]) - 1) /\ Top(s).at \notin X)
    PROVE  Some(s, X)'
<1>1. Len(stack[s]) \in Nat /\ Top(s) = stack[s][Len(stack[s])] /\ Len(stack'[s]) >= 0
    BY TopIs DEF Kept
<1>2. PICK k \in 1 .. Len(stack[s]) : stack[s][k].at \in X
    BY DEF Some
<1>3. CASE Kept(s, Len(stack[s]))
    BY <1>2, <1>3 DEF Kept, Some
<1>4. CASE Kept(s, Len(stack[s]) - 1) /\ Top(s).at \notin X
    <2>1. k # Len(stack[s])
        BY <1>1, <1>2, <1>4
    <2>2. k \in 1 .. Len(stack[s]) - 1
        BY <1>1, <2>1
    <2> QED
        <3>1. k \in 1 .. Len(stack'[s])
            BY <1>1, <1>4, <2>2 DEF Kept
        <3>2. stack'[s][k] = stack[s][k]
            BY <1>4, <2>2 DEF Kept
        <3> QED
            BY <1>2, <3>1, <3>2 DEF Some
<1> QED
    BY <1>3, <1>4
\* What most steps of s leave alone.
Still(s) ==
    /\ UNCHANGED mail /\ pending' = pending /\ told' = told /\ shown \subseteq shown'
    /\ cleared \subseteq cleared' /\ Aside(s)
    /\ \A t \in Session \ {s} : RMSG'[t] = RMSG[t]

LEMMA NewestKeeps ==
    ASSUME NEW s, UNCHANGED mail, told' \subseteq told
    PROVE  Newest(s)' \subseteq Newest(s) /\ msgfile(s)' = msgfile(s)
<1>1. file' = file /\ from' = from /\ to' = to
    BY DEF mail
<1>2. msgfile(s)' = msgfile(s)
    BY <1>1 DEF msgfile
<1> QED
    BY <1>1, <1>2 DEF Newest

\* Of the others, and of s when it has nothing to do with the counts.
LEMMA OwedAside ==
    ASSUME TypedInv, NEW s \in Session, Still(s), Alike(s), ShowInv,
           NEW t \in Session \ {s}
    PROVE  Owed(t)' /\ Marked(t)'
<1>1. Newest(t)' \subseteq Newest(t) /\ msgfile(t)' = msgfile(t)
    BY NewestKeeps DEF Still
<1>2. /\ stack'[t] = stack[t] /\ msg_num'[t] = msg_num[t] /\ pending'[t] = pending[t]
      /\ RMSG'[t] = RMSG[t] /\ shown \subseteq shown' /\ cleared \subseteq cleared'
    BY DEF Still, Alike, Aside
<1>3. Entering(t) => Entering(t)'
    BY <1>2 DEF Entering, Some
<1>4. Counted(t) => Counted(t)'
    BY <1>1, <1>2 DEF Counted, At, Top
<1>5. Owed(t)'
    BY <1>1, <1>2, <1>3, <1>4 DEF Owed, ShowInv
<1>6. Marked(t)'
    BY <1>2 DEF Marked, Remembers, Some, Showing, ShowInv
<1> QED
    BY <1>5, <1>6

LEMMA OwedStill ==
    ASSUME TypedInv, NEW s \in Session, Still(s), ShowInv,
           Kept(s, Len(stack[s])) \/ (Kept(s, Len(stack[s]) - 1) /\ Top(s).at # "enter"),
           Top(s)'.at # "read", msg_num[s] > 0 => msg_num'[s] > 0
    PROVE  Owed(s)'
<1>1. Newest(s)' \subseteq Newest(s) /\ shown \subseteq shown' /\ pending' = pending
    BY NewestKeeps DEF Still
<1>2. Entering(s) => Entering(s)'
    <2>1. SUFFICES ASSUME Some(s, {"enter"}) PROVE Some(s, {"enter"})'
        BY DEF Entering
    <2>2. Top(s).at # "enter" => Top(s).at \notin {"enter"}
        OBVIOUS
    <2> QED
        BY <2>1, <2>2, SomeKept
<1>3. Counted(s) => Counted(s)'
    BY DEF Counted, At
<1> QED
    BY <1>1, <1>2, <1>3 DEF Owed, ShowInv

\* The mark stays with a top that goes on, where it remembers no more than it did.
LEMMA MarkedMove ==
    ASSUME TypedInv, NEW s \in Session, NEW f \in Activation, Become(s, f), Marked(s),
           s \notin cleared' => s \notin cleared,
           s \notin cleared' /\ f.premsg =>
               \/ Top(s).premsg
               \/ \E j \in 1 .. Len(stack[s]) - 1 : stack[s][j].at = "restore",
           RMSG'[s] => \/ f.at \in Showing(s)
                       \/ RMSG[s] /\ Top(s).at \notin Showing(s)
    PROVE  Marked(s)'
<1>1. SUFFICES ASSUME s \notin cleared'
               PROVE  (RMSG'[s] => Some(s, Showing(s))') /\ Remembers(s)'
    BY DEF Marked, Showing
<1>2. (RMSG[s] => Some(s, Showing(s))) /\ Remembers(s)
    BY <1>1 DEF Marked
<1>3. /\ Kept(s, Len(stack[s]) - 1) /\ Len(stack'[s]) = Len(stack[s])
      /\ stack'[s][Len(stack[s])] = f
    BY BecomeIs
<1>4. /\ Len(stack[s]) \in Nat /\ Len(stack[s]) \in 1 .. Len(stack[s])
      /\ Top(s) = stack[s][Len(stack[s])]
    BY TopIs
<1>5. RMSG'[s] => Some(s, Showing(s))'
    <2>1. CASE f.at \in Showing(s)
        BY <1>3, <1>4, <2>1 DEF Some, Showing
    <2>2. CASE RMSG[s] /\ Top(s).at \notin Showing(s)
        <3> DEFINE X == Showing(s)
        <3>1. Some(s, X) /\ Top(s).at \notin X
            BY <1>2, <2>2
        <3> HIDE DEF X
        <3>2. Some(s, X)'
            BY <1>3, <3>1, SomeKept
        <3> QED
            BY <3>2 DEF X, Showing
    <2> QED
        BY <2>1, <2>2
<1>6. Remembers(s)'
    <2>1. SUFFICES ASSUME NEW k \in 1 .. Len(stack[s]), stack'[s][k].premsg
                   PROVE  \E j \in 1 .. k - 1 : stack'[s][j].at = "restore"
        BY <1>3 DEF Remembers
    <2>2. \E j \in 1 .. k - 1 : stack[s][j].at = "restore"
        <3>1. CASE k = Len(stack[s])
            <4>1. f.premsg
                BY <1>3, <2>1, <3>1
            <4>2. CASE Top(s).premsg
                BY <1>2, <1>4, <3>1, <4>2 DEF Remembers
            <4> QED
                BY <1>1, <3>1, <4>1, <4>2
        <3>2. CASE k # Len(stack[s])
            <4>1. k \in 1 .. Len(stack[s]) - 1
                BY <1>4, <3>2
            <4>2. stack[s][k].premsg
                BY <1>3, <2>1, <4>1 DEF Kept
            <4> QED
                BY <1>2, <4>2 DEF Remembers
        <3> QED
            BY <3>1, <3>2
    <2>3. PICK j \in 1 .. k - 1 : stack[s][j].at = "restore"
        BY <2>2
    <2>4. j \in 1 .. Len(stack[s]) - 1
        BY <1>4, <2>3
    <2> QED
        BY <1>3, <2>3, <2>4 DEF Kept
<1> QED
    BY <1>5, <1>6

LEMMA MarkedCall ==
    ASSUME TypedInv, NEW s \in Session, NEW f \in Activation, Call(s, f), Marked(s),
           cleared' = cleared, ~f.premsg, RMSG' = RMSG
    PROVE  Marked(s)'
<1>1. SUFFICES ASSUME s \notin cleared
               PROVE  (RMSG[s] => Some(s, Showing(s))') /\ Remembers(s)'
    BY DEF Marked, Showing
<1>2. (RMSG[s] => Some(s, Showing(s))) /\ Remembers(s)
    BY <1>1 DEF Marked
<1>3. /\ Kept(s, Len(stack[s])) /\ Len(stack'[s]) = Len(stack[s]) + 1
      /\ stack'[s][Len(stack[s]) + 1] = f /\ Len(stack[s]) \in Nat
    BY CallIs, TopIs
<1>4. RMSG[s] => Some(s, Showing(s))'
    <2> DEFINE X == Showing(s)
    <2>1. RMSG[s] => Some(s, X)
        BY <1>2
    <2> HIDE DEF X
    <2>2. RMSG[s] => Some(s, X)'
        BY <1>3, <2>1, SomeKept
    <2> QED
        BY <2>2 DEF X, Showing
<1>5. Remembers(s)'
    <2>1. SUFFICES ASSUME NEW k \in 1 .. Len(stack[s]) + 1, stack'[s][k].premsg
                   PROVE  \E j \in 1 .. k - 1 : stack'[s][j].at = "restore"
        BY <1>3 DEF Remembers
    <2>2. k \in 1 .. Len(stack[s])
        <3>1. k # Len(stack[s]) + 1
            BY <1>3, <2>1
        <3> QED
            BY <1>3, <3>1
    <2>3. stack[s][k].premsg
        BY <1>3, <2>1, <2>2 DEF Kept
    <2>4. PICK j \in 1 .. k - 1 : stack[s][j].at = "restore"
        BY <1>2, <2>2, <2>3 DEF Remembers
    <2>5. j \in 1 .. Len(stack[s])
        BY <1>3, <2>2, <2>4
    <2> QED
        BY <1>3, <2>4, <2>5 DEF Kept
<1> QED
    BY <1>4, <1>5

LEMMA MarkedReturn ==
    ASSUME TypedInv, NEW s \in Session, Return(s), Len(stack[s]) > 1, Marked(s),
           s \notin cleared' => s \notin cleared,
           s \notin cleared' /\ RMSG'[s] =>
               \/ RMSG[s] /\ Top(s).at \notin Showing(s)
               \/ Top(s).premsg /\ s \in GetKey
    PROVE  Marked(s)'
<1>1. SUFFICES ASSUME s \notin cleared'
               PROVE  (RMSG'[s] => Some(s, Showing(s))') /\ Remembers(s)'
    BY DEF Marked, Showing
<1>2. (RMSG[s] => Some(s, Showing(s))) /\ Remembers(s)
    BY <1>1 DEF Marked
<1>3. /\ Kept(s, Len(stack[s]) - 1) /\ Len(stack'[s]) = Len(stack[s]) - 1
    BY ReturnIs
<1>4. /\ Len(stack[s]) \in Nat /\ Len(stack[s]) \in 1 .. Len(stack[s])
      /\ Top(s) = stack[s][Len(stack[s])]
    BY TopIs
<1>5. RMSG'[s] => Some(s, Showing(s))'
    <2>1. CASE RMSG[s] /\ Top(s).at \notin Showing(s)
        <3> DEFINE X == Showing(s)
        <3>1. Some(s, X) /\ Top(s).at \notin X
            BY <1>2, <2>1
        <3> HIDE DEF X
        <3>2. Some(s, X)'
            BY <1>3, <3>1, SomeKept
        <3> QED
            BY <3>2 DEF X, Showing
    <2>2. CASE Top(s).premsg /\ s \in GetKey
        <3>1. PICK j \in 1 .. Len(stack[s]) - 1 : stack[s][j].at = "restore"
            BY <1>2, <1>4, <2>2 DEF Remembers
        <3>2. stack'[s][j].at = "restore"
            BY <1>3, <3>1 DEF Kept
        <3> QED
            BY <1>3, <2>2, <3>1, <3>2 DEF Some, Showing
    <2> QED
        BY <1>1, <2>1, <2>2
<1>6. Remembers(s)'
    <2>1. SUFFICES ASSUME NEW k \in 1 .. Len(stack[s]) - 1, stack'[s][k].premsg
                   PROVE  \E j \in 1 .. k - 1 : stack'[s][j].at = "restore"
        BY <1>3 DEF Remembers
    <2>2. stack[s][k].premsg /\ k \in 1 .. Len(stack[s])
        BY <1>3, <1>4, <2>1 DEF Kept
    <2>3. PICK j \in 1 .. k - 1 : stack[s][j].at = "restore"
        BY <1>2, <2>2 DEF Remembers
    <2>4. j \in 1 .. Len(stack[s]) - 1
        BY <1>4, <2>1, <2>3
    <2> QED
        BY <1>3, <2>3, <2>4 DEF Kept
<1> QED
    BY <1>5, <1>6

LEMMA MarkedAnswer ==
    ASSUME TypedInv, NEW s \in Session, NEW f \in Activation, NEW e \in Activation,
           stack' = [stack EXCEPT ![s] = Below(s) \o <<f, e>>],
           Marked(s), cleared' = cleared, RMSG' = RMSG,
           f.premsg => Top(s).premsg, ~e.premsg,
           Top(s).at \in Showing(s) => f.at \in Showing(s)
    PROVE  Marked(s)'
<1>1. SUFFICES ASSUME s \notin cleared
               PROVE  (RMSG[s] => Some(s, Showing(s))') /\ Remembers(s)'
    BY DEF Marked, Showing
<1>2. (RMSG[s] => Some(s, Showing(s))) /\ Remembers(s)
    BY <1>1 DEF Marked
<1>3. /\ Kept(s, Len(stack[s]) - 1) /\ Len(stack'[s]) = Len(stack[s]) + 1
      /\ stack'[s][Len(stack[s])] = f /\ stack'[s][Len(stack[s]) + 1] = e
    BY AnswerIs
<1>4. /\ Len(stack[s]) \in Nat /\ Len(stack[s]) \in 1 .. Len(stack[s])
      /\ Top(s) = stack[s][Len(stack[s])]
    BY TopIs
<1>5. RMSG[s] => Some(s, Showing(s))'
    <2>1. CASE Top(s).at \in Showing(s)
        <3>1. Len(stack[s]) \in 1 .. Len(stack'[s])
            BY <1>3, <1>4
        <3> QED
            BY <1>3, <2>1, <3>1 DEF Some, Showing
    <2>2. CASE Top(s).at \notin Showing(s)
        <3> DEFINE X == Showing(s)
        <3>1. RMSG[s] => Some(s, X) /\ Top(s).at \notin X
            BY <1>2, <2>2
        <3> HIDE DEF X
        <3>2. RMSG[s] => Some(s, X)'
            BY <1>3, <3>1, SomeKept
        <3> QED
            BY <3>2 DEF X, Showing
    <2> QED
        BY <2>1, <2>2
<1>6. Remembers(s)'
    <2>1. SUFFICES ASSUME NEW k \in 1 .. Len(stack[s]) + 1, stack'[s][k].premsg
                   PROVE  \E j \in 1 .. k - 1 : stack'[s][j].at = "restore"
        BY <1>3 DEF Remembers
    <2>2. k \in 1 .. Len(stack[s])
        <3>1. k # Len(stack[s]) + 1
            BY <1>3, <2>1
        <3> QED
            BY <1>4, <3>1
    <2>3. stack[s][k].premsg
        <3>1. CASE k = Len(stack[s])
            BY <1>3, <1>4, <2>1, <3>1
        <3>2. CASE k # Len(stack[s])
            <4>1. k \in 1 .. Len(stack[s]) - 1
                BY <1>4, <2>2, <3>2
            <4> QED
                BY <1>3, <2>1, <4>1 DEF Kept
        <3> QED
            BY <3>1, <3>2
    <2>4. PICK j \in 1 .. k - 1 : stack[s][j].at = "restore"
        BY <1>2, <2>2, <2>3 DEF Remembers
    <2>5. j \in 1 .. Len(stack[s]) - 1
        BY <1>4, <2>2, <2>4
    <2> QED
        BY <1>3, <2>4, <2>5 DEF Kept
<1> QED
    BY <1>5, <1>6
-----------------------------------------------------------------------------
(* The steps again, for what is shown and marked. *)
LEMMA KeyShows ==
    ASSUME TypedInv, ShowInv, NEW s \in Session, Key(s)
    PROVE  ShowInv'
<1> DEFINE f == [Top(s) EXCEPT !.at = "loop"]
<1>1. f \in Activation /\ f.at = "loop" /\ f.premsg = Top(s).premsg /\ Become(s, f)
    <2>1. Top(s) \in Activation
        BY TopIs
    <2>2. f \in Activation /\ f.at = "loop" /\ f.premsg = Top(s).premsg
        <3>1. "loop" \in Places
            BY DEF Places
        <3> QED
            BY <2>1, <3>1, FrameIs
    <2>3. Become(s, f)
        BY DEF Key, Goto
    <2> QED
        BY <2>2, <2>3
<1> HIDE DEF f
<1>2. Still(s) /\ msg_num' = msg_num
    BY DEF Key, mail, signals, globals, ghosts, Handle, Still, Aside, TypedInv, Fields
<1>3. Owed(s)'
    BY <1>1, <1>2, BecomeIs, OwedStill DEF Key, At
<1>4. Marked(s)'
    <2>1. RMSG'[s] => f.at \in Showing(s) \/ (RMSG[s] /\ Top(s).at \notin Showing(s))
        BY <1>1 DEF Key, At, globals, Showing
    <2> QED
        BY <1>1, <1>2, <2>1, MarkedMove DEF Still, ShowInv
<1> QED
    BY <1>1, <1>2, <1>3, <1>4, BecomeIs, OwedAside DEF ShowInv

LEMMA InstallShows ==
    ASSUME TypedInv, ShowInv, NEW s \in Session, Install(s)
    PROVE  ShowInv'
<1> DEFINE f == [Top(s) EXCEPT !.at = "restore"]
<1>1. f \in Activation /\ f.at = "restore" /\ f.premsg = Top(s).premsg /\ Become(s, f)
    <2>1. Top(s) \in Activation
        BY TopIs
    <2>2. f \in Activation /\ f.at = "restore" /\ f.premsg = Top(s).premsg
        <3>1. "restore" \in Places
            BY DEF Places
        <3> QED
            BY <2>1, <3>1, FrameIs
    <2>3. Become(s, f)
        BY DEF Install, Goto
    <2> QED
        BY <2>2, <2>3
<1> HIDE DEF f
<1>2. Still(s) /\ msg_num' = msg_num
    BY DEF Install, mail, signals, globals, ghosts, Handle, Still, Aside, TypedInv, Fields
<1>3. Owed(s)'
    BY <1>1, <1>2, BecomeIs, OwedStill DEF Install, At
<1>4. Marked(s)'
    <2>1. RMSG'[s] => f.at \in Showing(s) \/ (RMSG[s] /\ Top(s).at \notin Showing(s))
        BY <1>1 DEF Install, At, globals, Showing
    <2> QED
        BY <1>1, <1>2, <2>1, MarkedMove DEF Still, ShowInv
<1> QED
    BY <1>1, <1>2, <1>3, <1>4, BecomeIs, OwedAside DEF ShowInv

LEMMA BrowsingShows ==
    ASSUME TypedInv, ShowInv, NEW s \in Session, Browsing(s)
    PROVE  ShowInv'
<1> DEFINE f == [Top(s) EXCEPT !.at = "look"]
<1>1. f \in Activation /\ f.at = "look" /\ f.premsg = Top(s).premsg /\ Become(s, f)
    <2>1. Top(s) \in Activation
        BY TopIs
    <2>2. f \in Activation /\ f.at = "look" /\ f.premsg = Top(s).premsg
        <3>1. "look" \in Places
            BY DEF Places
        <3> QED
            BY <2>1, <3>1, FrameIs
    <2>3. Become(s, f)
        BY DEF Browsing, Goto
    <2> QED
        BY <2>2, <2>3
<1> HIDE DEF f
<1>2. Still(s) /\ msg_num' = msg_num
    BY DEF Browsing, mail, signals, globals, ghosts, Handle, Still, Aside, TypedInv, Fields
<1>3. Owed(s)'
    BY <1>1, <1>2, BecomeIs, OwedStill DEF Browsing, At
<1>4. Marked(s)'
    <2>1. RMSG'[s] => f.at \in Showing(s) \/ (RMSG[s] /\ Top(s).at \notin Showing(s))
        BY <1>1 DEF Browsing, At, globals, Showing
    <2> QED
        BY <1>1, <1>2, <2>1, MarkedMove DEF Still, ShowInv
<1> QED
    BY <1>1, <1>2, <1>3, <1>4, BecomeIs, OwedAside DEF ShowInv

LEMMA ComposeShows ==
    ASSUME TypedInv, ShowInv, NEW s \in Session, Compose(s)
    PROVE  ShowInv'
<1> DEFINE f == [Top(s) EXCEPT !.at = "append"]
<1>1. f \in Activation /\ f.at = "append" /\ f.premsg = Top(s).premsg /\ Become(s, f)
    <2>1. Top(s) \in Activation
        BY TopIs
    <2>2. f \in Activation /\ f.at = "append" /\ f.premsg = Top(s).premsg
        <3>1. "append" \in Places
            BY DEF Places
        <3> QED
            BY <2>1, <3>1, FrameIs
    <2>3. Become(s, f)
        BY DEF Compose, Goto
    <2> QED
        BY <2>2, <2>3
<1> HIDE DEF f
<1>2. Still(s) /\ msg_num' = msg_num
    BY DEF Compose, mail, signals, globals, ghosts, Handle, Still, Aside, TypedInv, Fields
<1>3. Owed(s)'
    BY <1>1, <1>2, BecomeIs, OwedStill DEF Compose, At
<1>4. Marked(s)'
    <2>1. RMSG'[s] => f.at \in Showing(s) \/ (RMSG[s] /\ Top(s).at \notin Showing(s))
        BY <1>1 DEF Compose, At, globals, Showing
    <2> QED
        BY <1>1, <1>2, <2>1, MarkedMove DEF Still, ShowInv
<1> QED
    BY <1>1, <1>2, <1>3, <1>4, BecomeIs, OwedAside DEF ShowInv

LEMMA StartedShows ==
    ASSUME TypedInv, ShowInv, NEW s \in Session, Started(s)
    PROVE  ShowInv'
<1> DEFINE f == [Top(s) EXCEPT !.at = "away"]
<1>1. f \in Activation /\ f.at = "away" /\ f.premsg = Top(s).premsg /\ Become(s, f)
    <2>1. Top(s) \in Activation
        BY TopIs
    <2>2. f \in Activation /\ f.at = "away" /\ f.premsg = Top(s).premsg
        <3>1. "away" \in Places
            BY DEF Places
        <3> QED
            BY <2>1, <3>1, FrameIs
    <2>3. Become(s, f)
        BY DEF Started, Goto
    <2> QED
        BY <2>2, <2>3
<1> HIDE DEF f
<1>2. Still(s) /\ msg_num' = msg_num
    BY DEF Started, mail, signals, globals, ghosts, Handle, Still, Aside, TypedInv, Fields
<1>3. Owed(s)'
    BY <1>1, <1>2, BecomeIs, OwedStill DEF Started, At
<1>4. Marked(s)'
    <2>1. RMSG'[s] => f.at \in Showing(s) \/ (RMSG[s] /\ Top(s).at \notin Showing(s))
        BY <1>1 DEF Started, At, globals, Showing
    <2> QED
        BY <1>1, <1>2, <2>1, MarkedMove DEF Still, ShowInv
<1> QED
    BY <1>1, <1>2, <1>3, <1>4, BecomeIs, OwedAside DEF ShowInv

LEMMA ReturnedShows ==
    ASSUME TypedInv, ShowInv, NEW s \in Session, Returned(s)
    PROVE  ShowInv'
<1> DEFINE f == [Top(s) EXCEPT !.at = "back"]
<1>1. f \in Activation /\ f.at = "back" /\ f.premsg = Top(s).premsg /\ Become(s, f)
    <2>1. Top(s) \in Activation
        BY TopIs
    <2>2. f \in Activation /\ f.at = "back" /\ f.premsg = Top(s).premsg
        <3>1. "back" \in Places
            BY DEF Places
        <3> QED
            BY <2>1, <3>1, FrameIs
    <2>3. Become(s, f)
        BY DEF Returned, Goto
    <2> QED
        BY <2>2, <2>3
<1> HIDE DEF f
<1>2. Still(s) /\ msg_num' = msg_num
    BY DEF Returned, mail, signals, globals, ghosts, Handle, Still, Aside, TypedInv, Fields
<1>3. Owed(s)'
    BY <1>1, <1>2, BecomeIs, OwedStill DEF Returned, At
<1>4. Marked(s)'
    <2>1. RMSG'[s] => f.at \in Showing(s) \/ (RMSG[s] /\ Top(s).at \notin Showing(s))
        BY <1>1 DEF Returned, At, globals, Showing
    <2> QED
        BY <1>1, <1>2, <2>1, MarkedMove DEF Still, ShowInv
<1> QED
    BY <1>1, <1>2, <1>3, <1>4, BecomeIs, OwedAside DEF ShowInv

LEMMA BackShows ==
    ASSUME TypedInv, ShowInv, NEW s \in Session, Back(s)
    PROVE  ShowInv'
<1> DEFINE f == [Top(s) EXCEPT !.at = "main"]
<1>1. f \in Activation /\ f.at = "main" /\ f.premsg = Top(s).premsg /\ Become(s, f)
    <2>1. Top(s) \in Activation
        BY TopIs
    <2>2. f \in Activation /\ f.at = "main" /\ f.premsg = Top(s).premsg
        <3>1. "main" \in Places
            BY DEF Places
        <3> QED
            BY <2>1, <3>1, FrameIs
    <2>3. Become(s, f)
        BY DEF Back, Goto
    <2> QED
        BY <2>2, <2>3
<1> HIDE DEF f
<1>2. Still(s) /\ msg_num' = msg_num
    BY DEF Back, mail, signals, globals, ghosts, Handle, Still, Aside, TypedInv, Fields
<1>3. Owed(s)'
    BY <1>1, <1>2, BecomeIs, OwedStill DEF Back, At
<1>4. Marked(s)'
    <2>1. RMSG'[s] => f.at \in Showing(s) \/ (RMSG[s] /\ Top(s).at \notin Showing(s))
        BY <1>1 DEF Back, At, globals, Showing
    <2> QED
        BY <1>1, <1>2, <2>1, MarkedMove DEF Still, ShowInv
<1> QED
    BY <1>1, <1>2, <1>3, <1>4, BecomeIs, OwedAside DEF ShowInv

LEMMA LockShows ==
    ASSUME TypedInv, ShowInv, NEW s \in Session, Lock(s)
    PROVE  ShowInv'
<1> DEFINE f == [Top(s) EXCEPT !.at = "locked"]
<1>1. f \in Activation /\ f.at = "locked" /\ f.premsg = Top(s).premsg /\ Become(s, f)
    <2>1. Top(s) \in Activation
        BY TopIs
    <2>2. f \in Activation /\ f.at = "locked" /\ f.premsg = Top(s).premsg
        <3>1. "locked" \in Places
            BY DEF Places
        <3> QED
            BY <2>1, <3>1, FrameIs
    <2>3. Become(s, f)
        BY DEF Lock, Goto
    <2> QED
        BY <2>2, <2>3
<1> HIDE DEF f
<1>2. Still(s) /\ msg_num' = msg_num
    BY DEF Lock, mail, signals, globals, ghosts, Handle, Still, Aside, TypedInv, Fields
<1>3. Owed(s)'
    BY <1>1, <1>2, BecomeIs, OwedStill DEF Lock, At
<1>4. Marked(s)'
    <2>1. RMSG'[s] => f.at \in Showing(s) \/ (RMSG[s] /\ Top(s).at \notin Showing(s))
        BY <1>1 DEF Lock, At, globals, Showing
    <2> QED
        BY <1>1, <1>2, <2>1, MarkedMove DEF Still, ShowInv
<1> QED
    BY <1>1, <1>2, <1>3, <1>4, BecomeIs, OwedAside DEF ShowInv

LEMMA LeaveShows ==
    ASSUME TypedInv, ShowInv, NEW s \in Session, Leave(s)
    PROVE  ShowInv'
<1> DEFINE f == [Top(s) EXCEPT !.at = "gone"]
<1>1. f \in Activation /\ f.at = "gone" /\ f.premsg = Top(s).premsg /\ Become(s, f)
    <2>1. Top(s) \in Activation
        BY TopIs
    <2>2. f \in Activation /\ f.at = "gone" /\ f.premsg = Top(s).premsg
        <3>1. "gone" \in Places
            BY DEF Places
        <3> QED
            BY <2>1, <3>1, FrameIs
    <2>3. Become(s, f)
        BY DEF Leave, Goto
    <2> QED
        BY <2>2, <2>3
<1> HIDE DEF f
<1>2. Still(s) /\ msg_num' = msg_num
    BY DEF Leave, mail, signals, globals, ghosts, Handle, Still, Aside, TypedInv, Fields
<1>3. Owed(s)'
    BY <1>1, <1>2, BecomeIs, OwedStill DEF Leave, At
<1>4. Marked(s)'
    <2>1. RMSG'[s] => f.at \in Showing(s) \/ (RMSG[s] /\ Top(s).at \notin Showing(s))
        BY <1>1 DEF Leave, At, globals, Showing
    <2> QED
        BY <1>1, <1>2, <2>1, MarkedMove DEF Still, ShowInv
<1> QED
    BY <1>1, <1>2, <1>3, <1>4, BecomeIs, OwedAside DEF ShowInv

LEMMA MissingShows ==
    ASSUME TypedInv, ShowInv, NEW s \in Session, Missing(s)
    PROVE  ShowInv'
<1>1. Len(stack[s]) > 1
    <2>1. Len(stack[s]) # 1
        BY Disposed DEF Missing, At, Bases
    <2> QED
        BY <2>1, TopIs, OneOrMore, Zenon
<1>2. Still(s) /\ msg_num' = msg_num
    BY DEF Missing, mail, signals, globals, ghosts, Handle, Still, Aside, TypedInv, Fields
<1>3. Owed(s)'
    BY <1>1, <1>2, ReturnIs, OwedStill DEF Missing, At
<1>4. Marked(s)'
    <2>1. s \notin cleared' /\ RMSG'[s] =>
              \/ RMSG[s] /\ Top(s).at \notin Showing(s)
              \/ Top(s).premsg /\ s \in GetKey
        BY DEF Missing, At, globals, ghosts, Showing, TypedInv, Fields
    <2> QED
        BY <1>1, <1>2, <2>1, MarkedReturn DEF Missing, Still, ShowInv
<1> QED
    BY <1>1, <1>2, <1>3, <1>4, ReturnIs, OwedAside DEF Missing, ShowInv

LEMMA RestoreShows ==
    ASSUME TypedInv, ShowInv, NEW s \in Session, Restore(s)
    PROVE  ShowInv'
<1>1. Len(stack[s]) > 1
    <2>1. Len(stack[s]) # 1
        BY Disposed DEF Restore, At, Bases
    <2> QED
        BY <2>1, TopIs, OneOrMore, Zenon
<1>2. Still(s) /\ msg_num' = msg_num
    BY DEF Restore, mail, signals, globals, ghosts, Handle, Still, Aside, TypedInv, Fields
<1>3. Owed(s)'
    BY <1>1, <1>2, ReturnIs, OwedStill DEF Restore, At
<1>4. Marked(s)'
    <2>1. s \notin cleared' /\ RMSG'[s] =>
              \/ RMSG[s] /\ Top(s).at \notin Showing(s)
              \/ Top(s).premsg /\ s \in GetKey
        BY DEF Restore, At, globals, ghosts, Showing, TypedInv, Fields
    <2> QED
        BY <1>1, <1>2, <2>1, MarkedReturn DEF Restore, Still, ShowInv
<1> QED
    BY <1>1, <1>2, <1>3, <1>4, ReturnIs, OwedAside DEF Restore, ShowInv

LEMMA ResetShows ==
    ASSUME TypedInv, ShowInv, NEW s \in Session, Reset(s)
    PROVE  ShowInv'
<1>1. Len(stack[s]) > 1
    <2>1. Len(stack[s]) # 1
        BY Disposed DEF Reset, At, Bases
    <2> QED
        BY <2>1, TopIs, OneOrMore, Zenon
<1>2. Still(s) /\ msg_num' = msg_num
    BY DEF Reset, mail, signals, globals, ghosts, Handle, Still, Aside, TypedInv, Fields
<1>3. Owed(s)'
    BY <1>1, <1>2, ReturnIs, OwedStill DEF Reset, At
<1>4. Marked(s)'
    <2>1. s \notin cleared' /\ RMSG'[s] =>
              \/ RMSG[s] /\ Top(s).at \notin Showing(s)
              \/ Top(s).premsg /\ s \in GetKey
        BY DEF Reset, At, globals, ghosts, Showing, TypedInv, Fields
    <2> QED
        BY <1>1, <1>2, <2>1, MarkedReturn DEF Reset, Still, ShowInv
<1> QED
    BY <1>1, <1>2, <1>3, <1>4, ReturnIs, OwedAside DEF Reset, ShowInv

LEMMA CancelShows ==
    ASSUME TypedInv, ShowInv, NEW s \in Session, Cancel(s)
    PROVE  ShowInv'
<1>1. Len(stack[s]) > 1
    <2>1. Len(stack[s]) # 1
        BY Disposed DEF Cancel, At, Bases
    <2> QED
        BY <2>1, TopIs, OneOrMore, Zenon
<1>2. Still(s) /\ msg_num' = msg_num
    BY DEF Cancel, mail, signals, globals, ghosts, Handle, Still, Aside, TypedInv, Fields
<1>3. Owed(s)'
    BY <1>1, <1>2, ReturnIs, OwedStill DEF Cancel, At
<1>4. Marked(s)'
    <2>1. s \notin cleared' /\ RMSG'[s] =>
              \/ RMSG[s] /\ Top(s).at \notin Showing(s)
              \/ Top(s).premsg /\ s \in GetKey
        BY DEF Cancel, At, globals, ghosts, Showing, TypedInv, Fields
    <2> QED
        BY <1>1, <1>2, <2>1, MarkedReturn DEF Cancel, Still, ShowInv
<1> QED
    BY <1>1, <1>2, <1>3, <1>4, ReturnIs, OwedAside DEF Cancel, ShowInv

LEMMA OfflineShows ==
    ASSUME TypedInv, ShowInv, NEW s \in Session, Offline(s)
    PROVE  ShowInv'
<1>1. Len(stack[s]) > 1
    <2>1. Len(stack[s]) # 1
        BY Disposed DEF Offline, At, Bases
    <2> QED
        BY <2>1, TopIs, OneOrMore, Zenon
<1>2. Still(s) /\ msg_num' = msg_num
    BY DEF Offline, mail, signals, globals, ghosts, Handle, Still, Aside, TypedInv, Fields
<1>3. Owed(s)'
    BY <1>1, <1>2, ReturnIs, OwedStill DEF Offline, At
<1>4. Marked(s)'
    <2>1. s \notin cleared' /\ RMSG'[s] =>
              \/ RMSG[s] /\ Top(s).at \notin Showing(s)
              \/ Top(s).premsg /\ s \in GetKey
        BY DEF Offline, At, globals, ghosts, Showing, TypedInv, Fields
    <2> QED
        BY <1>1, <1>2, <2>1, MarkedReturn DEF Offline, Still, ShowInv
<1> QED
    BY <1>1, <1>2, <1>3, <1>4, ReturnIs, OwedAside DEF Offline, ShowInv

LEMMA KeepShows ==
    ASSUME TypedInv, ShowInv, NEW s \in Session, Keep(s)
    PROVE  ShowInv'
<1>1. Len(stack[s]) > 1
    <2>1. Len(stack[s]) # 1
        BY Disposed DEF Keep, At, Bases
    <2> QED
        BY <2>1, TopIs, OneOrMore, Zenon
<1>2. Still(s) /\ msg_num' = msg_num
    BY DEF Keep, mail, signals, globals, ghosts, Handle, Still, Aside, TypedInv, Fields
<1>3. Owed(s)'
    BY <1>1, <1>2, ReturnIs, OwedStill DEF Keep, At
<1>4. Marked(s)'
    <2>1. s \notin cleared' /\ RMSG'[s] =>
              \/ RMSG[s] /\ Top(s).at \notin Showing(s)
              \/ Top(s).premsg /\ s \in GetKey
        BY DEF Keep, At, globals, ghosts, Showing, TypedInv, Fields
    <2> QED
        BY <1>1, <1>2, <2>1, MarkedReturn DEF Keep, Still, ShowInv
<1> QED
    BY <1>1, <1>2, <1>3, <1>4, ReturnIs, OwedAside DEF Keep, ShowInv

LEMMA BrowseShows ==
    ASSUME TypedInv, ShowInv, NEW s \in Session, Browse(s)
    PROVE  ShowInv'
<1> DEFINE f == [Fresh("browse") EXCEPT !.i = Len(msgfile(s))]
<1>1. f \in Activation /\ f.at # "read" /\ ~f.premsg /\ Call(s, f)
    <2>1. Fresh("browse") \in Activation /\ Fresh("browse").at = "browse"
          /\ Fresh("browse").premsg = FALSE
        <3>1. "browse" \in Places
            BY DEF Places
        <3> QED
            BY <3>1, FreshIs
    <2>2. Len(msgfile(s)) \in 0 .. MaxMessages
        BY MsgFileIs
    <2>3. f \in Activation /\ f.at = "browse" /\ f.premsg = FALSE
        BY <2>1, <2>2 DEF Activation
    <2> QED
        BY <2>3 DEF Browse
<1> HIDE DEF f
<1>2. Still(s) /\ UNCHANGED <<globals, ghosts>>
    BY DEF Browse, mail, signals, globals, ghosts, Still, Aside, TypedInv, Fields
<1>3. Owed(s)'
    BY <1>1, <1>2, CallIs, OwedStill DEF globals
<1>4. Marked(s)'
    BY <1>1, <1>2, MarkedCall DEF globals, ghosts, ShowInv
<1> QED
    BY <1>1, <1>2, <1>3, <1>4, CallIs, OwedAside DEF ShowInv

LEMMA AddressShows ==
    ASSUME TypedInv, ShowInv, NEW s \in Session, NEW t \in Session, Address(s, t)
    PROVE  ShowInv'
<1> DEFINE f == [Fresh("compose") EXCEPT !.uin = t]
<1>1. f \in Activation /\ f.at # "read" /\ ~f.premsg /\ Call(s, f)
    <2>1. Fresh("compose") \in Activation /\ Fresh("compose").at = "compose"
          /\ Fresh("compose").premsg = FALSE
        <3>1. "compose" \in Places
            BY DEF Places
        <3> QED
            BY <3>1, FreshIs
    <2>2. f \in Activation /\ f.at = "compose" /\ f.premsg = FALSE
        BY <2>1 DEF Activation
    <2> QED
        BY <2>2 DEF Address
<1> HIDE DEF f
<1>2. Still(s) /\ UNCHANGED <<globals, ghosts>>
    BY DEF Address, mail, signals, globals, ghosts, Still, Aside, TypedInv, Fields
<1>3. Owed(s)'
    BY <1>1, <1>2, CallIs, OwedStill DEF globals
<1>4. Marked(s)'
    BY <1>1, <1>2, MarkedCall DEF globals, ghosts, ShowInv
<1> QED
    BY <1>1, <1>2, <1>3, <1>4, CallIs, OwedAside DEF ShowInv

LEMMA ViewShows ==
    ASSUME TypedInv, ShowInv, NEW s \in Session, View(s)
    PROVE  ShowInv'
<1> DEFINE f == Fresh("clear")
<1>1. f \in Activation /\ f.at # "read" /\ ~f.premsg /\ Call(s, f)
    BY FreshIs DEF View, Places
<1> HIDE DEF f
<1>2. Still(s) /\ UNCHANGED <<globals, ghosts>>
    BY DEF View, mail, signals, globals, ghosts, Still, Aside, TypedInv, Fields
<1>3. Owed(s)'
    BY <1>1, <1>2, CallIs, OwedStill DEF globals
<1>4. Marked(s)'
    BY <1>1, <1>2, MarkedCall DEF globals, ghosts, ShowInv
<1> QED
    BY <1>1, <1>2, <1>3, <1>4, CallIs, OwedAside DEF ShowInv

LEMMA ReplyShows ==
    ASSUME TypedInv, ShowInv, NEW s \in Session, NEW t \in Session, Reply(s, t)
    PROVE  ShowInv'
<1> DEFINE f == [Top(s) EXCEPT !.at = "loop"]
           e == [Fresh("append") EXCEPT !.uin = t]
<1>1. Top(s) \in Activation /\ Top(s).at = "key"
    BY TopIs DEF Reply, At
<1>2. f \in Activation /\ f.at = "loop" /\ (f.premsg => Top(s).premsg)
    <2>1. "loop" \in Places
        BY DEF Places
    <2> QED
        BY <1>1, <2>1, FrameIs
<1>3. e \in Activation /\ e.at = "append" /\ ~e.premsg
    <2>1. Fresh("append") \in Activation /\ Fresh("append").at = "append"
          /\ Fresh("append").premsg = FALSE
        <3>1. "append" \in Places
            BY DEF Places
        <3> QED
            BY <3>1, FreshIs
    <2>2. e \in Activation /\ e.at = "append" /\ e.premsg = FALSE
        BY <2>1 DEF Activation
    <2> QED
        BY <2>2
<1>4. stack' = [stack EXCEPT ![s] = Below(s) \o <<f, e>>]
    BY DEF Reply
<1> HIDE DEF f, e
<1>5. Still(s) /\ UNCHANGED <<globals, ghosts>>
    BY DEF Reply, mail, signals, globals, ghosts, Still, Aside, TypedInv, Fields
<1>6. Alike(s) /\ Kept(s, Len(stack[s]) - 1) /\ Top(s)' = e
    BY <1>2, <1>3, <1>4, AnswerIs
<1>7. Owed(s)'
    BY <1>1, <1>3, <1>5, <1>6, OwedStill DEF globals
<1>8. Marked(s)'
    <2>1. Top(s).at \in Showing(s) => f.at \in Showing(s)
        BY <1>1, <1>2 DEF Showing
    <2> QED
        BY <1>2, <1>3, <1>4, <1>5, <2>1, MarkedAnswer DEF globals, ghosts, ShowInv
<1> QED
    BY <1>5, <1>6, <1>7, <1>8, OwedAside DEF ShowInv

LEMMA AnswerShows ==
    ASSUME TypedInv, ShowInv, NEW s \in Session, NEW t \in Session, Answer(s, t)
    PROVE  ShowInv'
<1> DEFINE f == Fresh("close")
           e == [Fresh("append") EXCEPT !.uin = t]
<1>1. Top(s) \in Activation /\ Top(s).at = "choose"
    BY TopIs DEF Answer, At
<1>2. f \in Activation /\ f.at = "close" /\ (f.premsg => Top(s).premsg)
    <2>1. "close" \in Places
        BY DEF Places
    <2> QED
        BY <1>1, <2>1, FreshIs
<1>3. e \in Activation /\ e.at = "append" /\ ~e.premsg
    <2>1. Fresh("append") \in Activation /\ Fresh("append").at = "append"
          /\ Fresh("append").premsg = FALSE
        <3>1. "append" \in Places
            BY DEF Places
        <3> QED
            BY <3>1, FreshIs
    <2>2. e \in Activation /\ e.at = "append" /\ e.premsg = FALSE
        BY <2>1 DEF Activation
    <2> QED
        BY <2>2
<1>4. stack' = [stack EXCEPT ![s] = Below(s) \o <<f, e>>]
    BY DEF Answer
<1> HIDE DEF f, e
<1>5. Still(s) /\ UNCHANGED <<globals, ghosts>>
    BY DEF Answer, mail, signals, globals, ghosts, Still, Aside, TypedInv, Fields
<1>6. Alike(s) /\ Kept(s, Len(stack[s]) - 1) /\ Top(s)' = e
    BY <1>2, <1>3, <1>4, AnswerIs
<1>7. Owed(s)'
    BY <1>1, <1>3, <1>5, <1>6, OwedStill DEF globals
<1>8. Marked(s)'
    <2>1. Top(s).at \in Showing(s) => f.at \in Showing(s)
        BY <1>1, <1>2 DEF Showing
    <2> QED
        BY <1>2, <1>3, <1>4, <1>5, <2>1, MarkedAnswer DEF globals, ghosts, ShowInv
<1> QED
    BY <1>5, <1>6, <1>7, <1>8, OwedAside DEF ShowInv

LEMMA QuitShows ==
    ASSUME TypedInv, ShowInv, NEW s \in Session, Quit(s) \/ Vanished(s)
    PROVE  ShowInv'
<1>1. PICK q \in {"close", "enter", "reset"} : Become(s, Fresh(q)) /\ (Quit(s) => q = "close")
    BY DEF Quit, Vanished
<1>2. Fresh(q) \in Activation /\ Fresh(q).at = q /\ ~Fresh(q).premsg
    <2>1. q \in Places
        BY <1>1 DEF Places
    <2> QED
        BY <2>1, FreshIs
<1>3. Still(s) /\ msg_num' = msg_num
    <2>1. /\ UNCHANGED <<mail, pending, handler, msg_num, ghosts>>
          /\ \A t \in Session \ {s} : RMSG'[t] = RMSG[t]
        BY DEF Quit, Vanished, signals, globals, TypedInv, Fields
    <2> QED
        BY <2>1 DEF ghosts, Still, Aside
<1>4. Top(s).at \in {"choose", "look"}
    BY DEF Quit, Vanished, At
<1>5. Owed(s)'
    BY <1>1, <1>2, <1>3, <1>4, BecomeIs, OwedStill
<1>6. Marked(s)'
    <2>1. RMSG'[s] => q \in Showing(s)
        BY <1>1 DEF Quit, Vanished, Showing, TypedInv, Fields
    <2>2. cleared' = cleared
        BY DEF Quit, Vanished, ghosts
    <2> QED
        BY <1>1, <1>2, <2>1, <2>2, MarkedMove DEF ShowInv
<1> QED
    BY <1>1, <1>2, <1>3, <1>5, <1>6, BecomeIs, OwedAside DEF ShowInv

LEMMA LookShows ==
    ASSUME TypedInv, ShowInv, NEW s \in Session, Look(s)
    PROVE  ShowInv'
<1>1. Top(s) \in Activation /\ Local(Top(s), to) /\ Top(s).at = "look"
    BY TopIs DEF Look, At
<1>2. Top(s).i - Top(s).MsgNum \in Nat
    <2>1. /\ Top(s).i \in 0 .. MaxMessages /\ Top(s).MsgNum \in 0 .. MaxMessages
          /\ Top(s).MsgNum < Top(s).i
        BY <1>1 DEF Activation, Local
    <2> QED
        BY <2>1, BoundAssumption
<1>3. PICK m \in Buffer(s, Top(s).i - Top(s).MsgNum) :
          Shows(s, m) /\ Become(s, [Top(s) EXCEPT !.at = "choose", !.msg = m])
    BY DEF Look
<1>4. m \in 0 .. Len(to) /\ m \in 0 .. MaxMessages
    <2>1. m \in 0 .. Len(to)
        BY <1>2, BufferIs DEF Look
    <2> QED
        BY <2>1, MsgFileIs, BoundAssumption
<1> DEFINE f == [Top(s) EXCEPT !.at = "choose", !.msg = m]
<1>5. f \in Activation /\ f.at = "choose" /\ f.premsg = Top(s).premsg
    BY <1>1, <1>4 DEF Activation, Places
<1>6. Become(s, f)
    BY <1>3
<1> HIDE DEF f
<1>7. Still(s) /\ msg_num' = msg_num /\ cleared' = cleared
    <2>1. shown \subseteq shown'
        BY <1>3, <1>4, ShowsKeeps
    <2> QED
        BY <2>1 DEF Look, mail, signals, globals, Still, Aside
<1>8. Owed(s)'
    BY <1>1, <1>5, <1>6, <1>7, BecomeIs, OwedStill
<1>9. Marked(s)'
    <2>1. f.at \in Showing(s)
        BY <1>5 DEF Showing
    <2> QED
        BY <1>5, <1>6, <1>7, <2>1, MarkedMove DEF ShowInv
<1> QED
    BY <1>5, <1>6, <1>7, <1>8, <1>9, BecomeIs, OwedAside DEF ShowInv

LEMMA ChooseShows ==
    ASSUME TypedInv, ShowInv, NEW s \in Session, Choose(s)
    PROVE  ShowInv'
<1>1. Top(s) \in Activation /\ Local(Top(s), to) /\ Top(s).at = "choose"
    BY TopIs DEF Choose, At
<1>2. /\ Top(s).i \in 0 .. MaxMessages /\ Top(s).MsgNum \in 0 .. MaxMessages
      /\ Top(s).MsgNum < Top(s).i
    BY <1>1 DEF Activation, Local
<1>3. PICK next \in {(Top(s).MsgNum + 1) % Top(s).i,
                     (Top(s).MsgNum + Top(s).i - 1) % Top(s).i} :
          Become(s, [Top(s) EXCEPT !.at = "look", !.MsgNum = next])
    BY DEF Choose
<1>4. next \in 0 .. MaxMessages
    <2>1. Top(s).i \in Nat /\ Top(s).MsgNum \in Nat
        BY <1>2, BoundAssumption
    <2>2. next \in 0 .. Top(s).i - 1
        BY <1>2, <1>3, <2>1, Around
    <2> QED
        BY <1>2, <2>2, BoundAssumption
<1> DEFINE f == [Top(s) EXCEPT !.at = "look", !.MsgNum = next]
<1>5. f \in Activation /\ f.at = "look" /\ f.premsg = Top(s).premsg
    BY <1>1, <1>4 DEF Activation, Places
<1>6. Become(s, f)
    BY <1>3
<1> HIDE DEF f
<1>7. Still(s) /\ msg_num' = msg_num /\ cleared' = cleared
    BY DEF Choose, mail, signals, globals, ghosts, Still, Aside
<1>8. Owed(s)'
    BY <1>1, <1>5, <1>6, <1>7, BecomeIs, OwedStill
<1>9. Marked(s)'
    <2>1. f.at \in Showing(s)
        BY <1>5 DEF Showing
    <2> QED
        BY <1>5, <1>6, <1>7, <2>1, MarkedMove DEF ShowInv
<1> QED
    BY <1>5, <1>6, <1>7, <1>8, <1>9, BecomeIs, OwedAside DEF ShowInv

\* Left with something counted, the browser goes on as a handler.
LEMMA CloseShows ==
    ASSUME TypedInv, ShowInv, NEW s \in Session, Close(s)
    PROVE  ShowInv'
<1>1. PICK p \in {"enter", "reset"} : Goto(s, p) /\ (msg_num[s] > 0 => p = "enter")
    BY DEF Close
<1> DEFINE f == [Top(s) EXCEPT !.at = p]
<1>2. f \in Activation /\ f.at = p /\ f.premsg = Top(s).premsg /\ Become(s, f)
    <2>1. Top(s) \in Activation /\ p \in Places
        BY <1>1, TopIs DEF Places
    <2>2. f \in Activation /\ f.at = p /\ f.premsg = Top(s).premsg
        BY <2>1, FrameIs
    <2> QED
        BY <1>1, <2>2 DEF Goto
<1> HIDE DEF f
<1>3. Still(s) /\ cleared' = cleared /\ ~RMSG'[s]
    BY DEF Close, mail, signals, ghosts, Still, Aside, TypedInv, Fields
<1>4. Owed(s)'
    <2>1. CASE msg_num[s] > 0
        <3>1. Len(stack[s]) \in 1 .. Len(stack[s])
            BY TopIs
        <3>2. Some(s, {"enter"})'
            BY <1>1, <1>2, <2>1, <3>1, BecomeIs DEF Some
        <3> QED
            BY <3>2 DEF Owed, Entering
    <2>2. CASE ~(msg_num[s] > 0)
        BY <1>1, <1>2, <1>3, <2>2, BecomeIs, OwedStill DEF Close, At
    <2> QED
        BY <2>1, <2>2
<1>5. Marked(s)'
    BY <1>2, <1>3, MarkedMove DEF ShowInv
<1> QED
    BY <1>2, <1>3, <1>4, <1>5, BecomeIs, OwedAside DEF ShowInv

\* A display that finds the mark set interrupts one that has yet to put it back.
LEMMA EnterShows ==
    ASSUME TypedInv, ShowInv, NEW s \in Session, Enter(s)
    PROVE  ShowInv'
<1> DEFINE b == s \in GetKey /\ RMSG[s]
           f == [Top(s) EXCEPT !.at = "loop", !.premsg = b]
<1>1. Top(s) \in Activation /\ Top(s).at = "enter"
    BY TopIs DEF Enter, At
<1>2. b \in BOOLEAN
    BY DEF TypedInv, Fields
<1> HIDE DEF b
<1>3. f \in Activation /\ f.at = "loop" /\ f.premsg = b
    BY <1>1, <1>2 DEF Activation, Places
<1>4. Become(s, f)
    BY DEF Enter, b
<1> HIDE DEF f
<1>5. Still(s) /\ cleared' = cleared /\ RMSG' = RMSG /\ msg_num'[s] > 0
    BY DEF Enter, mail, ghosts, Handle, Still, Aside, TypedInv, Fields
<1>6. Owed(s)'
    <2>1. Top(s)' = f
        BY <1>3, <1>4, BecomeIs
    <2> QED
        BY <1>3, <1>5, <2>1 DEF Owed, Counted, At
<1>7. Marked(s)'
    <2>1. ASSUME s \notin cleared', f.premsg
          PROVE  \E j \in 1 .. Len(stack[s]) - 1 : stack[s][j].at = "restore"
        <3>1. RMSG[s] /\ s \notin cleared
            BY <1>3, <1>5, <2>1 DEF b
        <3>2. PICK k \in 1 .. Len(stack[s]) : stack[s][k].at \in Showing(s)
            BY <3>1 DEF ShowInv, Marked, Some
        <3>3. k \in 1 .. Len(stack[s]) - 1
            <4>1. stack[s][Len(stack[s])].at = "enter" /\ Len(stack[s]) \in Nat
                BY <1>1, TopIs
            <4> QED
                BY <3>2, <4>1 DEF Showing
        <3>4. stack[s][k].at \notin Counters
            <4>1. Shape(stack[s], handler[s]) /\ Above(stack[s]) \notin Writing
                BY <1>1, TopIs DEF TypedInv, Stacked, Formed, Writing
            <4> QED
                BY <3>3, <4>1, BelowTop
        <3> QED
            BY <3>2, <3>3, <3>4 DEF Showing, Counters
    <2>2. RMSG[s] => RMSG[s] /\ Top(s).at \notin Showing(s)
        BY <1>1 DEF Showing
    <2> QED
        BY <1>3, <1>4, <1>5, <2>1, <2>2, MarkedMove DEF ShowInv
<1> QED
    BY <1>3, <1>4, <1>5, <1>6, <1>7, BecomeIs, OwedAside DEF ShowInv

LEMMA LoopShows ==
    ASSUME TypedInv, ShowInv, NEW s \in Session, Loop(s)
    PROVE  ShowInv'
<1>1. Top(s) \in Activation /\ Top(s).at = "loop"
    BY TopIs DEF Loop, At
<1>2. Still(s) /\ cleared' = cleared /\ RMSG' = RMSG /\ msg_num' = msg_num
    BY DEF Loop, mail, signals, globals, ghosts, Still, Aside
<1>3. CASE msg_num[s] = 0
    <2> DEFINE f == [Top(s) EXCEPT !.at = "install"]
    <2>1. f \in Activation /\ f.at = "install" /\ f.premsg = Top(s).premsg
        <3>1. "install" \in Places
            BY DEF Places
        <3> QED
            BY <1>1, <3>1, FrameIs
    <2>2. Become(s, f)
        BY <1>3 DEF Loop, Goto
    <2> HIDE DEF f
    <2>3. Owed(s)'
        BY <1>1, <1>2, <2>1, <2>2, BecomeIs, OwedStill
    <2>4. Marked(s)'
        <3>1. RMSG'[s] => f.at \in Showing(s) \/ (RMSG[s] /\ Top(s).at \notin Showing(s))
            BY <1>1, <1>2, <2>1 DEF Showing
        <3> QED
            BY <1>2, <2>1, <2>2, <3>1, MarkedMove DEF ShowInv
    <2> QED
        BY <1>2, <2>1, <2>2, <2>3, <2>4, BecomeIs, OwedAside DEF ShowInv
<1>4. CASE msg_num[s] # 0
    <2> DEFINE f == [Top(s) EXCEPT !.at = "read", !.i = Len(msgfile(s))]
    <2>1. f \in Activation /\ f.at = "read" /\ f.premsg = Top(s).premsg
          /\ f.i = Len(msgfile(s))
        BY <1>1, MsgFileIs DEF Activation, Places
    <2>2. Become(s, f)
        BY <1>4 DEF Loop
    <2> HIDE DEF f
    <2>3. Owed(s)'
        <3>1. Top(s)' = f
            BY <2>1, <2>2, BecomeIs
        <3>2. msgfile(s)' = msgfile(s) /\ Len(msgfile(s)) \in Nat
            BY <1>2, NewestKeeps, MsgFileIs DEF Still
        <3>3. msg_num'[s] > 0
            BY <1>2, <1>4 DEF TypedInv, Fields
        <3>4. Top(s)'.i >= Len(msgfile(s)')
            BY <2>1, <3>1, <3>2
        <3> QED
            BY <3>3, <3>4 DEF Owed, Counted
    <2>4. Marked(s)'
        <3>1. RMSG'[s] => f.at \in Showing(s) \/ (RMSG[s] /\ Top(s).at \notin Showing(s))
            BY <1>1, <1>2, <2>1 DEF Showing
        <3> QED
            BY <1>2, <2>1, <2>2, <3>1, MarkedMove DEF ShowInv
    <2> QED
        BY <1>2, <2>1, <2>2, <2>3, <2>4, BecomeIs, OwedAside DEF ShowInv
<1> QED
    BY <1>3, <1>4

\* The steps that take a signal, send one, or change a file.  What another
\* process is owed it is owed still, or its newest message is another.
LEMMA OwedOther ==
    ASSUME TypedInv, ShowInv, NEW t \in Session,
           stack'[t] = stack[t], msg_num'[t] = msg_num[t], RMSG'[t] = RMSG[t],
           pending[t] => pending'[t], shown \subseteq shown', cleared \subseteq cleared',
           \/ pending'[t]
           \/ Newest(t)' = {}
           \/ Newest(t)' \subseteq Newest(t) /\ msgfile(t)' = msgfile(t)
    PROVE  Owed(t)' /\ Marked(t)'
<1>1. Entering(t) => Entering(t)'
    BY DEF Entering, Some
<1>2. Owed(t)'
    <2>1. CASE pending'[t] \/ Newest(t)' = {}
        BY <2>1 DEF Owed
    <2>2. CASE Newest(t)' \subseteq Newest(t) /\ msgfile(t)' = msgfile(t)
        <3>1. Counted(t) => Counted(t)'
            BY <2>2 DEF Counted, At, Top
        <3> QED
            BY <1>1, <2>2, <3>1 DEF Owed, ShowInv
    <2> QED
        BY <2>1, <2>2
<1>3. Marked(t)'
    BY DEF Marked, Remembers, Some, Showing, ShowInv
<1> QED
    BY <1>2, <1>3

LEMMA OwedSelf ==
    ASSUME TypedInv, NEW s \in Session, ShowInv,
           Newest(s)' = {} \/ Newest(s)' \subseteq Newest(s),
           shown \subseteq shown', pending[s] => pending'[s],
           Kept(s, Len(stack[s]) - 1), Top(s).at # "enter",
           Top(s)'.at # "read", msg_num[s] > 0 => msg_num'[s] > 0
    PROVE  Owed(s)'
<1>1. Entering(s) => Entering(s)'
    <2>1. SUFFICES ASSUME Some(s, {"enter"}) PROVE Some(s, {"enter"})'
        BY DEF Entering
    <2>2. Top(s).at \notin {"enter"}
        OBVIOUS
    <2> QED
        BY <2>1, <2>2, SomeKept
<1>2. Counted(s) => Counted(s)'
    BY DEF Counted, At
<1> QED
    BY <1>1, <1>2 DEF Owed, ShowInv

LEMMA SignalShows ==
    ASSUME TypedInv, ShowInv, NEW s \in Session, r_msg_sig(s) \/ count_msg(s)
    PROVE  ShowInv'
<1>1. UNCHANGED <<mail, handler, RMSG, refuses, ghosts>> /\ pending[s]
    BY DEF r_msg_sig, count_msg, globals
<1>2. \A t \in Session \ {s} : pending'[t] = pending[t] /\ msg_num'[t] = msg_num[t]
    BY DEF r_msg_sig, count_msg, globals, TypedInv, Fields
<1>3. \A t \in Session : Newest(t)' \subseteq Newest(t) /\ msgfile(t)' = msgfile(t)
    BY <1>1, NewestKeeps DEF ghosts
<1>4. Alike(s) => \A t \in Session \ {s} : Owed(t)' /\ Marked(t)'
    BY <1>1, <1>2, <1>3, OwedOther DEF Alike, ghosts
<1>5. CASE r_msg_sig(s)
    <2> DEFINE f == Fresh("enter")
    <2>1. f \in Activation /\ f.at = "enter" /\ ~f.premsg /\ Call(s, f)
        BY <1>5, FreshIs DEF r_msg_sig, Places
    <2> HIDE DEF f
    <2>2. Len(stack[s]) + 1 \in 1 .. Len(stack[s]) + 1
        BY TopIs
    <2>3. Some(s, {"enter"})'
        BY <2>1, <2>2, CallIs DEF Some
    <2>4. Marked(s)'
        BY <1>1, <2>1, MarkedCall DEF ghosts, ShowInv
    <2> QED
        BY <1>4, <2>1, <2>3, <2>4, CallIs DEF ShowInv, Owed, Entering
<1>6. CASE count_msg(s)
    <2>1. stack' = stack /\ msg_num'[s] = msg_num[s] + 1 /\ msg_num[s] \in Nat
        BY <1>6 DEF count_msg, TypedInv, Fields
    <2>2. At(s, "read") => msg_num[s] > 0
        BY DEF TypedInv, Stacked, Formed
    <2>3. Counted(s)'
        BY <2>1, <2>2 DEF Counted, At, Top
    <2>4. Marked(s)'
        BY <1>1, <2>1 DEF Marked, Remembers, Some, Showing, ShowInv, ghosts
    <2> QED
        BY <1>4, <2>1, <2>3, <2>4 DEF Alike, ShowInv, Owed
<1> QED
    BY <1>5, <1>6

\* With one count left and the size that is the file's, the newest is read.
LEMMA ReadShows ==
    ASSUME TypedInv, ShowInv, NEW s \in Session, Read(s)
    PROVE  ShowInv'
<1>1. Top(s) \in Activation /\ Local(Top(s), to) /\ Top(s).at = "read"
    BY TopIs DEF Read, At
<1>2. msg_num[s] \in Nat /\ msg_num[s] > 0 /\ Top(s).i \in 0 .. MaxMessages
    BY <1>1 DEF Read, Activation, TypedInv, Fields, Stacked, Formed
<1> DEFINE n == IF Top(s).i + 1 < msg_num[s] THEN 0 ELSE Top(s).i + 1 - msg_num[s]
           p == IF s \in GetKey THEN "key" ELSE "loop"
<1>3. n \in Nat
    BY <1>2, BoundAssumption
<1>4. PICK m \in Buffer(s, n) :
          Shows(s, m) /\ Become(s, [Top(s) EXCEPT !.at = p, !.i = 0, !.msg = m])
    BY DEF Read
<1>5. m \in 0 .. Len(to) /\ m \in 0 .. MaxMessages
    <2> HIDE DEF n
    <2>1. m \in 0 .. Len(to)
        BY <1>3, <1>4, BufferIs DEF Read
    <2> QED
        BY <2>1, MsgFileIs, BoundAssumption
<1> DEFINE f == [Top(s) EXCEPT !.at = p, !.i = 0, !.msg = m]
<1>6. f \in Activation /\ f.at = p /\ f.premsg = Top(s).premsg
    <2>1. p \in Places /\ 0 \in 0 .. MaxMessages
        BY BoundAssumption DEF Places
    <2> HIDE DEF p
    <2> QED
        BY <1>1, <1>5, <2>1 DEF Activation
<1>7. Become(s, f)
    BY <1>4
<1> HIDE DEF f, n
<1>8. Still(s) /\ cleared' = cleared /\ msg_num'[s] = msg_num[s] - 1
    <2>1. shown \subseteq shown'
        BY <1>4, <1>5, ShowsKeeps
    <2> QED
        BY <1>2, <2>1 DEF Read, mail, signals, Still, Aside, TypedInv, Fields
<1>9. Owed(s)'
    <2>1. CASE Newest(s) \subseteq shown \/ pending[s]
        BY <1>8, <2>1, NewestKeeps DEF Owed, Still
    <2>2. CASE Entering(s)
        <3>1. Some(s, {"enter"}) /\ Top(s).at \notin {"enter"}
            BY <1>1, <2>2 DEF Entering
        <3>2. Some(s, {"enter"})'
            BY <1>6, <1>7, <3>1, BecomeIs, SomeKept
        <3> QED
            BY <3>2 DEF Owed, Entering
    <2>3. CASE msg_num[s] > 1
        <3>1. Top(s)'.at # "read"
            BY <1>6, <1>7, BecomeIs
        <3> QED
            BY <1>2, <1>8, <2>3, <3>1 DEF Owed, Counted, At
    <2>4. CASE msg_num[s] = 1 /\ Top(s).i >= Len(msgfile(s))
        <3> DEFINE l == Len(msgfile(s))
        <3>1. l \in Nat /\ l > 0
            BY MsgFileIs DEF Read
        <3>2. n = Top(s).i
            BY <1>2, <2>4, BoundAssumption DEF n
        <3>3. n > 0 /\ (IF n <= l THEN n ELSE l) = l
            BY <1>3, <2>4, <3>1, <3>2
        <3>4. m = msgfile(s)[l]
            BY <1>4, <3>3 DEF Buffer
        <3>5. Newest(s) \subseteq shown'
            <4>1. Newest(s) # {} => m > 0 /\ to[m] = s /\ Newest(s) = {m}
                <5>1. l \in 1 .. l
                    BY <3>1
                <5>2. m \in 1 .. Len(to)
                    BY <3>4, <5>1, MsgFileIs
                <5> QED
                    BY <3>4, <5>2, MsgFileIs DEF Newest
            <4> QED
                BY <1>4, <4>1 DEF Shows
        <3> QED
            BY <1>8, <3>5, NewestKeeps DEF Owed, Still
    <2> QED
        BY <1>1, <1>2, <2>1, <2>2, <2>3, <2>4 DEF Owed, Counted, At, ShowInv
<1>10. Marked(s)'
    <2>1. RMSG'[s] => f.at \in Showing(s) \/ (RMSG[s] /\ Top(s).at \notin Showing(s))
        <3>1. RMSG'[s] => RMSG[s] \/ s \in GetKey
            BY DEF Read, TypedInv, Fields
        <3> QED
            BY <1>1, <1>6, <3>1 DEF Showing, p
    <2> QED
        BY <1>6, <1>7, <1>8, <2>1, MarkedMove DEF ShowInv
<1> QED
    BY <1>6, <1>7, <1>8, <1>9, <1>10, BecomeIs, OwedAside DEF ShowInv

\* A signal that is dropped was no message's: told forgets what it was for.
LEMMA ExecuteShows ==
    ASSUME TypedInv, ShowInv, NEW s \in Session, Execute(s)
    PROVE  ShowInv'
<1> DEFINE f == [Top(s) EXCEPT !.at = "program"]
<1>1. Top(s) \in Activation /\ Top(s).at = "main"
    BY TopIs DEF Execute, At
<1>2. f \in Activation /\ f.at = "program" /\ f.premsg = Top(s).premsg /\ Become(s, f)
    <2>1. f \in Activation /\ f.at = "program" /\ f.premsg = Top(s).premsg
        <3>1. "program" \in Places
            BY DEF Places
        <3> QED
            BY <1>1, <3>1, FrameIs
    <2>2. Become(s, f)
        BY DEF Execute, Goto
    <2> QED
        BY <2>1, <2>2
<1> HIDE DEF f
<1>3. /\ UNCHANGED <<mail, globals, shown, cleared>> /\ told' \subseteq told
      /\ \A t \in Session \ {s} : pending'[t] = pending[t]
    BY DEF Execute, TypedInv, Fields
<1>4. \A t \in Session : Newest(t)' \subseteq Newest(t) /\ msgfile(t)' = msgfile(t)
    BY <1>3, NewestKeeps
<1>5. Owed(s)'
    <2>1. CASE pending[s]
        <3>1. \A m \in told' : to'[m] # s
            BY <1>3, <2>1 DEF Execute, mail
        <3> QED
            BY <3>1 DEF Owed, Newest
    <2>2. CASE ~pending[s]
        BY <1>1, <1>2, <1>3, <1>4, <2>2, BecomeIs, OwedSelf DEF globals
    <2> QED
        BY <2>1, <2>2
<1>6. Marked(s)'
    <2>1. RMSG'[s] => RMSG[s] /\ Top(s).at \notin Showing(s)
        BY <1>1, <1>3 DEF globals, Showing
    <2> QED
        BY <1>2, <1>3, <2>1, MarkedMove DEF ShowInv
<1>7. ASSUME NEW t \in Session \ {s} PROVE Owed(t)' /\ Marked(t)'
    BY <1>2, <1>3, <1>4, BecomeIs, OwedOther DEF globals, Alike
<1> QED
    BY <1>5, <1>6, <1>7 DEF ShowInv

\* A message written has no signal yet; of the other accounts nothing changes.
LEMMA AppendShows ==
    ASSUME TypedInv, ShowInv, NEW s \in Session, file_append(s)
    PROVE  ShowInv'
<1> DEFINE u == Top(s).uin
           n == Len(to) + 1
           a == owner[u]
           f == [Top(s) EXCEPT !.at = "kill", !.msg = n]
<1>1. Top(s) \in Activation /\ Local(Top(s), to) /\ Top(s).at = "append"
    BY TopIs DEF file_append, At
<1>2. u \in Session /\ a \in Account
    BY <1>1, OwnerAssumption DEF Local
<1>3. Len(to) \in Nat /\ n \in 0 .. MaxMessages /\ to \in Seq(Session)
    BY BoundAssumption DEF file_append, TypedInv, Mail
<1>4. /\ to' = Append(to, u) /\ Become(s, f)
      /\ file' = [file EXCEPT ![a] = Append(file[a], n)]
    BY DEF file_append
<1>5. f \in Activation /\ f.at = "kill" /\ f.premsg = Top(s).premsg
    BY <1>1, <1>3 DEF Activation, Places
<1> HIDE DEF f, u
<1>6. UNCHANGED <<signals, globals, ghosts>>
    BY DEF file_append
<1>7. \A m \in 1 .. Len(to) : to'[m] = to[m]
    BY <1>2, <1>3, <1>4
<1>8. ASSUME NEW t \in Session
      PROVE  \/ Newest(t)' = {}
             \/ Newest(t)' \subseteq Newest(t) /\ msgfile(t)' = msgfile(t)
    <2>1. owner[t] \in Account /\ file \in [Account -> Seq(Nat)]
        BY OwnerAssumption DEF TypedInv, Mail
    <2>2. CASE owner[t] = a
        <3>1. file[a] \in Seq(Nat) /\ n \in Nat
            BY <1>2, <1>3, <2>1
        <3>2. msgfile(t)' = Append(file[a], n)
            BY <1>2, <1>4, <2>1, <2>2 DEF msgfile
        <3>3. msgfile(t)'[Len(msgfile(t)')] = n
            BY <3>1, <3>2
        <3>4. n \notin told'
            BY <1>3, <1>6 DEF ghosts, TypedInv, Fields
        <3> QED
            BY <3>3, <3>4 DEF Newest
    <2>3. CASE owner[t] # a
        <3>1. msgfile(t)' = msgfile(t)
            BY <1>4, <2>1, <2>3 DEF msgfile
        <3> DEFINE m == msgfile(t)[Len(msgfile(t))]
        <3>2. msgfile(t) # <<>> => to'[m] = to[m]
            <4>1. SUFFICES ASSUME msgfile(t) # <<>> PROVE m \in 1 .. Len(to)
                BY <1>7
            <4>2. Len(msgfile(t)) \in 1 .. Len(msgfile(t))
                BY <4>1, MsgFileIs
            <4> QED
                BY <4>2, MsgFileIs
        <3>3. told' = told
            BY <1>6 DEF ghosts
        <3> QED
            BY <3>1, <3>2, <3>3 DEF Newest
    <2> QED
        BY <2>2, <2>3
<1>9. Owed(s)'
    BY <1>1, <1>4, <1>5, <1>6, <1>8, BecomeIs, OwedSelf DEF signals, globals, ghosts
<1>10. Marked(s)'
    <2>1. RMSG'[s] => RMSG[s] /\ Top(s).at \notin Showing(s)
        BY <1>1, <1>6 DEF globals, Showing
    <2> QED
        BY <1>4, <1>5, <1>6, <2>1, MarkedMove DEF ghosts, ShowInv
<1>11. ASSUME NEW t \in Session \ {s} PROVE Owed(t)' /\ Marked(t)'
    BY <1>4, <1>5, <1>6, <1>8, BecomeIs, OwedOther DEF signals, globals, ghosts, Alike
<1> QED
    BY <1>9, <1>10, <1>11 DEF ShowInv

\* The signal of a message is one of the process it went to.
LEMMA KillShows ==
    ASSUME TypedInv, ShowInv, NEW s \in Session, Kill(s)
    PROVE  ShowInv'
<1> DEFINE u == Top(s).uin
<1>1. Top(s).at = "kill" /\ u \in Session /\ to[Top(s).msg] = u
    BY TopIs DEF Kill, At, Local
<1>2. Len(stack[s]) > 1
    <2>1. Len(stack[s]) # 1
        BY <1>1, Disposed DEF Bases
    <2> QED
        BY <2>1, TopIs, OneOrMore, Zenon
<1>3. Return(s) /\ UNCHANGED <<mail, handler, globals, shown, cleared>>
    BY DEF Kill
<1>4. Alike(s) /\ Kept(s, Len(stack[s]) - 1) /\ Top(s)'.at # "read"
    BY <1>2, <1>3, ReturnIs
<1>5. \A t \in Session : pending[t] => pending'[t]
    BY DEF Kill, TypedInv, Fields
<1>6. ASSUME NEW t \in Session
      PROVE  \/ pending'[t]
             \/ Newest(t)' \subseteq Newest(t) /\ msgfile(t)' = msgfile(t)
    <2>1. CASE told' = told
        BY <1>3, <2>1, NewestKeeps
    <2>2. CASE told' = told \cup {Top(s).msg} /\ pending'[u]
        <3>1. CASE t = u
            BY <2>2, <3>1
        <3>2. CASE t # u
            <4>1. msgfile(t)' = msgfile(t) /\ to' = to
                BY <1>3 DEF mail, msgfile
            <4> QED
                BY <1>1, <2>2, <3>2, <4>1 DEF Newest
        <3> QED
            BY <3>1, <3>2
    <2> QED
        BY <1>1, <2>1, <2>2 DEF Kill, TypedInv, Fields
<1>7. Owed(s)'
    <2>1. CASE pending'[s]
        BY <2>1 DEF Owed
    <2>2. CASE Newest(s)' \subseteq Newest(s)
        BY <1>1, <1>3, <1>4, <1>5, <2>2, OwedSelf DEF globals
    <2> QED
        BY <1>6, <2>1, <2>2
<1>8. Marked(s)'
    <2>1. RMSG'[s] => RMSG[s] /\ Top(s).at \notin Showing(s)
        BY <1>1, <1>3 DEF globals, Showing
    <2> QED
        BY <1>2, <1>3, <2>1, MarkedReturn DEF ShowInv
<1>9. ASSUME NEW t \in Session \ {s} PROVE Owed(t)' /\ Marked(t)'
    BY <1>3, <1>4, <1>5, <1>6, OwedOther DEF globals, Alike
<1> QED
    BY <1>7, <1>8, <1>9 DEF ShowInv

LEMMA ClearShows ==
    ASSUME TypedInv, ShowInv, NEW s \in Session, Clear(s)
    PROVE  ShowInv'
<1>1. Top(s).at = "clear"
    BY DEF Clear, At
<1>2. Len(stack[s]) > 1
    <2>1. Len(stack[s]) # 1
        BY <1>1, Disposed DEF Bases
    <2> QED
        BY <2>1, TopIs, OneOrMore, Zenon
<1>3. /\ Return(s) /\ UNCHANGED <<from, to, signals, globals, ghosts>>
      /\ file' = [file EXCEPT ![owner[s]] = <<>>]
    BY DEF Clear
<1>4. Alike(s) /\ Kept(s, Len(stack[s]) - 1) /\ Top(s)'.at # "read"
    BY <1>2, <1>3, ReturnIs
<1>5. ASSUME NEW t \in Session
      PROVE  \/ Newest(t)' = {}
             \/ Newest(t)' \subseteq Newest(t) /\ msgfile(t)' = msgfile(t)
    <2>1. owner[t] \in Account /\ file \in [Account -> Seq(Nat)]
        BY OwnerAssumption DEF TypedInv, Mail
    <2>2. CASE owner[t] = owner[s]
        <3>1. msgfile(t)' = <<>>
            BY <1>3, <2>1, <2>2 DEF msgfile
        <3> QED
            BY <3>1 DEF Newest
    <2>3. CASE owner[t] # owner[s]
        <3>1. msgfile(t)' = msgfile(t)
            BY <1>3, <2>1, <2>3 DEF msgfile
        <3> QED
            BY <1>3, <3>1 DEF Newest, ghosts
    <2> QED
        BY <2>2, <2>3
<1>6. Owed(s)'
    BY <1>1, <1>3, <1>4, <1>5, OwedSelf DEF signals, globals, ghosts
<1>7. Marked(s)'
    <2>1. RMSG'[s] => RMSG[s] /\ Top(s).at \notin Showing(s)
        BY <1>1, <1>3 DEF globals, Showing
    <2> QED
        BY <1>2, <1>3, <2>1, MarkedReturn DEF ghosts, ShowInv
<1>8. ASSUME NEW t \in Session \ {s} PROVE Owed(t)' /\ Marked(t)'
    BY <1>3, <1>4, <1>5, OwedOther DEF signals, globals, ghosts, Alike
<1> QED
    BY <1>6, <1>7, <1>8 DEF ShowInv

LEMMA ShowInit == Init => ShowInv
<1> SUFFICES ASSUME Init, NEW s \in Session PROVE Owed(s) /\ Marked(s)
    BY DEF ShowInv
<1>1. Fresh("main") \in Activation /\ Fresh("main").at = "main" /\ ~Fresh("main").premsg
    <2>1. "main" \in Places
        BY DEF Places
    <2> QED
        BY <2>1, FreshIs
<1> DEFINE st == <<Fresh("main")>>
<1>2. Len(st) = 1 /\ st[1] = Fresh("main")
    OBVIOUS
<1> HIDE DEF st
<1>3. stack[s] = st /\ ~RMSG[s] /\ told = {}
    BY DEF Init, st
<1>4. Owed(s)
    BY <1>3 DEF Owed, Newest
<1>5. Remembers(s)
    <2>1. SUFFICES ASSUME NEW k \in 1 .. Len(stack[s]), stack[s][k].premsg PROVE FALSE
        BY DEF Remembers
    <2>2. Len(stack[s]) = 1 /\ stack[s][1] = Fresh("main")
        BY <1>2, <1>3
    <2>3. k = 1
        BY <2>2
    <2> QED
        BY <1>1, <2>1, <2>2, <2>3
<1> QED
    BY <1>3, <1>4, <1>5 DEF Marked

LEMMA ShowStep == TypedInv /\ ShowInv /\ [Next]_vars => ShowInv'
<1> SUFFICES ASSUME TypedInv, ShowInv, [Next]_vars PROVE ShowInv'
    OBVIOUS
<1>1. ASSUME NEW s \in Session, Run(s) PROVE ShowInv'
    BY <1>1, EnterShows, LoopShows, MissingShows, ReadShows, InstallShows,
       RestoreShows, BrowsingShows, LookShows, CloseShows, QuitShows, ResetShows,
       AppendShows, OfflineShows, KillShows, StartedShows, BackShows DEF Run
<1>2. ASSUME NEW s \in Session, Keys(s) PROVE ShowInv'
    BY <1>2, KeyShows, ChooseShows, QuitShows, ComposeShows, CancelShows, KeepShows,
       ClearShows, ReturnedShows, BackShows, ReplyShows, AnswerShows DEF Keys
<1>3. ASSUME NEW s \in Session, Command(s) PROVE ShowInv'
    BY <1>3, AddressShows, BrowseShows, ViewShows, ExecuteShows, LockShows, LeaveShows
       DEF Command
<1>4. ASSUME NEW s \in Session, Signal(s) PROVE ShowInv'
    BY <1>4, SignalShows DEF Signal
<1>5. CASE UNCHANGED vars
    <2>1. UNCHANGED <<mail, pending, stack, msg_num, RMSG, told, shown, cleared>>
        BY <1>5 DEF vars, signals, globals, ghosts
    <2>2. ASSUME NEW t \in Session PROVE Owed(t)' /\ Marked(t)'
        BY <2>1, OwedOther, NewestKeeps
    <2> QED
        BY <2>2 DEF ShowInv
<1> QED
    BY <1>1, <1>2, <1>3, <1>4, <1>5 DEF Next

\* Where a process waits for a key, no display is on its way.
LEMMA IdleIs ==
    ASSUME TypedInv, NEW s \in Session, Idle(s)
    PROVE  \A k \in 1 .. Len(stack[s]) : stack[s][k].at \in
              {"main", "program", "away", "back", "locked", "gone", "compose", "clear"}
<1> DEFINE st == stack[s]
<1>1. /\ st # <<>> /\ Len(st) \in Nat /\ Len(st) >= 1
      /\ Above(st) = Top(s).at /\ Shape(st, handler[s])
    BY TopIs DEF TypedInv, Stacked, Formed
<1>2. /\ Len(st) = 1 \/ Len(st) > 1
      /\ Len(st) > 1 => Len(st) # 1 /\ Len(st) \in 2 .. Len(st)
    BY <1>1, OneOrMore, Zenon
<1>3. st[1].at \in Bases
    BY <1>1 DEF Shape, Bottom
<1>4. CASE Len(st) = 1
    BY <1>3, <1>4 DEF Bases
<1>5. CASE Len(st) > 1
    <2>1. Above(st) \notin Bases
        BY <1>1, <1>2, <1>5, Dispositions
    <2>2. Above(st) \in {"compose", "clear"}
        BY <1>1, <2>1 DEF Idle, Bases
    <2>3. Len(st) = 2
        BY <1>1, <1>2, <1>5, <2>2 DEF Shape, Placed, OverMenu, Above
    <2> QED
        BY <1>3, <2>2, <2>3 DEF Bases, Above
<1> QED
    BY <1>2, <1>4, <1>5

LEMMA Messages_Inv == Spec => [](TypedInv /\ ShowInv)
<1>1. Init => TypedInv /\ ShowInv
    BY TypedInit, ShowInit
<1>2. TypedInv /\ ShowInv /\ [Next]_vars => (TypedInv /\ ShowInv)'
    BY TypedStep, ShowStep
<1> QED
    BY <1>1, <1>2, PTL DEF Spec

\* However many signals were merged into one (sendmsg.c, do_sendmsg's kill),
\* counted late (count_msg) or counted against a size of the file that had
\* changed (r_msg), a process that waits for a key and has nothing counted has
\* shown the newest message of its file, if it took the signal of that message:
\* for any number of sessions, accounts and messages.
THEOREM NewestShownHolds == Spec => []NewestShown
<1>1. TypedInv /\ ShowInv => NewestShown
    <2> SUFFICES ASSUME TypedInv, ShowInv, NEW s \in Session, Idle(s), msg_num[s] = 0
                 PROVE  Newest(s) \subseteq shown
        BY DEF NewestShown
    <2>1. ~pending[s]
        BY DEF Idle
    <2>2. ~Entering(s)
        BY IdleIs DEF Entering, Some
    <2>3. ~Counted(s)
        BY DEF Counted
    <2> QED
        BY <2>1, <2>2, <2>3 DEF ShowInv, Owed
<1> QED
    BY <1>1, Messages_Inv, PTL

\* RMSG, which keeps igetkey from opening the browser a second time, is put back
\* by the time the displays are over (r_msg's premsg, r_msg2's end), however they
\* interrupted one another, unless the file vanished in the midst of one.
THEOREM BrowserFreeHolds == Spec => []BrowserFree
<1>1. TypedInv /\ ShowInv => BrowserFree
    <2> SUFFICES ASSUME TypedInv, ShowInv, NEW s \in Session, Idle(s), s \notin cleared,
                        RMSG[s]
                 PROVE  FALSE
        BY DEF BrowserFree
    <2>1. PICK k \in 1 .. Len(stack[s]) : stack[s][k].at \in Showing(s)
        BY DEF ShowInv, Marked, Some
    <2> QED
        BY <2>1, IdleIs DEF Showing
<1> QED
    BY <1>1, Messages_Inv, PTL

-----------------------------------------------------------------------------
(***************************************************************************)
(* How deep.  A signal that is pending, and each activation over the first *)
(* three (the menu, what it runs, the browser) but for an answer that is   *)
(* written, is due to a message of its own whose signal was sent: Sent has *)
(* the messages whose writer has come to its kill, and each has one writer *)
(* (Alone).                                                                *)
(***************************************************************************)
Killing(s, k) == k \in 1 .. Len(stack[s]) /\ stack[s][k].at = "kill"
Alone == \A s, t \in Session : \A j, k \in Nat :
    Killing(s, j) /\ Killing(t, k) /\ stack[s][j].msg = stack[t][k].msg
    => s = t /\ j = k
Sent == {m \in 1 .. Len(to) : \A s \in Session : \A k \in Nat :
            Killing(s, k) => stack[s][k].msg # m}

Waiting(s) == IF pending[s] THEN 1 ELSE 0
Slack(s) == IF Top(s).at \in Writing THEN 4 ELSE 3
Bounded(n, p, w, c) == p <= c /\ (n > 3 => n + p <= c + w)
Deep(s) == Bounded(Len(stack[s]), Waiting(s), Slack(s), Cardinality(Sent))
DepthInv == Alone /\ \A s \in Session : Deep(s)

\* A stack grows by an answer or for a signal, or it is low; a signal more is
\* one of a message more.
Deepens(n, p, w, m, q, v) ==
    \/ m <= n /\ q <= p /\ w <= v
    \/ m = n + 1 /\ m <= 3 /\ q <= p
    \/ m = n + 1 /\ p = 1 /\ q = 0 /\ (n <= 2 \/ w = 3)
    \/ m = n + 1 /\ q <= p /\ w = 3 /\ v = 4
    \/ m = n - 1 /\ q <= p

LEMMA CountIs ==
    ASSUME NEW n \in Nat, NEW S \in SUBSET (1 .. n)
    PROVE  IsFiniteSet(S) /\ Cardinality(S) \in Nat /\ Cardinality(S) <= n
<1>1. IsFiniteSet(1 .. n) /\ Cardinality(1 .. n) = n
    <2>1. 1 \in Int /\ n \in Int
        OBVIOUS
    <2>2. IsFiniteSet(1 .. n) /\ Cardinality(1 .. n) = IF 1 > n THEN 0 ELSE n - 1 + 1
        BY <2>1, FS_Interval
    <2> QED
        BY <2>2
<1>2. IsFiniteSet(S) /\ Cardinality(S) <= Cardinality(1 .. n)
    BY <1>1, FS_Subset
<1> QED
    BY <1>1, <1>2, FS_CardinalityType

LEMMA CountGrows ==
    ASSUME NEW n \in Nat, NEW m \in Nat, NEW S \in SUBSET (1 .. n),
           NEW T \in SUBSET (1 .. m), S \subseteq T
    PROVE  /\ Cardinality(S) <= Cardinality(T)
           /\ \A x \in T \ S : Cardinality(S) + 1 <= Cardinality(T)
<1>1. IsFiniteSet(S) /\ Cardinality(S) \in Nat /\ IsFiniteSet(T) /\ Cardinality(T) \in Nat
    BY CountIs
<1>2. Cardinality(S) <= Cardinality(T)
    BY <1>1, FS_Subset
<1>3. ASSUME NEW x \in T \ S PROVE Cardinality(S) + 1 <= Cardinality(T)
    <2>1. IsFiniteSet(S \cup {x}) /\ Cardinality(S \cup {x}) = Cardinality(S) + 1
        BY <1>1, FS_AddElement
    <2>2. S \cup {x} \subseteq T
        OBVIOUS
    <2> QED
        BY <1>1, <2>1, <2>2, FS_Subset
<1> QED
    BY <1>2, <1>3

LEMMA SentIs ==
    ASSUME TypedInv
    PROVE  /\ Len(to) \in Nat /\ Sent \in SUBSET (1 .. Len(to))
           /\ Cardinality(Sent) \in Nat /\ Cardinality(Sent) <= Len(to)
<1>1. Len(to) \in Nat
    BY DEF TypedInv, Mail
<1>2. Sent \in SUBSET (1 .. Len(to))
    BY DEF Sent
<1> QED
    BY <1>1, <1>2, CountIs

\* Where nobody comes to a kill, who is there was, and Sent has lost nothing.
LEMMA NobodyKills ==
    ASSUME TypedInv, TypedInv', Alone, to' = to,
           \A t \in Session : \A k \in Nat : Killing(t, k)' =>
               Killing(t, k) /\ stack'[t][k].msg = stack[t][k].msg
    PROVE  /\ Alone' /\ Sent \subseteq Sent'
           /\ Cardinality(Sent) \in Nat /\ Cardinality(Sent') \in Nat
           /\ Cardinality(Sent) <= Cardinality(Sent')
           /\ \A m \in Sent' \ Sent : Cardinality(Sent) + 1 <= Cardinality(Sent')
<1>1. Alone'
    <2>1. SUFFICES ASSUME NEW s \in Session, NEW t \in Session, NEW j \in Nat, NEW k \in Nat,
                          Killing(s, j)', Killing(t, k)', stack'[s][j].msg = stack'[t][k].msg
                   PROVE  s = t /\ j = k
        BY DEF Alone
    <2>2. Killing(s, j) /\ Killing(t, k) /\ stack[s][j].msg = stack[t][k].msg
        BY <2>1
    <2> QED
        BY <2>2 DEF Alone
<1>2. Sent \subseteq Sent'
    <2>1. SUFFICES ASSUME NEW m \in Sent PROVE m \in Sent'
        OBVIOUS
    <2>2. ASSUME NEW s \in Session, NEW k \in Nat, Killing(s, k)'
          PROVE  stack'[s][k].msg # m
        BY <2>2 DEF Sent
    <2> QED
        BY <2>2 DEF Sent
<1>3. /\ Len(to) \in Nat /\ Sent \in SUBSET (1 .. Len(to)) /\ Sent' \in SUBSET (1 .. Len(to))
    <2>1. Len(to) \in Nat
        BY SentIs
    <2> QED
        BY <2>1 DEF Sent
<1>4. Cardinality(Sent) \in Nat /\ Cardinality(Sent') \in Nat
    BY <1>3, CountIs
<1>5. /\ Cardinality(Sent) <= Cardinality(Sent')
      /\ \A m \in Sent' \ Sent : Cardinality(Sent) + 1 <= Cardinality(Sent')
    BY <1>2, <1>3, CountGrows, Zenon
<1> QED
    BY <1>1, <1>2, <1>4, <1>5

LEMMA DeepStep ==
    ASSUME TypedInv, TypedInv', DepthInv, NEW t \in Session,
           Cardinality(Sent) \in Nat, Cardinality(Sent') \in Nat,
           Cardinality(Sent) <= Cardinality(Sent'),
           \/ Deepens(Len(stack[t]), Waiting(t), Slack(t),
                      Len(stack'[t]), Waiting(t)', Slack(t)')
           \/ /\ Cardinality(Sent) + 1 <= Cardinality(Sent')
              /\ \/ Len(stack'[t]) <= Len(stack[t]) /\ Slack(t) <= Slack(t)'
                 \/ Len(stack'[t]) = Len(stack[t]) - 1
    PROVE  Deep(t)'
<1>1. stack[t] \in Seq(Activation) /\ stack'[t] \in Seq(Activation)
    BY DEF TypedInv, Fields
<1>2. Len(stack[t]) \in Nat /\ Len(stack'[t]) \in Nat
    BY <1>1
<1>3. /\ Waiting(t) \in {0, 1} /\ Waiting(t)' \in {0, 1}
      /\ Slack(t) \in {3, 4} /\ Slack(t)' \in {3, 4}
    BY DEF Waiting, Slack
<1>4. Bounded(Len(stack[t]), Waiting(t), Slack(t), Cardinality(Sent))
    BY DEF DepthInv, Deep
<1> DEFINE n == Len(stack[t])
           m == Len(stack'[t])
           p == Waiting(t)
           q == Waiting(t)'
           w == Slack(t)
           v == Slack(t)'
           c == Cardinality(Sent)
           d == Cardinality(Sent')
<1>5. /\ n \in Nat /\ m \in Nat /\ p \in {0, 1} /\ q \in {0, 1}
      /\ w \in {3, 4} /\ v \in {3, 4} /\ c \in Nat /\ d \in Nat
      /\ Bounded(n, p, w, c) /\ c <= d
    BY <1>2, <1>3, <1>4
<1>6. \/ Deepens(n, p, w, m, q, v)
      \/ /\ c + 1 <= d
         /\ \/ m <= n /\ w <= v
            \/ m = n - 1
    OBVIOUS
<1>7. Bounded(m, q, v, d)
    <2> HIDE DEF n, m, p, q, w, v, c, d
    <2> QED
        BY <1>5, <1>6 DEF Bounded, Deepens
<1> QED
    BY <1>7 DEF Deep

\* A step of s that sends nothing.
LEMMA SilentDeep ==
    ASSUME TypedInv, TypedInv', DepthInv, NEW s \in Session, to' = to, Alike(s),
           \A t \in Session : pending'[t] => pending[t],
           \A k \in Nat : Killing(s, k)' =>
               Killing(s, k) /\ stack'[s][k].msg = stack[s][k].msg,
           Deepens(Len(stack[s]), Waiting(s), Slack(s),
                   Len(stack'[s]), Waiting(s)', Slack(s)')
    PROVE  DepthInv'
<1>1. \A t \in Session : \A k \in Nat : Killing(t, k)' =>
          Killing(t, k) /\ stack'[t][k].msg = stack[t][k].msg
    <2>1. SUFFICES ASSUME NEW t \in Session, t # s
                   PROVE  \A k \in Nat : Killing(t, k)' =>
                             Killing(t, k) /\ stack'[t][k].msg = stack[t][k].msg
        OBVIOUS
    <2>2. stack'[t] = stack[t]
        BY <2>1 DEF Alike
    <2> QED
        BY <2>2 DEF Killing
<1>2. /\ Alone' /\ Cardinality(Sent) \in Nat /\ Cardinality(Sent') \in Nat
      /\ Cardinality(Sent) <= Cardinality(Sent')
    BY <1>1, NobodyKills DEF DepthInv
<1>3. ASSUME NEW t \in Session PROVE Deep(t)'
    <2>1. CASE t = s
        BY <1>2, <2>1, DeepStep
    <2>2. CASE t # s
        <3>1. stack'[t] = stack[t]
            BY <2>2 DEF Alike
        <3>2. Waiting(t)' <= Waiting(t) /\ Slack(t) <= Slack(t)'
              /\ Len(stack'[t]) <= Len(stack[t])
            <4>1. Len(stack[t]) \in Nat
                BY TopIs
            <4> QED
                BY <3>1, <4>1 DEF Waiting, Slack, Top
        <3> QED
            BY <1>2, <3>2, DeepStep DEF Deepens
    <2> QED
        BY <2>1, <2>2
<1> QED
    BY <1>2, <1>3 DEF DepthInv

\* What a stack was given is an activation, for it is one of the stack now.
LEMMA GivenIs ==
    ASSUME TypedInv, TypedInv', NEW s \in Session, NEW f
    PROVE  /\ Become(s, f) => f \in Activation
           /\ Call(s, f) => f \in Activation
<1> DEFINE A == Activation \cup {f}
           st == stack[s]
<1>1. st \in Seq(Activation) /\ st # <<>> /\ stack'[s] \in Seq(Activation)
    BY TopIs DEF TypedInv, Fields
<1>2. stack \in [Session -> Seq(Activation)]
    BY DEF TypedInv, Fields
<1> HIDE DEF st
<1>3. st \in Seq(A) /\ f \in A
    BY <1>1
<1> HIDE DEF A
<1>4. ASSUME Become(s, f) PROVE f \in Activation
    <2>1. stack'[s] = Replaced(st, f)
        BY <1>2, <1>4 DEF Become, Below, Replaced, st
    <2>2. Len(Replaced(st, f)) = Len(st) /\ Replaced(st, f)[Len(st)] = f
        BY <1>1, <1>3, ReplacedIs
    <2>3. Len(st) \in 1 .. Len(st)
        BY <1>1
    <2> QED
        BY <1>1, <2>1, <2>2, <2>3
<1>5. ASSUME Call(s, f) PROVE f \in Activation
    <2>1. stack'[s] = Append(st, f)
        BY <1>2, <1>5 DEF Call, st
    <2>2. Len(Append(st, f)) = Len(st) + 1 /\ Append(st, f)[Len(st) + 1] = f
        BY <1>3, PushedIs
    <2>3. Len(st) + 1 \in 1 .. Len(st) + 1
        BY <1>1
    <2> QED
        BY <1>1, <2>1, <2>2, <2>3
<1> QED
    BY <1>4, <1>5

LEMMA MoveDeep ==
    ASSUME TypedInv, TypedInv', DepthInv, NEW s \in Session, to' = to,
           \A t \in Session : pending'[t] => pending[t],
           NEW f, Become(s, f), f.at # "kill", Top(s).at \in Writing => f.at \in Writing
    PROVE  DepthInv'
<1>1. f \in Activation
    BY GivenIs
<1>2. /\ Alike(s) /\ Kept(s, Len(stack[s]) - 1) /\ Len(stack'[s]) = Len(stack[s])
      /\ stack'[s][Len(stack[s])] = f /\ Top(s)' = f
    BY <1>1, BecomeIs
<1>3. Len(stack[s]) \in Nat
    BY TopIs
<1>4. ASSUME NEW k \in Nat, Killing(s, k)'
      PROVE  Killing(s, k) /\ stack'[s][k].msg = stack[s][k].msg
    <2>1. k \in 1 .. Len(stack[s]) /\ k # Len(stack[s])
        BY <1>2, <1>4 DEF Killing
    <2>2. k \in 1 .. Len(stack[s]) - 1
        BY <1>3, <2>1
    <2> QED
        BY <1>2, <1>4, <2>1, <2>2 DEF Killing, Kept
<1>5. /\ Waiting(s)' <= Waiting(s) /\ Slack(s) <= Slack(s)'
      /\ Len(stack'[s]) <= Len(stack[s])
    BY <1>2, <1>3 DEF Waiting, Slack
<1> QED
    BY <1>2, <1>4, <1>5, SilentDeep DEF Deepens

LEMMA GotoDeep ==
    ASSUME TypedInv, TypedInv', DepthInv, NEW s \in Session, to' = to,
           \A t \in Session : pending'[t] => pending[t],
           NEW p \in Places, Goto(s, p), p # "kill", Top(s).at \notin Writing
    PROVE  DepthInv'
<1> DEFINE f == [Top(s) EXCEPT !.at = p]
<1>1. f.at = p /\ Become(s, f)
    <2>1. Top(s) \in Activation
        BY TopIs
    <2> QED
        BY <2>1, FrameIs DEF Goto
<1> HIDE DEF f
<1> QED
    BY <1>1, MoveDeep

LEMMA CallDeep ==
    ASSUME TypedInv, TypedInv', DepthInv, NEW s \in Session, to' = to, pending' = pending,
           NEW f, Call(s, f), f.at # "kill", Top(s).at \in {"main", "compose", "clear"}
    PROVE  DepthInv'
<1>1. f \in Activation
    BY GivenIs
<1>2. /\ Alike(s) /\ Kept(s, Len(stack[s])) /\ Len(stack'[s]) = Len(stack[s]) + 1
      /\ stack'[s][Len(stack[s]) + 1] = f /\ Top(s)' = f
    BY <1>1, CallIs
<1>3. Len(stack[s]) \in Nat /\ Len(stack[s]) <= 2
    <2>1. /\ Len(stack[s]) \in Nat /\ Len(stack[s]) >= 1 /\ Above(stack[s]) = Top(s).at
          /\ Shape(stack[s], handler[s])
        BY TopIs DEF TypedInv, Stacked, Formed
    <2>2. /\ Len(stack[s]) = 1 \/ Len(stack[s]) > 1
          /\ Len(stack[s]) > 1 => Len(stack[s]) # 1 /\ Len(stack[s]) \in 2 .. Len(stack[s])
        BY <2>1, OneOrMore, Zenon
    <2>3. CASE Len(stack[s]) > 1
        <3>1. Above(stack[s]) \notin Bases
            BY <2>1, <2>2, <2>3, Dispositions
        <3>2. Above(stack[s]) \in {"compose", "clear"}
            BY <2>1, <3>1 DEF Bases
        <3>3. Len(stack[s]) = 2
            BY <2>1, <2>2, <2>3, <3>2 DEF Shape, Placed, OverMenu, Above
        <3> QED
            BY <3>3
    <2>4. CASE Len(stack[s]) = 1
        BY <2>4
    <2> QED
        BY <2>2, <2>3, <2>4
<1>4. ASSUME NEW k \in Nat, Killing(s, k)'
      PROVE  Killing(s, k) /\ stack'[s][k].msg = stack[s][k].msg
    <2>1. k \in 1 .. Len(stack[s]) + 1 /\ k # Len(stack[s]) + 1
        BY <1>2, <1>4 DEF Killing
    <2>2. k \in 1 .. Len(stack[s])
        BY <1>3, <2>1
    <2> QED
        BY <1>2, <1>4, <2>2 DEF Killing, Kept
<1>5. Waiting(s)' <= Waiting(s) /\ Len(stack[s]) + 1 <= 3
    BY <1>3 DEF Waiting
<1> QED
    BY <1>2, <1>4, <1>5, SilentDeep DEF Deepens

LEMMA ReturnDeep ==
    ASSUME TypedInv, TypedInv', DepthInv, NEW s \in Session, to' = to, pending' = pending,
           Return(s), Top(s).at \notin Bases
    PROVE  DepthInv'
<1>1. Len(stack[s]) > 1 /\ Len(stack[s]) \in Nat
    <2>1. Len(stack[s]) # 1
        BY Disposed
    <2> QED
        BY <2>1, TopIs, OneOrMore, Zenon
<1>2. Alike(s) /\ Kept(s, Len(stack[s]) - 1) /\ Len(stack'[s]) = Len(stack[s]) - 1
    BY <1>1, ReturnIs
<1>3. ASSUME NEW k \in Nat, Killing(s, k)'
      PROVE  Killing(s, k) /\ stack'[s][k].msg = stack[s][k].msg
    <2>1. k \in 1 .. Len(stack[s]) - 1 /\ k \in 1 .. Len(stack[s])
        BY <1>1, <1>2, <1>3 DEF Killing
    <2> QED
        BY <1>2, <1>3, <2>1 DEF Killing, Kept
<1>4. Waiting(s)' <= Waiting(s)
    BY DEF Waiting
<1> QED
    BY <1>2, <1>3, <1>4, SilentDeep DEF Deepens

LEMMA AnswerDeep ==
    ASSUME TypedInv, TypedInv', DepthInv, NEW s \in Session, to' = to, pending' = pending,
           NEW f \in Activation, NEW e \in Activation,
           stack' = [stack EXCEPT ![s] = Below(s) \o <<f, e>>],
           f.at # "kill", e.at = "append", Top(s).at \notin Writing
    PROVE  DepthInv'
<1>1. /\ Alike(s) /\ Kept(s, Len(stack[s]) - 1) /\ Len(stack'[s]) = Len(stack[s]) + 1
      /\ stack'[s][Len(stack[s])] = f /\ stack'[s][Len(stack[s]) + 1] = e
      /\ Top(s)' = e
    BY AnswerIs
<1>2. Len(stack[s]) \in Nat
    BY TopIs
<1>3. ASSUME NEW k \in Nat, Killing(s, k)'
      PROVE  Killing(s, k) /\ stack'[s][k].msg = stack[s][k].msg
    <2>1. k \in 1 .. Len(stack[s]) + 1 /\ k # Len(stack[s]) + 1 /\ k # Len(stack[s])
        BY <1>1, <1>3 DEF Killing
    <2>2. k \in 1 .. Len(stack[s]) - 1 /\ k \in 1 .. Len(stack[s])
        BY <1>2, <2>1
    <2> QED
        BY <1>1, <1>3, <2>2 DEF Killing, Kept
<1>4. Waiting(s)' <= Waiting(s) /\ Slack(s) = 3 /\ Slack(s)' = 4
    BY <1>1 DEF Waiting, Slack, Writing
<1> QED
    BY <1>1, <1>3, <1>4, SilentDeep DEF Deepens

\* A signal that is taken was pending: a message was sent for it.
LEMMA SignalDeep ==
    ASSUME TypedInv, TypedInv', DepthInv, NEW s \in Session, r_msg_sig(s) \/ count_msg(s)
    PROVE  DepthInv'
<1>1. to' = to /\ pending[s] /\ ~pending'[s]
      /\ \A t \in Session : pending'[t] => pending[t]
    BY DEF r_msg_sig, count_msg, mail, TypedInv, Fields
<1>2. Waiting(s) = 1 /\ Waiting(s)' = 0 /\ Len(stack[s]) \in Nat
    BY <1>1, TopIs DEF Waiting
<1>3. CASE r_msg_sig(s)
    <2> DEFINE f == Fresh("enter")
    <2>1. f \in Activation /\ f.at = "enter" /\ Call(s, f)
        BY <1>3, FreshIs DEF r_msg_sig, Places
    <2> HIDE DEF f
    <2>2. /\ Alike(s) /\ Kept(s, Len(stack[s])) /\ Len(stack'[s]) = Len(stack[s]) + 1
          /\ stack'[s][Len(stack[s]) + 1] = f
        BY <2>1, CallIs
    <2>3. Len(stack[s]) <= 2 \/ Slack(s) = 3
        <3>1. /\ Len(stack[s]) >= 1 /\ Above(stack[s]) = Top(s).at
              /\ Shape(stack[s], handler[s]) /\ handler[s] = "r_msg_sig"
            BY <1>3, TopIs DEF TypedInv, Stacked, Formed, r_msg_sig
        <3>2. SUFFICES ASSUME Top(s).at \in Writing PROVE Len(stack[s]) <= 2
            BY DEF Slack
        <3>3. Len(stack[s]) # 1
            BY <3>2, Disposed DEF Writing, Bases
        <3>4. Len(stack[s]) \in 2 .. Len(stack[s]) /\ Len(stack[s]) - 1 \in 1 .. Len(stack[s])
            BY <1>2, <3>1, <3>3, OneOrMore, Zenon
        <3>5. ~OnTop(stack[s], Len(stack[s]))
            BY <3>1, <3>4 DEF Shape, OnTop, Answering, Counters
        <3>6. OverMenu(stack[s], Len(stack[s]))
            BY <3>1, <3>2, <3>4, <3>5 DEF Shape, Placed, Above
        <3> QED
            BY <3>6 DEF OverMenu
    <2>4. ASSUME NEW k \in Nat, Killing(s, k)'
          PROVE  Killing(s, k) /\ stack'[s][k].msg = stack[s][k].msg
        <3>1. k \in 1 .. Len(stack[s]) + 1 /\ k # Len(stack[s]) + 1
            BY <2>1, <2>2, <2>4 DEF Killing
        <3>2. k \in 1 .. Len(stack[s])
            BY <1>2, <3>1
        <3> QED
            BY <2>2, <2>4, <3>2 DEF Killing, Kept
    <2> QED
        BY <1>1, <1>2, <2>2, <2>3, <2>4, SilentDeep DEF Deepens
<1>4. CASE count_msg(s)
    <2>1. stack' = stack
        BY <1>4 DEF count_msg
    <2>2. \A k \in Nat : Killing(s, k)' => Killing(s, k) /\ stack'[s][k].msg = stack[s][k].msg
        BY <2>1 DEF Killing
    <2>3. Alike(s) /\ Slack(s) <= Slack(s)' /\ Len(stack'[s]) <= Len(stack[s])
        BY <1>2, <2>1 DEF Alike, Slack, Top
    <2> QED
        BY <1>1, <1>2, <2>2, <2>3, SilentDeep DEF Deepens
<1> QED
    BY <1>3, <1>4

\* A new message has the writer that wrote it; it is not sent yet.
LEMMA AppendDeep ==
    ASSUME TypedInv, TypedInv', DepthInv, NEW s \in Session, file_append(s)
    PROVE  DepthInv'
<1> DEFINE n == Len(to) + 1
           f == [Top(s) EXCEPT !.at = "kill", !.msg = n]
           L == Len(stack[s])
<1>1. Top(s).at = "append" /\ Top(s) \in Activation
    BY TopIs DEF file_append, At
<1>2. f.at = "kill" /\ f.msg = n /\ Become(s, f)
    BY <1>1 DEF Activation, file_append
<1> HIDE DEF f
<1>3. f \in Activation
    BY <1>2, GivenIs
<1>4. /\ Alike(s) /\ Kept(s, L - 1) /\ Len(stack'[s]) = L
      /\ stack'[s][L] = f /\ Top(s)' = f
    BY <1>2, <1>3, BecomeIs
<1>5. L \in Nat /\ L \in 1 .. L /\ L >= 1 /\ stack[s][L].at = "append"
    BY <1>1, TopIs
<1>6. Len(to) \in Nat /\ Len(to') = n
    <2>1. to \in Seq(Session) /\ Top(s).uin \in Session
        BY <1>1, TopIs DEF Local, TypedInv, Mail
    <2> QED
        BY <2>1 DEF file_append
<1> HIDE DEF L
<1>7. ASSUME NEW t \in Session, NEW k \in Nat, Killing(t, k)'
      PROVE  \/ t = s /\ k = L
             \/ /\ Killing(t, k) /\ stack'[t][k].msg = stack[t][k].msg
                /\ stack[t][k].msg \in 1 .. Len(to)
    <2>1. CASE t # s
        <3>1. stack'[t] = stack[t]
            BY <2>1, <1>4 DEF Alike
        <3>2. Killing(t, k) /\ k \in 1 .. Len(stack[t])
            BY <1>7, <3>1 DEF Killing
        <3>3. Local(stack[t][k], to)
            BY <3>2 DEF TypedInv, Stacked, Formed
        <3> QED
            BY <3>1, <3>2, <3>3 DEF Killing, Local
    <2>2. CASE t = s /\ k # L
        <3>1. k \in 1 .. L - 1
            BY <1>4, <1>5, <1>7, <2>2 DEF Killing
        <3>2. k \in 1 .. Len(stack[s]) /\ stack'[s][k] = stack[s][k]
            BY <1>4, <1>5, <3>1 DEF Kept, L
        <3>3. Killing(s, k) /\ Local(stack[s][k], to)
            BY <1>7, <2>2, <3>2 DEF Killing, TypedInv, Stacked, Formed
        <3> QED
            BY <2>2, <3>2, <3>3 DEF Killing, Local
    <2> QED
        BY <2>1, <2>2
<1>8. Alone'
    <2>1. SUFFICES ASSUME NEW t \in Session, NEW u \in Session, NEW j \in Nat, NEW k \in Nat,
                          Killing(t, j)', Killing(u, k)', stack'[t][j].msg = stack'[u][k].msg
                   PROVE  t = u /\ j = k
        BY DEF Alone
    <2>2. stack'[s][L].msg = n /\ n \notin 1 .. Len(to)
        BY <1>2, <1>4, <1>6
    <2>3. CASE t = s /\ j = L
        BY <1>7, <2>1, <2>2, <2>3
    <2>4. CASE u = s /\ k = L
        BY <1>7, <2>1, <2>2, <2>4
    <2>5. CASE ~(t = s /\ j = L) /\ ~(u = s /\ k = L)
        <3>1. Killing(t, j) /\ Killing(u, k) /\ stack[t][j].msg = stack[u][k].msg
            BY <1>7, <2>1, <2>5
        <3> QED
            BY <3>1 DEF DepthInv, Alone
    <2> QED
        BY <2>3, <2>4, <2>5
<1>9. Sent \subseteq Sent'
    <2>1. SUFFICES ASSUME NEW m \in Sent PROVE m \in Sent'
        OBVIOUS
    <2>2. m \in 1 .. Len(to) /\ m \in 1 .. Len(to') /\ m # n
        BY <1>6 DEF Sent
    <2>3. ASSUME NEW t \in Session, NEW k \in Nat, Killing(t, k)'
          PROVE  stack'[t][k].msg # m
        <3>1. CASE t = s /\ k = L
            BY <1>2, <1>4, <2>2, <3>1
        <3>2. CASE ~(t = s /\ k = L)
            BY <1>7, <2>3, <3>2 DEF Sent
        <3> QED
            BY <3>1, <3>2
    <2> QED
        BY <2>2, <2>3 DEF Sent
<1>10. /\ Cardinality(Sent) \in Nat /\ Cardinality(Sent') \in Nat
       /\ Cardinality(Sent) <= Cardinality(Sent')
    <2>1. /\ Len(to) \in Nat /\ Len(to') \in Nat
          /\ Sent \in SUBSET (1 .. Len(to)) /\ Sent' \in SUBSET (1 .. Len(to'))
        BY <1>6 DEF Sent
    <2> QED
        BY <1>9, <2>1, CountIs, CountGrows
<1>11. ASSUME NEW t \in Session PROVE Deep(t)'
    <2>1. Waiting(t)' = Waiting(t) /\ Waiting(t) \in {0, 1}
        BY DEF file_append, signals, Waiting
    <2>2. Len(stack'[t]) = Len(stack[t]) /\ Len(stack[t]) \in Nat
        BY <1>4, TopIs DEF Alike, L
    <2>3. Slack(t) <= Slack(t)'
        <3>1. CASE t = s
            BY <1>2, <1>4, <3>1 DEF Slack, Writing
        <3>2. CASE t # s
            BY <1>4, <3>2 DEF Slack, Alike, Top
        <3> QED
            BY <3>1, <3>2
    <2>4. Deepens(Len(stack[t]), Waiting(t), Slack(t), Len(stack'[t]), Waiting(t)', Slack(t)')
        BY <2>1, <2>2, <2>3 DEF Deepens
    <2> QED
        BY <1>10, <2>4, DeepStep
<1> QED
    BY <1>8, <1>11 DEF DepthInv

\* The message of a kill is sent, for no other activation had it to send.
LEMMA KillDeep ==
    ASSUME TypedInv, TypedInv', DepthInv, NEW s \in Session, Kill(s)
    PROVE  DepthInv'
<1> DEFINE L == Len(stack[s])
           m == Top(s).msg
<1>1. Top(s).at = "kill" /\ m \in 1 .. Len(to)
    BY TopIs DEF Kill, At, Local
<1>2. Len(stack[s]) > 1 /\ L \in Nat /\ L \in 1 .. L /\ Top(s) = stack[s][L]
    <2>1. Len(stack[s]) # 1
        BY <1>1, Disposed DEF Bases
    <2> QED
        BY <2>1, TopIs, OneOrMore, Zenon
<1>3. Return(s) /\ to' = to
    BY DEF Kill, mail
<1>4. Alike(s) /\ Kept(s, L - 1) /\ Len(stack'[s]) = L - 1
    BY <1>2, <1>3, ReturnIs
<1>5. ASSUME NEW t \in Session, NEW k \in Nat, Killing(t, k)'
      PROVE  /\ Killing(t, k) /\ stack'[t][k].msg = stack[t][k].msg
             /\ ~(t = s /\ k = L)
    <2>1. CASE t # s
        <3>1. stack'[t] = stack[t]
            BY <1>4, <2>1 DEF Alike
        <3> QED
            BY <1>5, <2>1, <3>1 DEF Killing
    <2>2. CASE t = s
        <3>1. k \in 1 .. L - 1
            BY <1>4, <1>5, <2>2 DEF Killing
        <3>2. k \in 1 .. Len(stack[s]) /\ stack'[s][k] = stack[s][k] /\ k # L
            BY <1>2, <1>4, <3>1 DEF Kept
        <3> QED
            BY <1>5, <2>2, <3>2 DEF Killing
    <2> QED
        BY <2>1, <2>2
<1>6. Killing(s, L) /\ stack[s][L].msg = m
    BY <1>1, <1>2 DEF Killing
<1> HIDE DEF L, m
<1>7. m \in Sent' \ Sent
    <2>1. m \notin Sent
        BY <1>2, <1>6 DEF Sent
    <2>2. ASSUME NEW t \in Session, NEW k \in Nat, Killing(t, k)', stack'[t][k].msg = m
          PROVE  FALSE
        <3>1. Killing(t, k) /\ stack[t][k].msg = m /\ ~(t = s /\ k = L)
            BY <1>5, <2>2
        <3> QED
            BY <1>2, <1>6, <3>1 DEF DepthInv, Alone
    <2>3. m \in 1 .. Len(to')
        BY <1>1, <1>3
    <2> QED
        BY <2>1, <2>2, <2>3 DEF Sent
<1>8. /\ Alone' /\ Cardinality(Sent) \in Nat /\ Cardinality(Sent') \in Nat
      /\ Cardinality(Sent) <= Cardinality(Sent')
      /\ Cardinality(Sent) + 1 <= Cardinality(Sent')
    BY <1>3, <1>5, <1>7, NobodyKills DEF DepthInv
<1>9. ASSUME NEW t \in Session PROVE Deep(t)'
    <2>1. CASE t = s
        <3>1. Len(stack'[t]) = Len(stack[t]) - 1
            BY <1>4, <2>1 DEF L
        <3> QED
            BY <1>8, <3>1, DeepStep
    <2>2. CASE t # s
        <3>1. stack'[t] = stack[t] /\ Len(stack[t]) \in Nat
            BY <1>4, <2>2, TopIs DEF Alike
        <3>2. Len(stack'[t]) <= Len(stack[t]) /\ Slack(t) <= Slack(t)'
            BY <3>1 DEF Slack, Top
        <3> QED
            BY <1>8, <3>2, DeepStep
    <2> QED
        BY <2>1, <2>2
<1> QED
    BY <1>8, <1>9 DEF DepthInv

LEMMA RunDeep ==
    ASSUME TypedInv, TypedInv', DepthInv, NEW s \in Session, Run(s)
    PROVE  DepthInv'
<1>1. Top(s) \in Activation
    BY TopIs
<1>2. CASE Enter(s)
    <2> DEFINE b == s \in GetKey /\ RMSG[s]
    <2> HIDE DEF b
    <2>1. [Top(s) EXCEPT !.at = "loop", !.premsg = b].at = "loop"
        BY <1>1 DEF Activation
    <2>2. Become(s, [Top(s) EXCEPT !.at = "loop", !.premsg = b])
        BY <1>2 DEF Enter, b
    <2> QED
        BY <1>2, <2>1, <2>2, MoveDeep DEF Enter, At, mail, Writing
<1>3. CASE Loop(s)
    <2>1. CASE msg_num[s] = 0
        BY <1>3, <2>1, GotoDeep DEF Loop, At, mail, signals, Writing, Places
    <2>2. CASE msg_num[s] # 0
        <3> DEFINE n == Len(msgfile(s))
        <3> HIDE DEF n
        <3>1. [Top(s) EXCEPT !.at = "read", !.i = n].at = "read"
            BY <1>1 DEF Activation
        <3>2. Become(s, [Top(s) EXCEPT !.at = "read", !.i = n])
            BY <1>3, <2>2 DEF Loop, n
        <3> QED
            BY <1>3, <3>1, <3>2, MoveDeep DEF Loop, At, mail, signals, Writing
    <2> QED
        BY <2>1, <2>2
<1>4. CASE Read(s)
    <2> DEFINE p == IF s \in GetKey THEN "key" ELSE "loop"
    <2>1. PICK m : Become(s, [Top(s) EXCEPT !.at = p, !.i = 0, !.msg = m])
        BY <1>4 DEF Read
    <2>2. p # "kill"
        OBVIOUS
    <2> HIDE DEF p
    <2>3. [Top(s) EXCEPT !.at = p, !.i = 0, !.msg = m].at = p
        BY <1>1 DEF Activation
    <2> QED
        BY <1>4, <2>1, <2>2, <2>3, MoveDeep DEF Read, At, mail, signals, Writing
<1>5. CASE Look(s)
    <2>1. PICK m : Become(s, [Top(s) EXCEPT !.at = "choose", !.msg = m])
        BY <1>5 DEF Look
    <2>2. [Top(s) EXCEPT !.at = "choose", !.msg = m].at = "choose"
        BY <1>1 DEF Activation
    <2> QED
        BY <1>5, <2>1, <2>2, MoveDeep DEF Look, At, mail, signals, Writing
<1>6. CASE Vanished(s)
    <2>1. PICK q \in {"enter", "reset"} : Become(s, Fresh(q))
        BY <1>6 DEF Vanished
    <2>2. Fresh(q).at = q
        BY DEF Fresh
    <2> QED
        BY <1>6, <2>1, <2>2, MoveDeep DEF Vanished, At, mail, signals, Writing
<1>7. CASE Close(s)
    <2>1. PICK q \in {"enter", "reset"} : Goto(s, q)
        BY <1>7 DEF Close
    <2>2. q \in Places /\ q # "kill"
        BY <2>1 DEF Places
    <2> QED
        BY <1>7, <2>1, <2>2, GotoDeep DEF Close, At, mail, signals, Writing
<1>8. CASE Install(s) \/ Browsing(s) \/ Started(s) \/ (At(s, "back") /\ Back(s))
    <2>1. PICK q \in {"restore", "look", "away", "main"} : Goto(s, q)
        BY <1>8 DEF Install, Browsing, Started, Back
    <2>2. q \in Places /\ q # "kill"
        BY <2>1 DEF Places
    <2>3. to' = to /\ pending' = pending /\ Top(s).at \notin Writing
        BY <1>8 DEF Install, Browsing, Started, Back, At, mail, signals, Writing
    <2> QED
        BY <2>1, <2>2, <2>3, GotoDeep
<1>9. CASE Missing(s) \/ Restore(s) \/ Reset(s) \/ Offline(s)
    <2>1. Return(s) /\ to' = to /\ pending' = pending /\ Top(s).at \notin Bases
        BY <1>9 DEF Missing, Restore, Reset, Offline, At, mail, signals, Bases
    <2> QED
        BY <2>1, ReturnDeep
<1> QED
    BY <1>2, <1>3, <1>4, <1>5, <1>6, <1>7, <1>8, <1>9, AppendDeep, KillDeep DEF Run

LEMMA KeysDeep ==
    ASSUME TypedInv, TypedInv', DepthInv, NEW s \in Session, Keys(s)
    PROVE  DepthInv'
<1>1. Top(s) \in Activation
    BY TopIs
<1>2. CASE Choose(s)
    <2>1. PICK n : Become(s, [Top(s) EXCEPT !.at = "look", !.MsgNum = n])
        BY <1>2 DEF Choose
    <2>2. [Top(s) EXCEPT !.at = "look", !.MsgNum = n].at = "look"
        BY <1>1 DEF Activation
    <2> QED
        BY <1>2, <2>1, <2>2, MoveDeep DEF Choose, At, mail, signals, Writing
<1>3. CASE Quit(s)
    <2>1. Fresh("close").at = "close" /\ Become(s, Fresh("close"))
        BY <1>3 DEF Quit, Fresh
    <2> QED
        BY <1>3, <2>1, MoveDeep DEF Quit, At, mail, signals, Writing
<1>4. CASE Key(s) \/ Compose(s) \/ Returned(s) \/ (At(s, "locked") /\ Back(s))
    <2>1. PICK q \in {"loop", "append", "back", "main"} : Goto(s, q)
        BY <1>4 DEF Key, Compose, Returned, Back
    <2>2. q \in Places /\ q # "kill"
        BY <2>1 DEF Places
    <2>3. to' = to /\ pending' = pending /\ Top(s).at \notin Writing
        BY <1>4 DEF Key, Compose, Returned, Back, At, mail, signals, Writing
    <2> QED
        BY <2>1, <2>2, <2>3, GotoDeep
<1>5. CASE Cancel(s) \/ Keep(s) \/ Clear(s)
    <2>1. Return(s) /\ to' = to /\ pending' = pending /\ Top(s).at \notin Bases
        BY <1>5 DEF Cancel, Keep, Clear, At, mail, signals, Bases
    <2> QED
        BY <2>1, ReturnDeep
<1>6. ASSUME NEW t \in Session PROVE LET e == [Fresh("append") EXCEPT !.uin = t]
                                     IN  e \in Activation /\ e.at = "append"
    <2>1. Fresh("append") \in Activation /\ Fresh("append").at = "append"
        <3>1. "append" \in Places
            BY DEF Places
        <3> QED
            BY <3>1, FreshIs
    <2> QED
        BY <2>1 DEF Activation
<1>7. ASSUME NEW t \in Session, Reply(s, t) PROVE DepthInv'
    <2> DEFINE f == [Top(s) EXCEPT !.at = "loop"]
               e == [Fresh("append") EXCEPT !.uin = t]
    <2>1. f \in Activation /\ f.at = "loop"
        <3>1. "loop" \in Places
            BY DEF Places
        <3> QED
            BY <1>1, <3>1, FrameIs
    <2>2. e \in Activation /\ e.at = "append"
        BY <1>6
    <2>3. stack' = [stack EXCEPT ![s] = Below(s) \o <<f, e>>]
        BY <1>7 DEF Reply
    <2> HIDE DEF f, e
    <2> QED
        BY <1>7, <2>1, <2>2, <2>3, AnswerDeep DEF Reply, At, mail, signals, Writing
<1>8. ASSUME NEW t \in Session, Answer(s, t) PROVE DepthInv'
    <2> DEFINE f == Fresh("close")
               e == [Fresh("append") EXCEPT !.uin = t]
    <2>1. f \in Activation /\ f.at = "close"
        <3>1. "close" \in Places
            BY DEF Places
        <3> QED
            BY <3>1, FreshIs
    <2>2. e \in Activation /\ e.at = "append"
        BY <1>6
    <2>3. stack' = [stack EXCEPT ![s] = Below(s) \o <<f, e>>]
        BY <1>8 DEF Answer
    <2> HIDE DEF f, e
    <2> QED
        BY <1>8, <2>1, <2>2, <2>3, AnswerDeep DEF Answer, At, mail, signals, Writing
<1> QED
    BY <1>2, <1>3, <1>4, <1>5, <1>7, <1>8 DEF Keys

LEMMA CommandDeep ==
    ASSUME TypedInv, TypedInv', DepthInv, NEW s \in Session, Command(s)
    PROVE  DepthInv'
<1>1. ASSUME NEW t \in Session, Address(s, t) PROVE DepthInv'
    <2> DEFINE f == [Fresh("compose") EXCEPT !.uin = t]
    <2>1. f.at = "compose" /\ Call(s, f)
        BY <1>1 DEF Address, Fresh
    <2> HIDE DEF f
    <2> QED
        BY <1>1, <2>1, CallDeep DEF Address, At, mail, signals
<1>2. CASE Browse(s)
    <2> DEFINE f == [Fresh("browse") EXCEPT !.i = Len(msgfile(s))]
    <2>1. f.at = "browse" /\ Call(s, f)
        BY <1>2 DEF Browse, Fresh
    <2> HIDE DEF f
    <2> QED
        BY <1>2, <2>1, CallDeep DEF Browse, At, mail, signals
<1>3. CASE View(s)
    <2>1. Fresh("clear").at = "clear" /\ Call(s, Fresh("clear"))
        BY <1>3 DEF View, Fresh
    <2> QED
        BY <1>3, <2>1, CallDeep DEF View, At, mail, signals
<1>4. CASE Execute(s) \/ Lock(s) \/ Leave(s)
    <2>1. PICK q \in {"program", "locked", "gone"} : Goto(s, q)
        BY <1>4 DEF Execute, Lock, Leave
    <2>2. q \in Places /\ q # "kill"
        BY <2>1 DEF Places
    <2>3. to' = to /\ Top(s).at \notin Writing
        BY <1>4 DEF Execute, Lock, Leave, At, mail, Writing
    <2>4. \A t \in Session : pending'[t] => pending[t]
        BY <1>4 DEF Execute, Lock, Leave, signals, TypedInv, Fields
    <2> QED
        BY <2>1, <2>2, <2>3, <2>4, GotoDeep
<1> QED
    BY <1>1, <1>2, <1>3, <1>4 DEF Command

LEMMA DepthStep == TypedInv /\ TypedInv' /\ DepthInv /\ [Next]_vars => DepthInv'
<1> SUFFICES ASSUME TypedInv, TypedInv', DepthInv, [Next]_vars PROVE DepthInv'
    OBVIOUS
<1>1. CASE UNCHANGED vars
    BY <1>1 DEF vars, mail, signals, DepthInv, Alone, Killing, Deep, Sent, Waiting,
       Slack, Top
<1>2. ASSUME NEW s \in Session, Signal(s) PROVE DepthInv'
    BY <1>2, SignalDeep DEF Signal
<1> QED
    BY <1>1, <1>2, RunDeep, KeysDeep, CommandDeep DEF Next

LEMMA DepthInit == Init => DepthInv
<1> SUFFICES ASSUME Init PROVE DepthInv
    OBVIOUS
<1> DEFINE st == <<Fresh("main")>>
<1>1. Fresh("main").at = "main"
    BY DEF Fresh
<1>2. Len(st) = 1 /\ st[1].at = "main"
    BY <1>1
<1> HIDE DEF st
<1>3. \A s \in Session : stack[s] = st /\ ~pending[s]
    BY DEF Init, st
<1>4. ASSUME NEW s \in Session, NEW k \in Nat PROVE ~Killing(s, k)
    BY <1>2, <1>3 DEF Killing
<1>5. Cardinality(Sent) \in Nat
    BY TypedInit, SentIs
<1>6. ASSUME NEW s \in Session PROVE Deep(s)
    <2>1. Len(stack[s]) = 1 /\ Waiting(s) = 0
        BY <1>2, <1>3 DEF Waiting
    <2> QED
        BY <1>5, <2>1 DEF Deep, Bounded
<1> QED
    BY <1>4, <1>6 DEF DepthInv, Alone

\* Every variable has its type: above all, a process never has more activations
\* on its stack than Depth, whatever displays, answers and browsers interrupt one
\* another, for a signal is taken only where signals are not just counted, and
\* each was sent for a message of its own (r_msg's and r_msg2's signal calls).
THEOREM TypesHold == Spec => []TypeOK
<1>1. Init => TypedInv /\ DepthInv
    BY TypedInit, DepthInit
<1>2. TypedInv /\ DepthInv /\ [Next]_vars => (TypedInv /\ DepthInv)'
    BY TypedStep, DepthStep
<1>3. TypedInv /\ DepthInv => TypeOK
    <2> SUFFICES ASSUME TypedInv, DepthInv PROVE TypeOK
        OBVIOUS
    <2>1. /\ Len(to) \in Nat /\ Len(to) <= MaxMessages
          /\ from \in Seq(Session) /\ to \in Seq(Session) /\ Len(from) = Len(to)
          /\ DOMAIN to = 1 .. Len(to)
        BY DEF TypedInv, Mail
    <2>2. ASSUME NEW a \in Account
          PROVE  /\ Len(file[a]) <= MaxMessages /\ DOMAIN file = Account
                 /\ \A k \in DOMAIN file[a] :
                       file[a][k] \in DOMAIN to /\ owner[to[file[a][k]]] = a
        <3>1. /\ file[a] \in Seq(Nat) /\ Len(file[a]) <= Len(to)
              /\ \A k \in 1 .. Len(file[a]) :
                    file[a][k] \in 1 .. Len(to) /\ owner[to[file[a][k]]] = a
            BY DEF TypedInv, Mail
        <3>2. Len(file[a]) \in Nat /\ DOMAIN file[a] = 1 .. Len(file[a])
            BY <3>1
        <3>3. Len(file[a]) <= MaxMessages
            BY <2>1, <3>1, <3>2, BoundAssumption
        <3> QED
            BY <2>1, <3>1, <3>2, <3>3 DEF TypedInv, Mail
    <2>3. ASSUME NEW s \in Session
          PROVE  /\ Len(stack[s]) \in 1 .. Depth
                 /\ \A k \in DOMAIN stack[s] : stack[s][k] \in Activation
        <3> DEFINE n == Len(stack[s])
        <3>1. stack[s] \in Seq(Activation) /\ n \in Nat /\ n >= 1
            BY TopIs
        <3>2. Bounded(n, Waiting(s), Slack(s), Cardinality(Sent))
            BY DEF DepthInv, Deep
        <3>3. Cardinality(Sent) \in Nat /\ Cardinality(Sent) <= MaxMessages
            BY <2>1, SentIs, BoundAssumption
        <3>4. Waiting(s) \in {0, 1} /\ Slack(s) \in {3, 4}
            BY DEF Waiting, Slack
        <3>5. n \in 1 .. Depth
            <4> HIDE DEF n
            <4> QED
                BY <3>1, <3>2, <3>3, <3>4, BoundAssumption DEF Bounded, Depth
        <3> QED
            BY <3>1, <3>5
    <2>4. told \subseteq MsgId /\ shown \subseteq MsgId
        BY <2>1, BoundAssumption DEF TypedInv, Fields, MsgId
    <2>5. DOMAIN file = Account /\ DOMAIN stack = Session
        BY DEF TypedInv, Mail, Fields
    <2> QED
        BY <2>1, <2>2, <2>3, <2>4, <2>5 DEF TypeOK, TypedInv, Fields
<1> QED
    BY <1>1, <1>2, <1>3, PTL DEF Spec
===============================================================================
