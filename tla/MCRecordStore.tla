---------------------------- MODULE MCRecordStore ----------------------------
(* Instances of RecordStore for TLC. *)
EXTENDS RecordStore, TLC

CONSTANTS p1, p2

\* Two articles of the same second, then later ones.
MCFiletime == [n \in Name |-> (n + 2) \div 2]

Entry(n, r) == [name |-> n, rev |-> r]
TwoPosts == <<Entry(1, 0), Entry(2, 1)>>
ThreePosts == <<Entry(1, 0), Entry(2, 1), Entry(3, 0)>>

\* A board's .DIR: a moderator, and an author who may delete his own posts.
BoardOps == (p1 :> {"delete_file", "process", "safe_sorted"})
         @@ (p2 :> {"delete_file", "append", "safe_sorted"})

\* A mailbox or an announce index: one session edits, another one delivers.
SingleOps == (p1 :> {"delete_file", "process", "substitute",
                     "delete_record", "move", "safe_linear"})
          @@ (p2 :> {"append"})

\* Two maintainers of an index of two pages.
BinOps == (p1 :> {"delete_file"}) @@ (p2 :> {"process", "sort", "move"})
=============================================================================
