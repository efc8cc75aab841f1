------------------------------ MODULE MCMessages ------------------------------
(* Instances of Messages for TLC. *)
EXTENDS Messages

CONSTANTS ann1, ann2, bob, ann, bobs

TwoOfAnn == [s \in Session |-> IF s = bob THEN bobs ELSE ann]

Everything == [s \in Session |->
    CASE s = ann1 -> {"browse", "execute"}
      [] s = ann2 -> {"view"}
      [] s = bob -> {"write", "lock", "leave"}]
=============================================================================
