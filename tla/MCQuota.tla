------------------------------ MODULE MCQuota ------------------------------
(***************************************************************************)
(* A small instance of Quota for TLC.                                      *)
(***************************************************************************)
EXTENDS Quota

Row(code, left) == [code |-> code, left |-> left, total |-> 5]
Free(code, refills, slice) == [code |-> code, ends |-> TRUE, refills |-> refills, slice |-> slice]

\* A sliced package that has less left than another free one and a purchase.
Sliced == [summary |-> "ok", plan |-> "paid", paid |-> FALSE,
           rows |-> <<Row("bought", 4), Row("bonus", 3), Row("plan", 1)>>,
           free |-> <<Free("plan", TRUE, {2}), Free("plan", FALSE, {}), Free("bonus", FALSE, {})>>]

\* api3 and the plan's route fail; a package has no code.
Plain == [summary |-> "ok", plan |-> "", paid |-> TRUE,
          rows |-> <<Row(NoCode, 2), Row("plan", 0)>>, free |-> <<>>]

Expired == [summary |-> "expired", plan |-> "", paid |-> FALSE, rows |-> <<>>, free |-> <<>>]

MCReplies == {Sliced, Plain, Expired}
=============================================================================
