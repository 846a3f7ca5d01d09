----------------------------- MODULE MCAdvertise -----------------------------
(***************************************************************************)
(* Small instances of Advertise for TLC.                                   *)
(***************************************************************************)
EXTENDS Advertise

CONSTANTS c1, c2, hy3, glm

\* Both serve hy3, the first one something else as well.
MCServes == [c \in Creds |-> IF c = c1 THEN Models ELSE {hy3}]

\* Requests come for hy3 alone: whatever hides the other model is wrong.
MCRoutes == {k \in Keys : k[2] = hy3}

Frequency == [retryAfter |-> 0, resetIn |-> 0, exhausted |-> FALSE]
Credits == [Frequency EXCEPT !.exhausted = TRUE]
\* Longer than cooldownResetMax: a "reset at" hours away.
FarReset == [Frequency EXCEPT !.resetIn = CooldownResetMax + 1]

\* What two calls of one model can come to; and, for whole behaviours, the two
\* waits of more than a tick, of which a shorter one is the rest.
MCRefusals == {Frequency, Credits}
MCLongRefusals == {FarReset, Credits}
=============================================================================
