--------------------------- MODULE RequestContract ---------------------------
(***************************************************************************)
(* What sendWithFallback and its three callers promise a client, without   *)
(* saying how: a request that was accepted is answered once, after at most *)
(* FallbackAttempts calls upstream, no model of which is asked twice --    *)
(* but for the first one, which a concurrent success may offer again.      *)
(***************************************************************************)
EXTENDS Integers, Sequences, Functions

CONSTANTS Reqs, Models, FallbackAttempts

VARIABLES
    phase,     \* of each request: "idle", "open" or "over"
    asked,     \* the models it asked upstream for so far, in order
    outcome    \* "none" while it is open, then what the client was told

vars == <<phase, asked, outcome>>

Init ==
    /\ phase = [r \in Reqs |-> "idle"]
    /\ asked = [r \in Reqs |-> <<>>]
    /\ outcome = [r \in Reqs |-> "none"]

Accept(r) ==
    /\ phase[r] # "open"
    /\ phase' = [phase EXCEPT ![r] = "open"]
    /\ outcome' = [outcome EXCEPT ![r] = "none"]
    /\ UNCHANGED asked

Ask(r, m) ==
    /\ phase[r] = "open"
    /\ Len(asked[r]) < FallbackAttempts
    /\ m \in Range(asked[r]) => asked[r] = <<m>>
    /\ asked' = [asked EXCEPT ![r] = Append(@, m)]
    /\ UNCHANGED <<phase, outcome>>

\* Only an answer of upstream serves a request or fails it with an error; it
\* can be refused as throttled without having been sent at all.
Answer(r, o) ==
    /\ phase[r] = "open"
    /\ o # "throttled" => asked[r] # <<>>
    /\ phase' = [phase EXCEPT ![r] = "over"]
    /\ outcome' = [outcome EXCEPT ![r] = o]
    /\ asked' = [asked EXCEPT ![r] = <<>>]

Next ==
    \E r \in Reqs :
        \/ Accept(r)
        \/ \E m \in Models : Ask(r, m)
        \/ \E o \in {"served", "error", "throttled"} : Answer(r, o)

Spec == Init /\ [][Next]_vars
=============================================================================
