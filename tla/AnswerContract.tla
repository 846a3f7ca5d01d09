--------------------------- MODULE AnswerContract ---------------------------
(***************************************************************************)
(* What the host may rely on when it has a request answered, without       *)
(* saying how: chunks that stand for ever later lines of upstream, at most *)
(* one chunk of the plugin's own after them, and one end.  A chunk that    *)
(* the host refuses is the last one.  Only a request of which nothing was  *)
(* handed over yet can fail.                                               *)
(***************************************************************************)
EXTENDS Integers, Sequences

CONSTANT MaxLines  \* bound: lines of one answer

VARIABLES
    way,    \* "stream": chunks are pushed and the end is a close; "call"
    phase,  \* "idle"; "open", "shut" when no chunk may follow; "over"
    calls   \* what the host was handed so far, in order

vars == <<way, phase, calls>>

\* A chunk, with the line of upstream it stands for; 0 for the plugin's own.
Handed(from, accepted) == [call |-> "emit", from |-> from, accepted |-> accepted]
Said(call) == [call |-> call]

Init ==
    /\ way = "stream"
    /\ phase = "idle"
    /\ calls = <<>>

Begin(w) ==
    /\ phase = "idle"
    /\ phase' = "open"
    /\ way' = w
    /\ UNCHANGED calls

\* An error is all that is heard; a stream has to be closed as well.
Fail ==
    /\ phase = "open"
    /\ calls = <<>>
    /\ calls' = IF way = "stream" THEN <<Said("error"), Said("close")>>
                ELSE <<Said("error")>>
    /\ phase' = "over"
    /\ UNCHANGED way

\* Only who is being pushed chunks can refuse one.
Hand(from, accepted) ==
    /\ phase = "open"
    /\ \A i \in DOMAIN calls : calls[i].from < from
    /\ way = "call" => accepted
    /\ calls' = Append(calls, Handed(from, accepted))
    /\ phase' = IF accepted THEN "open" ELSE "shut"
    /\ UNCHANGED way

Conclude(accepted) ==
    /\ phase = "open"
    /\ calls # <<>>
    /\ way = "call" => accepted
    /\ calls' = Append(calls, Handed(0, accepted))
    /\ phase' = "shut"
    /\ UNCHANGED way

End ==
    /\ phase \in {"open", "shut"}
    /\ calls' = Append(calls, Said(IF way = "stream" THEN "close" ELSE "answer"))
    /\ phase' = "over"
    /\ UNCHANGED way

Forget ==
    /\ phase = "over"
    /\ phase' = "idle"
    /\ calls' = <<>>
    /\ way' = "stream"

Next ==
    \/ \E w \in {"stream", "call"} : Begin(w)
    \/ Fail
    \/ \E from \in 1..MaxLines, accepted \in BOOLEAN : Hand(from, accepted)
    \/ \E accepted \in BOOLEAN : Conclude(accepted)
    \/ End
    \/ Forget

Spec == Init /\ [][Next]_vars
=============================================================================
