------------------------------ MODULE MCStream ------------------------------
(***************************************************************************)
(* A small instance of Stream for TLC.                                     *)
(***************************************************************************)
EXTENDS Stream, TLC

CONSTANTS hy3, glm

User(content) == [role |-> "user", content |-> content]
System(content) == [role |-> "system", content |-> content]

Chat == [kind |-> "object", prefixed |-> FALSE, model |-> glm, stream |-> TRUE,
         high |-> FALSE, messages |-> <<User(<<"plain">>)>>]

\* The agent's prompt; its templates in a later message, next to an image; a
\* system message that is not the first one; no message; not an object.
Payloads == {
    [Chat EXCEPT !.messages = <<System(<<"template">>), User(<<"plain">>)>>],
    [Chat EXCEPT !.messages = <<User(<<"plain">>), System(<<"image", "template">>)>>],
    [Chat EXCEPT !.messages = <<>>],
    [Chat EXCEPT !.model = hy3],
    [Chat EXCEPT !.model = hy3, !.prefixed = TRUE],
    Junk}

\* What reaches the stream path asks for a stream; the other one may not.
MCRequests ==
    {[path |-> path, framed |-> framed, region |-> region,
      payload |-> payload, original |-> Empty] :
        path \in {"pump", "collect"}, framed \in BOOLEAN,
        region \in {"cn", "global"}, payload \in Payloads}
    \cup
    {[path |-> "completion", framed |-> FALSE, region |-> region,
      payload |-> Empty, original |-> Unstreamed] :
        region \in {"cn", "global"},
        Unstreamed \in {[b EXCEPT !.stream = FALSE] : b \in Payloads \ {Junk}} \cup {Junk}}

Delta(some, none) == [f \in some \cup none |-> IF f \in some THEN "text" ELSE "empty"]

MCLines == {
    Blank, Broken,
    Chunk(Delta({"role", "reasoning_content"}, {"content"}), "none"),
    Chunk(Delta({"thinking"}, {"tool_calls", "content"}), "none"),
    Chunk(Delta({"content"}, {"tool_calls", "reasoning_content"}), "none"),
    Chunk(Delta({"tool_calls"}, {"content"}), "none"),
    Chunk(Delta({}, {"content"}), "stop"),
    Chunk(Delta({}, {}), "tool_calls")}
=============================================================================
