------------------------------ MODULE Rewriting ------------------------------
(***************************************************************************)
(* What happens to a chat request on its way upstream (main.go,            *)
(* fallback.go), and to each line of the answer on its way back.  None of  *)
(* it holds state.                                                         *)
(***************************************************************************)
EXTENDS Sifting

CONSTANTS
    Ids,       \* bare model ids
    HyIds,     \* the hy3 family among them
    Fallbacks  \* ids nextFallbackModel may come up with

(***************************************************************************)
(* A body is a JSON object, something else, or empty.  The name of a model *)
(* is an id, with the configured prefix before it or not; a message's      *)
(* content is a sequence of texts, some of them templates that upstream's  *)
(* filter knows verbatim, and of parts without a text.                     *)
(***************************************************************************)
Texts == {"plain", "template", "reworded", "image"}
Message == [role : {"system", "user"}, content : Seq(Texts)]
Object == [kind : {"object"}, prefixed : BOOLEAN, model : Ids, stream : BOOLEAN,
           high : BOOLEAN, messages : Seq(Message)]
Junk == [kind |-> "junk"]
Empty == [kind |-> "empty"]
Body == Object \cup {Junk, Empty}

SystemPrompt == [role |-> "system", content |-> <<>>]

\* The payload, or the request it was made of when there is none.
Source(payload, original) == IF payload = Empty THEN original ELSE payload

\* Whatever is not an object is passed on as it came.
Rewritten(body, Change(_)) == IF body.kind = "object" THEN Change(body) ELSE body

forceStreamBody(payload, original) ==
    Rewritten(Source(payload, original), LAMBDA b : [b EXCEPT !.stream = TRUE])

sanitizeBlockedTemplates(text) == IF text = "template" THEN "reworded" ELSE text

rewriteContentField(message) ==
    [message EXCEPT !.content =
        [i \in DOMAIN @ |-> sanitizeBlockedTemplates(@[i])]]

\* The name is looked at as the client wrote it.
forceMaxThinking(body) ==
    [body EXCEPT !.high = @ \/ (~body.prefixed /\ body.model \in HyIds)]

rewriteSystemForUpstream(payload) ==
    Rewritten(payload, LAMBDA b :
        forceMaxThinking([b EXCEPT !.messages =
            [i \in DOMAIN @ |-> rewriteContentField(@[i])]]))

\* A regression: a system message anywhere will do.
EnsureSystemAnywhere(payload, region) ==
    Rewritten(payload, LAMBDA b :
        IF \/ region # "global" \/ b.messages = <<>>
           \/ \E m \in Range(b.messages) : m.role = "system"
        THEN b ELSE [b EXCEPT !.messages = <<SystemPrompt>> \o @])

ensureSystemFirst(payload, region) ==
    Rewritten(payload, LAMBDA b :
        IF region # "global" \/ b.messages = <<>> \/ Head(b.messages).role = "system"
        THEN b ELSE [b EXCEPT !.messages = <<SystemPrompt>> \o @])

stripModelPrefixInBody(payload) ==
    Rewritten(payload, LAMBDA b : [b EXCEPT !.prefixed = FALSE])

\* A regression: the body is made anew, of the model alone.
SetModelOnly(payload, id) ==
    Rewritten(payload, LAMBDA b : [kind |-> "object", model |-> id])

setModelInBody(payload, id) ==
    Rewritten(payload, LAMBDA b : [b EXCEPT !.model = id, !.prefixed = FALSE])

\* handleExecExecute forces the stream; handleExecStream takes the client's
\* word for it.
Outgoing(path, payload, original, region) ==
    LET body == IF path = "completion" THEN forceStreamBody(payload, original)
                ELSE Source(payload, original)
    IN  stripModelPrefixInBody(ensureSystemFirst(rewriteSystemForUpstream(body), region))

-----------------------------------------------------------------------------
(***************************************************************************)
(* The lines of an answer: blank (or [DONE]), not JSON (a comment, a       *)
(* broken line), or a chunk.  The delta of a chunk maps the fields it has  *)
(* to "text" or to an empty value; reasoning goes by several names.        *)
(***************************************************************************)
ReasoningFields == {"reasoning_content", "reasoning", "thinking", "thinking_content"}
Fields == {"role", "content", "tool_calls"} \cup ReasoningFields
Finishes == {"none", "stop", "tool_calls", "length"}

Blank == [kind |-> "blank"]
Broken == [kind |-> "broken"]
Chunk(delta, finish) == [kind |-> "chunk", delta |-> delta, finish |-> finish]

isEmptyValue(v) == v = "empty"

\* A regression: a delta with an empty field is emptied.
CleanAll(line) ==
    IF line.kind # "chunk" \/ ~\E f \in DOMAIN line.delta : isEmptyValue(line.delta[f])
    THEN line ELSE [line EXCEPT !.delta = <<>>]

\* Fields with an empty value are taken out of the delta.
cleanChunkJSON(line) ==
    IF line.kind # "chunk" THEN line
    ELSE [line EXCEPT !.delta =
             Restrict(@, {f \in DOMAIN @ : ~isEmptyValue(@[f])})]

Says(line, fields) ==
    /\ line.kind = "chunk"
    /\ \E f \in fields \cap DOMAIN line.delta : ~isEmptyValue(line.delta[f])

(***************************************************************************)
(* upstreamStreamState                                                     *)
(***************************************************************************)
StreamState == [sawReasoning : BOOLEAN, sawContent : BOOLEAN,
                sawToolCalls : BOOLEAN, finish : Finishes]

NothingSeen == [sawReasoning |-> FALSE, sawContent |-> FALSE,
                sawToolCalls |-> FALSE, finish |-> "none"]

FinishOf(line, before) ==
    IF line.kind = "chunk" /\ line.finish # "none" THEN line.finish ELSE before

\* A regression: reasoning is known by one name only.
ObserveOneName(st, line) ==
    [sawReasoning |-> st.sawReasoning \/ Says(line, {"reasoning_content"}),
     sawContent   |-> st.sawContent \/ Says(line, {"content"}),
     sawToolCalls |-> st.sawToolCalls \/ Says(line, {"tool_calls"}),
     finish       |-> FinishOf(line, st.finish)]

observe(st, line) ==
    [sawReasoning |-> st.sawReasoning \/ Says(line, ReasoningFields),
     sawContent   |-> st.sawContent \/ Says(line, {"content"}),
     sawToolCalls |-> st.sawToolCalls \/ Says(line, {"tool_calls"}),
     finish       |-> FinishOf(line, st.finish)]

ReasoningOnly(st) == st.sawReasoning /\ ~st.sawContent /\ ~st.sawToolCalls

\* A regression: a stream that was cut is said to have stopped.
TrailingStop(st) ==
    IF ReasoningOnly(st)
    THEN <<Chunk([content |-> "text"], IF st.finish = "none" THEN "stop" ELSE st.finish)>>
    ELSE <<>>

\* A regression: whatever the client heard, it is concluded.
TrailingAlways(st) ==
    <<Chunk([content |-> "text"], IF st.finish = "none" THEN "length" ELSE st.finish)>>

\* The chunk that makes a reasoning-only answer a complete one, if it is one.
trailingChunk(st) ==
    IF ReasoningOnly(st)
    THEN <<Chunk([content |-> "text"], IF st.finish = "none" THEN "length" ELSE st.finish)>>
    ELSE <<>>

(***************************************************************************)
(* What a client gets to see of a sequence of lines: for each field the    *)
(* lines that carry some of it, in order, and the finish reason.           *)
(***************************************************************************)
Carrying(lines, field) ==
    Places({i \in DOMAIN lines : Says(lines[i], {field})}, Len(lines))

\* Without a finish reason it is "stop".
LastFinish(lines) == FoldLeft(LAMBDA f, l : FinishOf(l, f), "stop", lines)

\* One message for the whole answer.  Of the names of reasoning it knows one.
aggregateCompletion(lines) ==
    [content   |-> Carrying(lines, "content"),
     reasoning |-> Carrying(lines, "reasoning_content"),
     toolCalls |-> Carrying(lines, "tool_calls"),
     finish    |-> LastFinish(lines)]
=============================================================================
