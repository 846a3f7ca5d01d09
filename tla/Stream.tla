------------------------------- MODULE Stream -------------------------------
(***************************************************************************)
(* One chat request from its acceptance to the last thing the host hears   *)
(* of it (main.go): the request is rewritten and sent, and the lines of    *)
(* the answer reach the client one by one (pump), as a list of chunks when *)
(* all are there (collect), or folded into one message (completion).       *)
(*                                                                         *)
(* Upstream writes, stops or breaks off as it likes; the client of a pump  *)
(* may hang up at any moment, and the host refuses every chunk from then   *)
(* on.  Requests share nothing on this way -- the backoff table apart,     *)
(* which Fallback is about -- so one is enough.                            *)
(***************************************************************************)
EXTENDS Rewriting

CONSTANTS
    Requests,  \* what the host may ask for
    Lines,     \* lines upstream may write
    MaxLines   \* bound: lines of one answer

Paths == {"pump", "collect", "completion"}

(***************************************************************************)
(* A request: how it is to be answered, whether the client's format needs  *)
(* framed chunks, the account's realm, and the two bodies the host sends.  *)
(***************************************************************************)
Request == [path : Paths, framed : BOOLEAN, region : {"cn", "global"},
            payload : Body, original : Body]

ASSUME StreamAssumption ==
    /\ HyIds \subseteq Ids /\ Fallbacks \subseteq Ids
    /\ Requests \subseteq Request
    \* the host asks for a stream only where the client did
    /\ \A r \in Requests : r.path # "completion" =>
          LET body == Source(r.payload, r.original)
          IN  body.kind = "object" => body.stream
    /\ \A line \in Lines : \/ line \in {Blank, Broken}
                          \/ /\ line = Chunk(line.delta, line.finish)
                             /\ line.finish \in Finishes
    /\ MaxLines \in Nat

VARIABLES
    task,      \* the request under way
    client,    \* its client: is it still there?
    outgoing,  \* the body to be sent upstream
    upstream,  \* the lines read so far
    st,        \* upstreamStreamState
    host       \* what the host was handed so far, in order

vars == <<task, client, outgoing, upstream, st, host>>

-----------------------------------------------------------------------------

\* Where a request is; each step but the first and the last is named for what
\* comes next.
Steps == {"idle", "send", "read", "trailing", "close", "over"}

(***************************************************************************)
(* What the host can be handed: a chunk, which it may refuse; an error;    *)
(* the close of a stream; the answer of a call.  `line` is the cleaned     *)
(* line, `from` the line of upstream it was made of, 0 for the plugin's    *)
(* own.                                                                    *)
(***************************************************************************)
EmitOf(line, from, framed, accepted) ==
    [call |-> "emit", line |-> line, from |-> from, framed |-> framed, accepted |-> accepted]
StreamError == [call |-> "error"]
Close == [call |-> "close"]
Answer(message) == [call |-> "answer", message |-> message]
Chunks == [call |-> "answer"]

NoTask == [step |-> "idle", path |-> "pump", framed |-> FALSE, region |-> "cn"]

TypeOK ==
    /\ task \in [step : Steps, path : Paths, framed : BOOLEAN, region : {"cn", "global"}]
    /\ client \in {"there", "gone"}
    /\ outgoing \in Body
    /\ upstream \in Seq(Lines) /\ Len(upstream) <= MaxLines
    /\ st \in StreamState
    /\ \A i \in DOMAIN host : host[i].call \in {"emit", "error", "close", "answer"}

Init ==
    /\ task = NoTask
    /\ client = "there"
    /\ outgoing = Empty
    /\ upstream = <<>>
    /\ st = NothingSeen
    /\ host = <<>>

-----------------------------------------------------------------------------
\* handleExecExecute and handleExecStream, up to sendWithFallback.
Accept(r) ==
    /\ task.step = "idle"
    /\ task' = [step |-> "send", path |-> r.path, framed |-> r.framed, region |-> r.region]
    /\ outgoing' = Outgoing(r.path, r.payload, r.original, r.region)
    /\ UNCHANGED <<client, upstream, st, host>>

\* Another model answers (see Fallback): the body goes out under its name.
Swap(id) ==
    /\ task.step = "send"
    /\ outgoing' = setModelInBody(outgoing, id)
    /\ outgoing' # outgoing
    /\ UNCHANGED <<task, client, upstream, st, host>>

\* No answer at all, or a refusal: a pump says so on the stream, the other
\* two return an error.
Fail ==
    /\ task.step = "send"
    /\ task' = [task EXCEPT !.step = "over"]
    /\ host' = IF task.path = "pump" THEN <<StreamError, Close>> ELSE <<StreamError>>
    /\ outgoing' = Empty
    /\ UNCHANGED <<client, upstream, st>>

Open ==
    /\ task.step = "send"
    /\ task' = [task EXCEPT !.step = "read"]
    /\ outgoing' = Empty
    /\ UNCHANGED <<client, upstream, st, host>>

\* streamEmit: the host refuses what nobody waits for.
Emitted(line, from) == EmitOf(line, from, task.framed, task.path # "pump" \/ client = "there")

\* A regression: a refused chunk is ignored.
ReadOn(line) ==
    /\ task.step = "read"
    /\ Len(upstream) < MaxLines
    /\ upstream' = Append(upstream, line)
    /\ IF task.path = "completion" \/ line = Blank
       THEN UNCHANGED <<task, st, host>>
       ELSE /\ st' = observe(st, cleanChunkJSON(line))
            /\ host' = Append(host, Emitted(cleanChunkJSON(line), Len(upstream) + 1))
            /\ UNCHANGED task
    /\ UNCHANGED <<client, outgoing>>

\* One turn of the scanner's loop.  The first refused chunk is the last one.
Read(line) ==
    /\ task.step = "read"
    /\ Len(upstream) < MaxLines
    /\ upstream' = Append(upstream, line)
    /\ IF task.path = "completion" \/ line = Blank
       THEN UNCHANGED <<task, st, host>>
       ELSE LET emit == Emitted(cleanChunkJSON(line), Len(upstream) + 1)
            IN  /\ st' = observe(st, cleanChunkJSON(line))
                /\ host' = Append(host, emit)
                /\ task' = [task EXCEPT !.step = IF emit.accepted THEN "read" ELSE "close"]
    /\ UNCHANGED <<client, outgoing>>

\* A regression: the answer has to end with [DONE].
EndOnDone ==
    /\ task.step = "read"
    /\ \E i \in DOMAIN upstream : upstream[i] = Blank
    /\ task' = [task EXCEPT !.step = "trailing"]
    /\ UNCHANGED <<client, outgoing, upstream, st, host>>

\* Upstream is done, or was cut off: nobody looks which.
EndOfStream ==
    /\ task.step = "read"
    /\ task' = [task EXCEPT !.step = "trailing"]
    /\ UNCHANGED <<client, outgoing, upstream, st, host>>

\* Only framed chunks go to a translator, which needs a message to end on.
Trailing ==
    /\ task.step = "trailing"
    /\ task' = [task EXCEPT !.step = "close"]
    /\ host' = IF task.path # "completion" /\ task.framed /\ trailingChunk(st) # <<>>
               THEN Append(host, Emitted(Head(trailingChunk(st)), 0))
               ELSE host
    /\ UNCHANGED <<client, outgoing, upstream, st>>

Finish ==
    /\ task.step = "close"
    /\ task' = [task EXCEPT !.step = "over"]
    /\ host' = Append(host, CASE task.path = "pump"    -> Close
                              [] task.path = "collect" -> Chunks
                              [] OTHER                 -> Answer(aggregateCompletion(upstream)))
    /\ UNCHANGED <<client, outgoing, upstream, st>>

HangUp ==
    /\ task.step \notin {"idle", "over"}
    /\ task.path = "pump"
    /\ client = "there"
    /\ client' = "gone"
    /\ UNCHANGED <<task, outgoing, upstream, st, host>>

\* The next request starts from nothing.
Forget ==
    /\ task.step = "over"
    /\ task' = NoTask
    /\ client' = "there"
    /\ upstream' = <<>>
    /\ st' = NothingSeen
    /\ host' = <<>>
    /\ UNCHANGED outgoing

Progress ==
    \/ Fail
    \/ Open
    \/ \E line \in Lines : Read(line)
    \/ EndOfStream
    \/ Trailing
    \/ Finish

Next ==
    \/ \E r \in Requests : Accept(r)
    \/ \E id \in Fallbacks : Swap(id)
    \/ Progress
    \/ HangUp
    \/ Forget

Spec == Init /\ [][Next]_vars

\* The client of upstream allows 120 s for a whole answer; what comes after
\* that is the plugin's own work.
FairSpec == Spec /\ WF_vars(Progress) /\ WF_vars(task.step = "read" /\ EndOfStream)

-----------------------------------------------------------------------------
(***************************************************************************)
(* Properties                                                              *)
(***************************************************************************)

\* What goes out, on the first attempt and under any fallback's name, is what
\* upstream takes: a stream, of a bare id, opened by a system message on
\* Global, with no template its filter knows.
UpstreamAccepts ==
    task.step = "send" /\ outgoing.kind = "object" =>
        /\ outgoing.stream
        /\ ~outgoing.prefixed
        /\ task.region = "global" /\ outgoing.messages # <<>>
              => Head(outgoing.messages).role = "system"
        /\ \A m \in Range(outgoing.messages) : "template" \notin Range(m.content)

\* README.md:737: the hy3 family always thinks at "high", whatever the client
\* asked for.
HyThinksHard ==
    task.step = "send" /\ outgoing.kind = "object" /\ outgoing.model \in HyIds
    => outgoing.high

Emits == {i \in DOMAIN host : host[i].call = "emit"}
Refused == \E i \in Emits : ~host[i].accepted

\* The host hears the end of a request once, as the last thing: a close for a
\* stream, with or without an error before it, else an answer or an error.
\* Nothing but the close follows a chunk it refused.
EndsOnce ==
    /\ \A i \in Emits : ~host[i].accepted =>
          \A j \in DOMAIN host : j > i => host[j] = Close
    /\ task.step = "over" =>
          LET ends == IF task.path = "pump" THEN {"close"} ELSE {"answer", "error"}
          IN  {i \in DOMAIN host : host[i].call \in ends} = {Len(host)}

\* The lines of upstream from which the client heard of a field, in order.
Heard(field) ==
    LET carry == {i \in Emits : /\ host[i].accepted /\ host[i].from > 0
                                /\ Says(host[i].line, {field})}
        at == Places(carry, Len(host))
    IN  [n \in DOMAIN at |-> host[at[n]].from]

\* A client that stays hears every piece of every field once and in order,
\* whichever way its answer takes; one that hangs up, the beginning of it.
NothingLost ==
    /\ task.path # "completion" =>
          \A f \in Fields :
             LET said == Carrying(upstream, f)
             IN  /\ Heard(f) = SubSeq(said, 1, Len(Heard(f)))
                 /\ ~Refused /\ task.step = "over" /\ host[1] # StreamError
                       => Heard(f) = said
    /\ task.path = "completion" /\ task.step = "over" /\ host[1] # StreamError =>
          LET message == host[1].message
          IN  /\ message.content = Carrying(upstream, "content")
              /\ message.toolCalls = Carrying(upstream, "tool_calls")
              /\ message.reasoning = Carrying(upstream, "reasoning_content")

\* The host's translators end a stream properly only if it had a message or a
\* tool call (the comment of upstreamStreamState, main.go:1405-1411): a framed
\* answer that reasoned has one, even if upstream broke off.
ReasoningIsConcluded ==
    /\ task.step = "over" /\ task.framed /\ task.path # "completion"
    /\ ~Refused /\ (\E f \in ReasoningFields : Heard(f) # <<>>)
    => \E i \in Emits : Says(host[i].line, {"content", "tool_calls"})

\* No stream is said to have stopped, or to have called a tool, unless
\* upstream said so last; an answer that broke off has at most run out of
\* length.
NoFalseStop ==
    \A i \in Emits : host[i].line.kind = "chunk" /\ host[i].line.finish # "none" =>
        LET told == {n \in DOMAIN upstream : FinishOf(upstream[n], "none") # "none"}
        IN  IF host[i].from > 0 THEN host[i].line.finish = upstream[host[i].from].finish
            ELSE IF told = {} THEN host[i].line.finish = "length"
            ELSE \E n \in told : /\ \A k \in told : k <= n
                                 /\ host[i].line.finish = upstream[n].finish

\* Every request comes to its end, whether upstream writes on, breaks off or
\* falls silent, and whether the client stays.
EveryRequestEnds == task.step = "send" ~> task.step = "over"

-----------------------------------------------------------------------------
(***************************************************************************)
(* What the host may rely on                                               *)
(***************************************************************************)
\* No chunk may follow: the host refused one, or had the plugin's own.
Shut == Refused \/ \E i \in Emits : host[i].from = 0

AsHeard(c) ==
    IF c.call = "emit" THEN [call |-> "emit", from |-> c.from, accepted |-> c.accepted]
    ELSE [call |-> c.call]

Contract == INSTANCE AnswerContract WITH
    way   <- IF task.path = "pump" THEN "stream" ELSE "call",
    phase <- IF task.step \in {"idle", "over"} THEN task.step
             ELSE IF Shut THEN "shut"
             ELSE "open",
    calls <- [i \in DOMAIN host |-> AsHeard(host[i])]

\* Whatever upstream does and whenever the client hangs up, the host is handed
\* what AnswerContract promises: chunks in upstream's order, nothing after the
\* plugin's own or a refused one but the end, one end, and no failure once it
\* has heard something.
ImplementsContract == Contract!Spec
=============================================================================
