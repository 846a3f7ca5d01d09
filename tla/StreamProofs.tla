---------------------------- MODULE StreamProofs ----------------------------
(***************************************************************************)
(* Proofs about what the host hears of a request, for any requests, any    *)
(* lines of upstream and answers of any length.                            *)
(***************************************************************************)
EXTENDS Stream, TLAPS

\* The lines the host can be handed, and the calls it can see.
Outs == {cleanChunkJSON(line) : line \in Lines}
            \cup {Chunk([content |-> "text"], f) : f \in Finishes}

HostCalls ==
    [call : {"emit"}, line : Outs, from : Nat, framed : BOOLEAN, accepted : BOOLEAN]
        \cup {StreamError, Close, Chunks}
        \cup {Answer(aggregateCompletion(lines)) : lines \in Seq(Lines)}

Tells(line) == line.kind = "chunk" /\ line.finish # "none"

(***************************************************************************)
(* The invariant.                                                          *)
(***************************************************************************)
Typed ==
    /\ task \in [step : Steps, path : Paths, framed : BOOLEAN, region : {"cn", "global"}]
    /\ upstream \in Seq(Lines)
    /\ host \in Seq(HostCalls)
    /\ st.finish \in Finishes

Fresh ==
    task.step \in {"idle", "send"} => host = <<>> /\ upstream = <<>> /\ st = NothingSeen

\* What was emitted before the request is closed was accepted, but for the
\* last chunk of a pump.
Reading ==
    task.step \in {"read", "trailing"} =>
        \A i \in DOMAIN host : host[i].call = "emit" /\ host[i].accepted

Closing ==
    task.step = "close" =>
        \A i \in DOMAIN host : /\ host[i].call = "emit"
                               /\ \/ host[i].accepted
                                  \/ i = Len(host) /\ task.path = "pump"

\* st.finish is the last finish reason of upstream.
LastTold(lines, finish) ==
    \/ finish = "none" /\ \A n \in DOMAIN lines : ~Tells(lines[n])
    \/ \E n \in DOMAIN lines : /\ Tells(lines[n]) /\ finish = lines[n].finish
                               /\ \A k \in DOMAIN lines : Tells(lines[k]) => k <= n

Remembered == task.path # "completion" => LastTold(upstream, st.finish)

\* A chunk is a line of upstream, or the one that concludes the reasoning.
Concluding(f) == Chunk([content |-> "text"], IF f = "none" THEN "length" ELSE f)

Sourced ==
    \A i \in DOMAIN host : host[i].call = "emit" =>
        /\ task.path # "completion"
        /\ IF host[i].from > 0
           THEN /\ host[i].from \in DOMAIN upstream
                /\ host[i].line = cleanChunkJSON(upstream[host[i].from])
           ELSE /\ task.step \in {"close", "over"}
                /\ host[i].line = Concluding(st.finish)

IInv == Typed /\ Fresh /\ Reading /\ Closing /\ EndsOnce /\ Remembered /\ Sourced

-----------------------------------------------------------------------------
LEMMA AppendOK ==
    ASSUME NEW S, NEW s \in Seq(S), NEW e \in S
    PROVE  /\ Append(s, e) \in Seq(S)
           /\ Len(Append(s, e)) = Len(s) + 1 /\ Len(s) \in Nat
           /\ DOMAIN s = 1..Len(s)
           /\ DOMAIN Append(s, e) = 1..(Len(s) + 1)
           /\ \A i \in 1..Len(s) : Append(s, e)[i] = s[i]
           /\ Append(s, e)[Len(s) + 1] = e
  OBVIOUS

LEMMA LineKinds ==
    ASSUME NEW line \in Lines
    PROVE  /\ cleanChunkJSON(line).kind = line.kind
           /\ line.kind = "chunk" => /\ cleanChunkJSON(line).finish = line.finish
                                     /\ line.finish \in Finishes
           /\ ~Tells(Blank)
<1>1. CASE line \in {Blank, Broken}
  BY <1>1 DEF Blank, Broken, cleanChunkJSON, Tells
<1>2. CASE line = Chunk(line.delta, line.finish) /\ line.finish \in Finishes
  <2> DEFINE d == Restrict(line.delta, {f \in DOMAIN line.delta : ~isEmptyValue(line.delta[f])})
  <2>1. line \in [kind : {"chunk"}, delta : {line.delta}, finish : {line.finish}]
    BY <1>2 DEF Chunk
  <2>2. line.kind = "chunk"
    BY <2>1
  <2>3. cleanChunkJSON(line) = [line EXCEPT !.delta = d]
    BY <2>2 DEF cleanChunkJSON
  <2> HIDE DEF d
  <2>4. cleanChunkJSON(line).kind = line.kind /\ cleanChunkJSON(line).finish = line.finish
    BY <2>1, <2>3
  <2> QED
    BY <1>2, <2>4 DEF Blank, Tells
<1> QED
  BY <1>1, <1>2, StreamAssumption

\* One more line, and one more look at it.
LEMMA TellsMore ==
    ASSUME NEW lines \in Seq(Lines), NEW line \in Lines, NEW f, LastTold(lines, f)
    PROVE  LastTold(Append(lines, line), IF Tells(line) THEN line.finish ELSE f)
<1> DEFINE more == Append(lines, line)
<1>1. /\ Len(lines) \in Nat /\ DOMAIN lines = 1..Len(lines)
      /\ DOMAIN more = 1..(Len(lines) + 1)
      /\ \A i \in 1..Len(lines) : more[i] = lines[i]
      /\ more[Len(lines) + 1] = line
  BY AppendOK
<1> HIDE DEF more
<1>2. CASE Tells(line)
  <2>1. Len(lines) + 1 \in DOMAIN more /\ \A k \in DOMAIN more : k <= Len(lines) + 1
    BY <1>1
  <2> QED
    BY <1>1, <1>2, <2>1 DEF LastTold, more
<1>3. CASE ~Tells(line)
  <2>1. CASE f = "none" /\ \A n \in DOMAIN lines : ~Tells(lines[n])
    <3>1. \A n \in DOMAIN more : ~Tells(more[n])
      BY <1>1, <1>3, <2>1
    <3> QED
      BY <1>3, <2>1, <3>1 DEF LastTold, more
  <2>2. ASSUME NEW n \in DOMAIN lines, Tells(lines[n]), f = lines[n].finish,
               \A k \in DOMAIN lines : Tells(lines[k]) => k <= n
        PROVE  LastTold(more, f)
    <3>1. n \in DOMAIN more /\ more[n] = lines[n]
      BY <1>1
    <3>2. \A k \in DOMAIN more : Tells(more[k]) => k <= n
      BY <1>1, <1>3, <2>2
    <3> QED
      BY <2>2, <3>1, <3>2 DEF LastTold
  <2> QED
    BY <1>3, <2>1, <2>2 DEF LastTold, more
<1> QED
  BY <1>2, <1>3

-----------------------------------------------------------------------------
\* The request moves on, the rest stays.
LEMMA Moved ==
    ASSUME Typed, NEW step \in Steps, task' = [task EXCEPT !.step = step]
    PROVE  /\ task' \in [step : Steps, path : Paths, framed : BOOLEAN,
                         region : {"cn", "global"}]
           /\ task'.step = step /\ task'.path = task.path /\ task'.framed = task.framed
  BY DEF Typed

LEMMA EmptyOK ==
    /\ <<>> \in Seq(HostCalls) /\ <<>> \in Seq(Lines) /\ DOMAIN <<>> = {}
    /\ NothingSeen.finish = "none" /\ "none" \in Finishes
    /\ LastTold(<<>>, "none")
  BY DEF NothingSeen, Finishes, LastTold

\* As long as the request is not over, and every chunk was accepted, the host
\* has heard no end.
LEMMA NoEndYet ==
    ASSUME task.step # "over", \A i \in DOMAIN host : host[i].accepted
    PROVE  EndsOnce
  BY DEF EndsOnce, Emits

LEMMA StartStep ==
    ASSUME IInv, \/ \E r \in Requests : Accept(r)
                 \/ \E id \in Fallbacks : Swap(id)
                 \/ Open
                 \/ Forget
    PROVE  IInv'
<1>1. ASSUME NEW r \in Requests, Accept(r)
      PROVE  IInv'
  <2>1. host' = <<>> /\ upstream' = <<>> /\ st' = NothingSeen
    BY <1>1 DEF Accept, IInv, Fresh
  <2>2. r \in Request
    BY StreamAssumption
  <2>3. task' = [step |-> "send", path |-> r.path, framed |-> r.framed, region |-> r.region]
    BY <1>1 DEF Accept
  <2>4. Typed' /\ task'.step = "send"
    BY <2>1, <2>2, <2>3, EmptyOK DEF Typed, Request, Steps
  <2> QED
    BY <2>1, <2>4, EmptyOK DEF IInv, Fresh, Reading, Closing, EndsOnce, Emits,
                               Remembered, Sourced
<1>2. ASSUME NEW id \in Fallbacks, Swap(id)
      PROVE  IInv'
  BY <1>2 DEF Swap, IInv, Typed, Fresh, Reading, Closing, EndsOnce, Emits,
              Remembered, Sourced
<1>3. ASSUME Open
      PROVE  IInv'
  <2>1. host' = <<>> /\ upstream' = <<>> /\ st' = NothingSeen
    BY <1>3 DEF Open, IInv, Fresh
  <2>2. /\ task' \in [step : Steps, path : Paths, framed : BOOLEAN,
                      region : {"cn", "global"}]
        /\ task'.step = "read"
    BY <1>3, Moved DEF Open, IInv, Steps
  <2>3. Typed'
    BY <2>1, <2>2, EmptyOK DEF Typed
  <2> QED
    BY <2>1, <2>2, <2>3, EmptyOK DEF IInv, Fresh, Reading, Closing, EndsOnce, Emits,
                                     Remembered, Sourced
<1>4. ASSUME Forget
      PROVE  IInv'
  <2>1. host' = <<>> /\ upstream' = <<>> /\ st' = NothingSeen /\ task' = NoTask
    BY <1>4 DEF Forget
  <2>2. Typed' /\ NoTask.step = "idle"
    BY <2>1, EmptyOK DEF Typed, NoTask, Steps, Paths
  <2> QED
    BY <2>1, <2>2, EmptyOK DEF IInv, Fresh, Reading, Closing, EndsOnce, Emits,
                               Remembered, Sourced
<1> QED
  BY <1>1, <1>2, <1>3, <1>4

LEMMA FailStep ==
    ASSUME IInv, Fail
    PROVE  IInv'
<1>1. upstream' = <<>> /\ st' = NothingSeen
  BY DEF Fail, IInv, Fresh
<1>2. /\ task' \in [step : Steps, path : Paths, framed : BOOLEAN, region : {"cn", "global"}]
      /\ task'.step = "over" /\ task'.path = task.path
  BY Moved DEF Fail, IInv, Steps
<1>3. StreamError \in HostCalls /\ Close \in HostCalls
  BY DEF HostCalls
<1>4. StreamError.call = "error" /\ Close.call = "close"
  BY DEF StreamError, Close
<1>5. CASE task.path = "pump"
  <2>1. host' = <<StreamError, Close>>
    BY <1>5 DEF Fail
  <2>2. /\ host' \in Seq(HostCalls) /\ Len(host') = 2 /\ DOMAIN host' = {1, 2}
        /\ host'[1] = StreamError /\ host'[2] = Close
    BY <1>3, <2>1
  <2>3. EndsOnce' /\ Sourced'
    BY <1>2, <1>4, <1>5, <2>2 DEF EndsOnce, Emits, Sourced
  <2> QED
    BY <1>1, <1>2, <2>2, <2>3, EmptyOK DEF IInv, Typed, Fresh, Reading, Closing, Remembered
<1>6. CASE task.path # "pump"
  <2>1. host' = <<StreamError>>
    BY <1>6 DEF Fail
  <2>2. /\ host' \in Seq(HostCalls) /\ Len(host') = 1 /\ DOMAIN host' = {1}
        /\ host'[1] = StreamError
    BY <1>3, <2>1
  <2>3. EndsOnce' /\ Sourced'
    BY <1>2, <1>4, <1>6, <2>2 DEF EndsOnce, Emits, Sourced
  <2> QED
    BY <1>1, <1>2, <2>2, <2>3, EmptyOK DEF IInv, Typed, Fresh, Reading, Closing, Remembered
<1> QED
  BY <1>5, <1>6

LEMMA EmitOK ==
    ASSUME Typed, NEW line \in Outs, NEW from \in Nat
    PROVE  LET e == Emitted(line, from)
           IN  /\ e \in HostCalls
               /\ e.call = "emit" /\ e.line = line /\ e.from = from
               /\ e.accepted \in BOOLEAN
               /\ ~e.accepted => task.path = "pump"
<1> DEFINE ok == (task.path # "pump" \/ client = "there")
           e == EmitOf(line, from, task.framed, ok)
<1>1. task.framed \in BOOLEAN /\ ok \in BOOLEAN
  BY DEF Typed
<1>2. ~ok => task.path = "pump"
  OBVIOUS
<1> HIDE DEF ok
<1>3. /\ e \in [call : {"emit"}, line : Outs, from : Nat, framed : BOOLEAN,
                accepted : BOOLEAN]
      /\ e.call = "emit" /\ e.line = line /\ e.from = from /\ e.accepted = ok
  BY <1>1 DEF EmitOf
<1>4. Emitted(line, from) = e
  BY DEF Emitted, ok
<1> HIDE DEF e
<1> QED
  BY <1>1, <1>2, <1>3, <1>4 DEF HostCalls

LEMMA ReadStep ==
    ASSUME IInv, NEW line \in Lines, Read(line)
    PROVE  IInv'
<1> DEFINE clean == cleanChunkJSON(line)
           n == Len(upstream) + 1
           e == Emitted(clean, n)
<1>1. task.step = "read" /\ upstream' = Append(upstream, line)
  BY DEF Read
<1>2. /\ upstream' \in Seq(Lines) /\ n \in Nat /\ n > 0
      /\ DOMAIN upstream = 1..Len(upstream) /\ Len(upstream) \in Nat
      /\ DOMAIN upstream' = 1..n
      /\ \A i \in DOMAIN upstream : upstream'[i] = upstream[i]
      /\ upstream'[n] = line
  BY <1>1, AppendOK DEF IInv, Typed
<1>3. CASE task.path = "completion" \/ line = Blank
  <2>1. UNCHANGED <<task, st, host>>
    BY <1>3 DEF Read
  <2>2. Typed' /\ Fresh' /\ Reading' /\ Closing'
    BY <1>1, <1>2, <2>1 DEF IInv, Typed, Fresh, Reading, Closing
  <2>3. Remembered'
    <3>1. CASE task.path = "completion"
      BY <2>1, <3>1 DEF Remembered
    <3>2. CASE task.path # "completion"
      <4>1. ~Tells(line)
        BY <1>3, <3>2, LineKinds
      <4>2. LastTold(Append(upstream, line), st.finish)
        BY <3>2, <4>1, TellsMore DEF IInv, Typed, Remembered
      <4> QED
        BY <1>1, <2>1, <4>2 DEF Remembered
    <3> QED
      BY <3>1, <3>2
  <2>4. Sourced'
    BY <1>2, <2>1 DEF IInv, Sourced
  <2>5. EndsOnce'
    BY <1>1, <2>1 DEF IInv, EndsOnce, Emits
  <2> QED
    BY <2>2, <2>3, <2>4, <2>5 DEF IInv
<1>4. CASE task.path # "completion" /\ line # Blank
  <2>1. /\ st' = observe(st, clean) /\ host' = Append(host, e)
        /\ task' = [task EXCEPT !.step = IF e.accepted THEN "read" ELSE "close"]
    BY <1>4 DEF Read
  <2>2. /\ e \in HostCalls /\ e.call = "emit" /\ e.line = clean /\ e.from = n
        /\ e.accepted \in BOOLEAN
        /\ ~e.accepted => task.path = "pump"
    <3>1. clean \in Outs /\ Typed
      BY DEF Outs, IInv
    <3> HIDE DEF clean, n
    <3> QED
      BY <1>2, <3>1, EmitOK
  <2>3. /\ task' \in [step : Steps, path : Paths, framed : BOOLEAN,
                      region : {"cn", "global"}]
        /\ task'.step = IF e.accepted THEN "read" ELSE "close"
        /\ task'.path = task.path
    BY <2>1, Moved DEF IInv, Steps
  <2> HIDE DEF e
  <2>4. /\ host' \in Seq(HostCalls) /\ Len(host') = Len(host) + 1 /\ Len(host) \in Nat
        /\ DOMAIN host = 1..Len(host) /\ DOMAIN host' = 1..(Len(host) + 1)
        /\ \A i \in DOMAIN host : host'[i] = host[i]
        /\ host'[Len(host) + 1] = e
    BY <2>1, <2>2, AppendOK DEF IInv, Typed
  <2>5. st'.finish = IF Tells(line) THEN line.finish ELSE st.finish
    <3>1. st'.finish = FinishOf(clean, st.finish)
      BY <2>1 DEF observe
    <3> HIDE DEF clean
    <3> QED
      BY <3>1, LineKinds DEF FinishOf, Tells, clean
  <2>6. st'.finish \in Finishes
    BY <2>5, LineKinds DEF IInv, Typed, Tells
  <2>7. \A i \in DOMAIN host : host[i].call = "emit" /\ host[i].accepted
    BY <1>1 DEF IInv, Reading
  <2>8. Typed' /\ Fresh' /\ Reading' /\ Closing'
    <3>1. Typed' /\ Fresh'
      BY <1>2, <2>3, <2>4, <2>6 DEF Typed, Fresh
    <3>2. \A i \in DOMAIN host' : i \in DOMAIN host \/ i = Len(host')
      BY <2>4
    <3>3. Reading'
      BY <2>2, <2>3, <2>4, <2>7, <3>2 DEF Reading
    <3>4. Closing'
      BY <2>2, <2>3, <2>4, <2>7, <3>2 DEF Closing
    <3> QED
      BY <3>1, <3>3, <3>4
  <2>9. EndsOnce'
    BY <2>2, <2>3, <2>4, <2>7 DEF EndsOnce, Emits
  <2>10. Remembered'
    <3>1. LastTold(Append(upstream, line), IF Tells(line) THEN line.finish ELSE st.finish)
      BY <1>4, TellsMore DEF IInv, Typed, Remembered
    <3> QED
      BY <1>1, <2>3, <2>5, <3>1 DEF Remembered
  <2>11. Sourced'
    <3>1. ASSUME NEW i \in DOMAIN host
          PROVE  /\ host'[i].from > 0 /\ host'[i].from \in DOMAIN upstream'
                 /\ host'[i].line = cleanChunkJSON(upstream'[host'[i].from])
      BY <1>1, <1>2, <2>4, <2>7 DEF IInv, Sourced
    <3>2. LET i == Len(host) + 1
          IN  /\ host'[i].from > 0 /\ host'[i].from \in DOMAIN upstream'
              /\ host'[i].line = cleanChunkJSON(upstream'[host'[i].from])
      BY <1>2, <2>2, <2>4
    <3>3. \A i \in DOMAIN host' : i \in DOMAIN host \/ i = Len(host) + 1
      BY <2>4
    <3> HIDE DEF clean, n
    <3> QED
      BY <1>4, <2>3, <3>1, <3>2, <3>3 DEF Sourced
  <2> QED
    BY <2>8, <2>9, <2>10, <2>11 DEF IInv
<1> QED
  BY <1>3, <1>4

LEMMA EndOfStreamStep ==
    ASSUME IInv, EndOfStream
    PROVE  IInv'
<1>1. /\ task' \in [step : Steps, path : Paths, framed : BOOLEAN, region : {"cn", "global"}]
      /\ task'.step = "trailing" /\ task'.path = task.path
  BY Moved DEF EndOfStream, IInv, Steps
<1>2. UNCHANGED <<upstream, st, host>> /\ task.step = "read"
  BY DEF EndOfStream
<1> QED
  BY <1>1, <1>2 DEF IInv, Typed, Fresh, Reading, Closing, EndsOnce, Emits,
                    Remembered, Sourced

LEMMA TrailingStep ==
    ASSUME IInv, Trailing
    PROVE  IInv'
<1> DEFINE tail == Concluding(st.finish)
           e == Emitted(tail, 0)
<1>1. /\ task' \in [step : Steps, path : Paths, framed : BOOLEAN, region : {"cn", "global"}]
      /\ task'.step = "close" /\ task'.path = task.path
  BY Moved DEF Trailing, IInv, Steps
<1>2. UNCHANGED <<upstream, st>> /\ task.step = "trailing"
  BY DEF Trailing
<1>3. \A i \in DOMAIN host : host[i].call = "emit" /\ host[i].accepted
  BY <1>2 DEF IInv, Reading
<1>4. CASE host' = host
  BY <1>1, <1>2, <1>3, <1>4 DEF IInv, Typed, Fresh, Reading, Closing, EndsOnce, Emits,
                                Remembered, Sourced
<1>5. CASE host' # host
  <2>1. task.path # "completion" /\ trailingChunk(st) # <<>>
        /\ host' = Append(host, Emitted(Head(trailingChunk(st)), 0))
    BY <1>5 DEF Trailing
  <2>2. trailingChunk(st) = <<tail>>
    BY <2>1 DEF trailingChunk, Concluding
  <2>3. Head(trailingChunk(st)) = tail
    BY <2>2
  <2>4. tail \in Outs /\ Typed
    BY DEF Outs, Concluding, Finishes, IInv, Typed
  <2> HIDE DEF tail
  <2>5. /\ e \in HostCalls /\ e.call = "emit" /\ e.line = tail /\ e.from = 0
        /\ e.accepted \in BOOLEAN
        /\ ~e.accepted => task.path = "pump"
    BY <2>4, EmitOK
  <2>6. host' = Append(host, e)
    BY <2>1, <2>3
  <2> HIDE DEF e
  <2>7. /\ host' \in Seq(HostCalls) /\ Len(host') = Len(host) + 1 /\ Len(host) \in Nat
        /\ DOMAIN host = 1..Len(host) /\ DOMAIN host' = 1..(Len(host) + 1)
        /\ \A i \in DOMAIN host : host'[i] = host[i]
        /\ host'[Len(host) + 1] = e
    BY <2>5, <2>6, AppendOK DEF IInv, Typed
  <2>8. \A i \in DOMAIN host' : i \in DOMAIN host \/ i = Len(host')
    BY <2>7
  <2>9. Typed' /\ Fresh' /\ Reading'
    BY <1>1, <1>2, <2>7 DEF IInv, Typed, Fresh, Reading
  <2>10. Closing'
    BY <1>1, <1>3, <2>5, <2>7, <2>8 DEF Closing
  <2>11. EndsOnce'
    BY <1>1, <1>3, <2>5, <2>7, <2>8 DEF EndsOnce, Emits
  <2>12. Remembered'
    BY <1>1, <1>2 DEF IInv, Remembered
  <2>13. Sourced'
    BY <1>1, <1>2, <1>3, <2>1, <2>5, <2>7, <2>8 DEF IInv, Sourced, tail
  <2> QED
    BY <2>9, <2>10, <2>11, <2>12, <2>13 DEF IInv
<1> QED
  BY <1>4, <1>5

LEMMA FinishStep ==
    ASSUME IInv, Finish
    PROVE  IInv'
<1> DEFINE e == CASE task.path = "pump"    -> Close
                  [] task.path = "collect" -> Chunks
                  [] OTHER                 -> Answer(aggregateCompletion(upstream))
<1>1. /\ task' \in [step : Steps, path : Paths, framed : BOOLEAN, region : {"cn", "global"}]
      /\ task'.step = "over" /\ task'.path = task.path
  BY Moved DEF Finish, IInv, Steps
<1>2. UNCHANGED <<upstream, st>> /\ task.step = "close" /\ host' = Append(host, e)
  BY DEF Finish
<1>3. \A i \in DOMAIN host : /\ host[i].call = "emit"
                             /\ \/ host[i].accepted
                                \/ i = Len(host) /\ task.path = "pump"
  BY <1>2 DEF IInv, Closing
<1>4. /\ e.call = IF task.path = "pump" THEN "close" ELSE "answer"
      /\ task.path = "pump" => e = Close
      /\ e \in HostCalls
  <2> DEFINE message == aggregateCompletion(upstream)
  <2>1. upstream \in Seq(Lines) /\ task.path \in Paths
    BY DEF IInv, Typed
  <2>2. Answer(message) \in HostCalls /\ Close \in HostCalls /\ Chunks \in HostCalls
    BY <2>1 DEF HostCalls
  <2>3. Answer(message).call = "answer" /\ Close.call = "close" /\ Chunks.call = "answer"
    BY DEF Answer, Close, Chunks
  <2> HIDE DEF message
  <2> QED
    BY <2>1, <2>2, <2>3 DEF Paths, message
<1> HIDE DEF e
<1>5. /\ host' \in Seq(HostCalls) /\ Len(host') = Len(host) + 1 /\ Len(host) \in Nat
      /\ DOMAIN host = 1..Len(host) /\ DOMAIN host' = 1..(Len(host) + 1)
      /\ \A i \in DOMAIN host : host'[i] = host[i]
      /\ host'[Len(host) + 1] = e
  BY <1>2, <1>4, AppendOK DEF IInv, Typed
<1>6. \A i \in DOMAIN host' : i \in DOMAIN host \/ i = Len(host')
  BY <1>5
<1>7. Typed' /\ Fresh' /\ Reading' /\ Closing'
  BY <1>1, <1>2, <1>5 DEF IInv, Typed, Fresh, Reading, Closing
<1>8. EndsOnce'
  <2>1. ASSUME NEW i \in DOMAIN host', host'[i].call = "emit", ~host'[i].accepted,
               NEW j \in DOMAIN host', j > i
        PROVE  host'[j] = Close
    <3>1. i \in DOMAIN host
      BY <1>4, <1>5, <1>6, <2>1
    <3>2. i = Len(host) /\ task.path = "pump"
      BY <1>3, <1>5, <2>1, <3>1
    <3>3. j = Len(host) + 1
      BY <1>5, <2>1, <3>2
    <3> QED
      BY <1>4, <1>5, <3>2, <3>3
  <2> DEFINE ends == IF task.path = "pump" THEN {"close"} ELSE {"answer", "error"}
  <2>2. \A i \in DOMAIN host' : host'[i].call \in ends <=> i = Len(host')
    BY <1>3, <1>4, <1>5, <1>6
  <2>3. {i \in DOMAIN host' : host'[i].call \in ends} = {Len(host')}
    BY <1>5, <2>2
  <2> QED
    BY <1>1, <2>1, <2>3 DEF EndsOnce, Emits
<1>9. Remembered'
  BY <1>1, <1>2 DEF IInv, Remembered
<1>10. Sourced'
  <2>1. e.call # "emit"
    BY <1>4
  <2> QED
    BY <1>1, <1>2, <1>5, <1>6, <2>1 DEF IInv, Sourced
<1> QED
  BY <1>7, <1>8, <1>9, <1>10 DEF IInv

LEMMA Initially == Init => IInv
<1> SUFFICES ASSUME Init
             PROVE  IInv
  OBVIOUS
<1>1. host = <<>> /\ upstream = <<>> /\ st = NothingSeen /\ task = NoTask
  BY DEF Init
<1>2. Typed /\ NoTask.step = "idle"
  BY <1>1, EmptyOK DEF Typed, NoTask, Steps, Paths
<1> QED
  BY <1>1, <1>2, EmptyOK DEF IInv, Fresh, Reading, Closing, EndsOnce, Emits,
                             Remembered, Sourced

LEMMA Invariant == Spec => []IInv
<1>1. ASSUME IInv, HangUp \/ UNCHANGED vars
      PROVE  IInv'
  <2>1. UNCHANGED <<task, upstream, st, host>>
    BY <1>1 DEF HangUp, vars
  <2> QED
    BY <1>1, <2>1 DEF IInv, Typed, Fresh, Reading, Closing, EndsOnce, Emits,
                      Remembered, Sourced
<1>2. IInv /\ [Next]_vars => IInv'
  BY <1>1, StartStep, FailStep, ReadStep, EndOfStreamStep, TrailingStep, FinishStep
     DEF Next, Progress
<1> QED
  BY <1>2, Initially, PTL DEF Spec

\* The host hears the end of every request exactly once, as the last thing, and
\* after a chunk it refused nothing but the close of the stream.
THEOREM OneEnd == Spec => []EndsOnce
<1>1. IInv => EndsOnce
  BY DEF IInv
<1> QED
  BY <1>1, Invariant, PTL

LEMMA FinishIsTold == IInv => NoFalseStop
<1> SUFFICES ASSUME IInv
             PROVE  NoFalseStop
  OBVIOUS
<1> SUFFICES ASSUME NEW i \in Emits, host[i].line.kind = "chunk",
                    host[i].line.finish # "none"
             PROVE  LET told == {n \in DOMAIN upstream : FinishOf(upstream[n], "none") # "none"}
                    IN  IF host[i].from > 0
                        THEN host[i].line.finish = upstream[host[i].from].finish
                        ELSE IF told = {} THEN host[i].line.finish = "length"
                        ELSE \E n \in told : /\ \A k \in told : k <= n
                                             /\ host[i].line.finish = upstream[n].finish
  BY DEF NoFalseStop
<1> DEFINE told == {n \in DOMAIN upstream : FinishOf(upstream[n], "none") # "none"}
<1>1. told = {n \in DOMAIN upstream : Tells(upstream[n])}
  BY DEF FinishOf, Tells
<1>2. i \in DOMAIN host /\ host[i].call = "emit" /\ upstream \in Seq(Lines)
  BY DEF Emits, IInv, Typed
<1>3. CASE host[i].from > 0
  <2>1. /\ host[i].from \in DOMAIN upstream
        /\ host[i].line = cleanChunkJSON(upstream[host[i].from])
    BY <1>2, <1>3 DEF IInv, Sourced
  <2>2. upstream[host[i].from] \in Lines
    BY <1>2, <2>1
  <2>3. host[i].line.finish = upstream[host[i].from].finish
    BY <2>1, <2>2, LineKinds
  <2> QED
    BY <1>3, <2>3
<1>4. CASE ~(host[i].from > 0)
  <2>1. host[i].line = Concluding(st.finish) /\ LastTold(upstream, st.finish)
    BY <1>2, <1>4 DEF IInv, Sourced, Remembered
  <2>2. host[i].line.finish = IF st.finish = "none" THEN "length" ELSE st.finish
    BY <2>1 DEF Concluding, Chunk
  <2> HIDE DEF told
  <2>3. CASE told = {}
    BY <1>1, <1>4, <2>1, <2>2, <2>3 DEF LastTold, told
  <2>4. CASE told # {}
    <3>1. \E n \in told : /\ \A k \in told : k <= n
                          /\ st.finish = upstream[n].finish /\ st.finish # "none"
      BY <1>1, <2>1, <2>4 DEF LastTold, Tells
    <3> QED
      BY <1>4, <2>2, <2>4, <3>1 DEF told
  <2> QED
    BY <2>3, <2>4
<1> QED
  BY <1>3, <1>4

\* Of an answer of any length, cut off or not, no chunk says that it stopped or
\* called a tool unless upstream said so last.
THEOREM StopsAreUpstreams == Spec => []NoFalseStop
<1> QED
  BY FinishIsTold, Invariant, PTL

-----------------------------------------------------------------------------
(***************************************************************************)
(* What is sent upstream.                                                  *)
(***************************************************************************)
Reworded(messages) == \A i \in DOMAIN messages :
    \A k \in DOMAIN messages[i].content : messages[i].content[k] # "template"

LEMMA ObjectFields ==
    ASSUME NEW b \in Body, b.kind = "object"
    PROVE  /\ b \in Object
           /\ b.prefixed \in BOOLEAN /\ b.model \in Ids /\ b.stream \in BOOLEAN
           /\ b.high \in BOOLEAN /\ b.messages \in Seq(Message)
  BY DEF Body, Object, Junk, Empty

LEMMA Bodies == Object \subseteq Body /\ Empty \in Body /\ Empty.kind # "object"
  BY DEF Body, Empty

\* Both ways to the executor end with a body that asks for a stream, if it is
\* an object at all.
LEMMA StreamIsAsked ==
    ASSUME NEW r \in Requests
    PROVE  LET body == IF r.path = "completion" THEN forceStreamBody(r.payload, r.original)
                       ELSE Source(r.payload, r.original)
           IN  body \in Body /\ (body.kind = "object" => body.stream)
<1> DEFINE given == Source(r.payload, r.original)
<1>1. given \in Body
  BY StreamAssumption DEF Request, Source
<1>2. CASE r.path # "completion"
  BY <1>1, <1>2, StreamAssumption
<1>3. CASE r.path = "completion" /\ given.kind # "object"
  <2>1. forceStreamBody(r.payload, r.original) = given
    BY <1>3 DEF forceStreamBody, Rewritten
  <2> QED
    BY <1>1, <1>3, <2>1
<1>4. CASE r.path = "completion" /\ given.kind = "object"
  <2>1. forceStreamBody(r.payload, r.original) = [given EXCEPT !.stream = TRUE]
    BY <1>4 DEF forceStreamBody, Rewritten
  <2>2. given \in Object
    BY <1>1, <1>4, ObjectFields
  <2> HIDE DEF given
  <2>3. [given EXCEPT !.stream = TRUE] \in Object /\ [given EXCEPT !.stream = TRUE].stream
    BY <2>2 DEF Object
  <2> QED
    BY <1>4, <2>1, <2>3, Bodies
<1> QED
  BY <1>2, <1>3, <1>4

LEMMA MessageReworded ==
    ASSUME NEW m \in Message
    PROVE  LET n == rewriteContentField(m)
           IN  /\ n \in Message /\ n.role = m.role
               /\ \A k \in DOMAIN n.content : n.content[k] # "template"
<1> DEFINE c == [i \in DOMAIN m.content |-> sanitizeBlockedTemplates(m.content[i])]
<1>1. m.content \in Seq(Texts) /\ m.role \in {"system", "user"}
  BY DEF Message
<1>2. \A i \in DOMAIN m.content : m.content[i] \in Texts
  BY <1>1
<1>3. \A t \in Texts : sanitizeBlockedTemplates(t) \in Texts \ {"template"}
  BY DEF sanitizeBlockedTemplates, Texts
<1>4. /\ DOMAIN m.content = 1..Len(m.content) /\ Len(m.content) \in Nat
  BY <1>1
<1>5. c \in Seq(Texts) /\ \A i \in DOMAIN c : c[i] # "template"
  BY <1>2, <1>3, <1>4
<1>6. rewriteContentField(m) = [m EXCEPT !.content = c]
  BY DEF rewriteContentField
<1> HIDE DEF c
<1>7. /\ [m EXCEPT !.content = c] \in Message
      /\ [m EXCEPT !.content = c].content = c
      /\ [m EXCEPT !.content = c].role = m.role
  BY <1>5 DEF Message
<1> QED
  BY <1>5, <1>6, <1>7

LEMMA BodyReworded ==
    ASSUME NEW b \in Body, b.kind = "object" => b.stream
    PROVE  LET o == rewriteSystemForUpstream(b)
           IN  /\ o \in Body
               /\ o.kind = "object" => o.stream /\ Reworded(o.messages)
<1>1. CASE b.kind # "object"
  BY <1>1 DEF rewriteSystemForUpstream, Rewritten
<1>2. CASE b.kind = "object"
  <2> DEFINE ms == [i \in DOMAIN b.messages |-> rewriteContentField(b.messages[i])]
             o == [b EXCEPT !.messages = ms]
             h == b.high \/ (~b.prefixed /\ b.model \in HyIds)
  <2>1. b \in Object /\ b.messages \in Seq(Message) /\ b.high \in BOOLEAN
    BY <1>2, ObjectFields
  <2>2. /\ DOMAIN b.messages = 1..Len(b.messages) /\ Len(b.messages) \in Nat
        /\ \A i \in DOMAIN b.messages : b.messages[i] \in Message
    BY <2>1
  <2>3. ms \in Seq(Message) /\ Reworded(ms)
    BY <2>2, MessageReworded DEF Reworded
  <2>4. rewriteSystemForUpstream(b) = forceMaxThinking(o)
    BY <1>2 DEF rewriteSystemForUpstream, Rewritten
  <2> HIDE DEF ms
  <2>5. /\ o \in Object /\ o.messages = ms /\ o.stream = b.stream /\ o.high = b.high
        /\ o.prefixed = b.prefixed /\ o.model = b.model
    BY <2>1, <2>3 DEF Object
  <2> HIDE DEF o
  <2>6. forceMaxThinking(o) = [o EXCEPT !.high = h]
    BY <2>5 DEF forceMaxThinking
  <2>7. h \in BOOLEAN
    OBVIOUS
  <2> HIDE DEF h
  <2>8. LET p == [o EXCEPT !.high = h]
        IN  p \in Object /\ p.stream = o.stream /\ p.messages = o.messages
    BY <2>5, <2>7 DEF Object
  <2> QED
    BY <1>2, <2>3, <2>4, <2>5, <2>6, <2>8, Bodies
<1> QED
  BY <1>1, <1>2

\* What a body has to be like to be sent to a realm.
Fit(b, region) ==
    b.kind = "object" =>
        /\ b.stream
        /\ ~b.prefixed
        /\ region = "global" /\ b.messages # <<>> => Head(b.messages).role = "system"
        /\ Reworded(b.messages)

LEMMA OpenedBySystem ==
    ASSUME NEW b \in Body, NEW region, b.kind = "object" => b.stream /\ Reworded(b.messages)
    PROVE  LET o == ensureSystemFirst(b, region)
           IN  /\ o \in Body
               /\ o.kind = "object" =>
                     /\ o.stream /\ Reworded(o.messages)
                     /\ region = "global" /\ o.messages # <<>>
                           => Head(o.messages).role = "system"
<1> DEFINE asis == b.kind = "object" =>
                      region # "global" \/ b.messages = <<>> \/ Head(b.messages).role = "system"
<1>1. CASE asis
  <2>1. ensureSystemFirst(b, region) = b
    BY <1>1 DEF ensureSystemFirst, Rewritten
  <2> QED
    BY <1>1, <2>1
<1>2. CASE ~asis
  <2> DEFINE ms == <<SystemPrompt>> \o b.messages
  <2>1. b \in Object /\ b.messages \in Seq(Message) /\ Len(b.messages) \in Nat
    BY <1>2, ObjectFields
  <2>2. /\ SystemPrompt \in Message /\ SystemPrompt.role = "system"
        /\ DOMAIN SystemPrompt.content = {}
    BY DEF SystemPrompt, Message
  <2> HIDE DEF SystemPrompt
  <2>3. /\ ms \in Seq(Message) /\ DOMAIN ms = 1..(Len(b.messages) + 1) /\ ms # <<>>
        /\ ms[1] = SystemPrompt /\ Head(ms) = SystemPrompt
        /\ \A i \in DOMAIN ms : i # 1 => i - 1 \in DOMAIN b.messages /\ ms[i] = b.messages[i - 1]
    BY <2>1, <2>2
  <2> HIDE DEF ms
  <2>4. Reworded(ms)
    BY <1>2, <2>2, <2>3 DEF Reworded
  <2>5. ensureSystemFirst(b, region) = [b EXCEPT !.messages = ms]
    BY <1>2 DEF ensureSystemFirst, Rewritten, ms
  <2>6. LET o == [b EXCEPT !.messages = ms]
        IN  o \in Object /\ o.stream = b.stream /\ o.messages = ms
    BY <2>1, <2>3 DEF Object
  <2> QED
    BY <1>2, <2>2, <2>3, <2>4, <2>5, <2>6, Bodies
<1> QED
  BY <1>1, <1>2

LEMMA Bare ==
    ASSUME NEW b \in Body, NEW region,
           b.kind = "object" =>
              /\ b.stream /\ Reworded(b.messages)
              /\ region = "global" /\ b.messages # <<>> => Head(b.messages).role = "system"
    PROVE  stripModelPrefixInBody(b) \in Body /\ Fit(stripModelPrefixInBody(b), region)
<1>1. CASE b.kind # "object"
  BY <1>1 DEF stripModelPrefixInBody, Rewritten, Fit
<1>2. CASE b.kind = "object"
  <2> DEFINE o == [b EXCEPT !.prefixed = FALSE]
  <2>1. stripModelPrefixInBody(b) = o
    BY <1>2 DEF stripModelPrefixInBody, Rewritten
  <2>2. /\ o \in Object /\ ~o.prefixed /\ o.stream = b.stream /\ o.messages = b.messages
    BY <1>2, ObjectFields DEF Object
  <2> HIDE DEF o
  <2> QED
    BY <1>2, <2>1, <2>2, Bodies DEF Fit
<1> QED
  BY <1>1, <1>2

LEMMA OutgoingFits ==
    ASSUME NEW r \in Requests
    PROVE  LET o == Outgoing(r.path, r.payload, r.original, r.region)
           IN  o \in Body /\ Fit(o, r.region)
<1> DEFINE body == IF r.path = "completion" THEN forceStreamBody(r.payload, r.original)
                   ELSE Source(r.payload, r.original)
           mid == rewriteSystemForUpstream(body)
           last == ensureSystemFirst(mid, r.region)
<1>1. body \in Body /\ (body.kind = "object" => body.stream)
  BY StreamIsAsked
<1> HIDE DEF body
<1>2. mid \in Body /\ (mid.kind = "object" => mid.stream /\ Reworded(mid.messages))
  BY <1>1, BodyReworded
<1> HIDE DEF mid
<1>3. /\ last \in Body
      /\ last.kind = "object" =>
            /\ last.stream /\ Reworded(last.messages)
            /\ r.region = "global" /\ last.messages # <<>>
                  => Head(last.messages).role = "system"
  BY <1>2, OpenedBySystem
<1>4. Outgoing(r.path, r.payload, r.original, r.region) = stripModelPrefixInBody(last)
  BY DEF Outgoing, last, mid, body
<1> HIDE DEF last
<1> QED
  BY <1>3, <1>4, Bare

LEMMA SwappedFits ==
    ASSUME NEW b \in Body, NEW region, Fit(b, region), NEW id \in Fallbacks
    PROVE  setModelInBody(b, id) \in Body /\ Fit(setModelInBody(b, id), region)
<1>1. CASE b.kind # "object"
  BY <1>1 DEF setModelInBody, Rewritten
<1>2. CASE b.kind = "object"
  <2> DEFINE o == [b EXCEPT !.model = id]
             p == [o EXCEPT !.prefixed = FALSE]
  <2>1. setModelInBody(b, id) = p
    BY <1>2 DEF setModelInBody, Rewritten
  <2>2. id \in Ids
    BY StreamAssumption
  <2>3. o \in Object /\ o.stream = b.stream /\ o.messages = b.messages
    BY <1>2, <2>2, ObjectFields DEF Object
  <2> HIDE DEF o
  <2>4. p \in Object /\ ~p.prefixed /\ p.stream = o.stream /\ p.messages = o.messages
    BY <2>3 DEF Object
  <2> HIDE DEF p
  <2> QED
    BY <1>2, <2>1, <2>3, <2>4, Bodies DEF Fit
<1> QED
  BY <1>1, <1>2

(***************************************************************************)
(* Types, with what is sent.                                               *)
(***************************************************************************)
Sent ==
    /\ TypeOK
    /\ task.step = "send" => Fit(outgoing, task.region)

LEMMA StatesObserved ==
    ASSUME NEW s \in StreamState, NEW line, FinishOf(line, s.finish) \in Finishes
    PROVE  observe(s, line) \in StreamState
<1>1. \A fields : Says(line, fields) \in BOOLEAN
  BY DEF Says
<1> QED
  BY <1>1 DEF observe, StreamState

LEMMA SentStep ==
    ASSUME IInv, IInv', Sent, [Next]_vars
    PROVE  Sent'
<1>1. \A i \in DOMAIN host' : host'[i].call \in {"emit", "error", "close", "answer"}
  <2>1. \A h \in HostCalls : h.call \in {"emit", "error", "close", "answer"}
    BY DEF HostCalls, StreamError, Close, Chunks, Answer
  <2> QED
    BY <2>1 DEF IInv, Typed
<1>2. /\ task' \in [step : Steps, path : Paths, framed : BOOLEAN, region : {"cn", "global"}]
      /\ upstream' \in Seq(Lines)
  BY DEF IInv, Typed
<1>3. <<>> \in Seq(Lines) /\ Len(<<>>) = 0 /\ 0 <= MaxLines /\ NothingSeen \in StreamState
  BY StreamAssumption DEF NothingSeen, StreamState, Finishes
<1>4. ASSUME NEW r \in Requests, Accept(r)
      PROVE  Sent'
  <2>1. task'.region = r.region
    BY <1>4 DEF Accept
  <2> QED
    BY <1>1, <1>2, <1>4, <2>1, OutgoingFits DEF Accept, Sent, TypeOK
<1>5. ASSUME NEW id \in Fallbacks, Swap(id)
      PROVE  Sent'
  BY <1>1, <1>2, <1>5, SwappedFits DEF Swap, Sent, TypeOK
<1>6. ASSUME NEW line \in Lines, Read(line)
      PROVE  Sent'
  <2>1. Len(upstream') = Len(upstream) + 1 /\ Len(upstream) \in Nat /\ Len(upstream) < MaxLines
    BY <1>6, AppendOK DEF Read, Sent, TypeOK
  <2>2. task'.step # "send" /\ UNCHANGED <<client, outgoing>>
    BY <1>6, Moved DEF Read, IInv, Steps
  <2>3. st' \in StreamState
    <3>1. st'.finish \in Finishes /\ st \in StreamState
      BY DEF IInv, Typed, Sent, TypeOK
    <3>2. CASE st' = st
      BY <3>1, <3>2
    <3>3. CASE st' = observe(st, cleanChunkJSON(line))
      <4>1. st'.finish = FinishOf(cleanChunkJSON(line), st.finish)
        BY <3>3 DEF observe
      <4> QED
        BY <3>1, <3>3, <4>1, StatesObserved
    <3> QED
      BY <1>6, <3>2, <3>3 DEF Read
  <2> QED
    BY <1>1, <1>2, <2>1, <2>2, <2>3, StreamAssumption DEF Sent, TypeOK
<1>7. ASSUME Fail \/ Open
      PROVE  Sent'
  <2>1. task'.step # "send"
    BY <1>7, Moved DEF Fail, Open, IInv, Steps
  <2> QED
    BY <1>1, <1>2, <1>7, <2>1, Bodies DEF Fail, Open, Sent, TypeOK
<1>8. ASSUME EndOfStream \/ Trailing \/ Finish
      PROVE  Sent'
  <2>1. task'.step # "send"
    BY <1>8, Moved DEF EndOfStream, Trailing, Finish, IInv, Steps
  <2> QED
    BY <1>1, <1>2, <1>8, <2>1 DEF EndOfStream, Trailing, Finish, Sent, TypeOK
<1>9. ASSUME HangUp \/ UNCHANGED vars
      PROVE  Sent'
  BY <1>1, <1>2, <1>9 DEF HangUp, vars, Sent, TypeOK
<1>10. ASSUME Forget
      PROVE  Sent'
  <2>1. task'.step # "send"
    BY <1>10 DEF Forget, NoTask
  <2> QED
    BY <1>1, <1>2, <1>3, <1>10, <2>1 DEF Forget, Sent, TypeOK
<1> QED
  BY <1>4, <1>5, <1>6, <1>7, <1>8, <1>9, <1>10 DEF Next, Progress

LEMMA SentAlways == Spec => []Sent
<1>1. Init => Sent
  <2> SUFFICES ASSUME Init
               PROVE  Sent
    OBVIOUS
  <2>1. NothingSeen \in StreamState /\ <<>> \in Seq(Lines) /\ Len(<<>>) = 0 /\ 0 <= MaxLines
    BY StreamAssumption DEF NothingSeen, StreamState, Finishes
  <2>2. /\ NoTask \in [step : Steps, path : Paths, framed : BOOLEAN, region : {"cn", "global"}]
        /\ NoTask.step # "send"
    BY DEF NoTask, Steps, Paths
  <2> QED
    BY <2>1, <2>2, Bodies DEF Init, Sent, TypeOK
<1>2. IInv /\ IInv' /\ Sent /\ [Next]_vars => Sent'
  BY SentStep
<1> QED
  BY <1>1, <1>2, Invariant, PTL DEF Spec

\* Whatever is asked for, upstream says and the host hears, the state is of its
\* type: bodies stay bodies through every rewrite, no answer is read beyond its
\* bound.
THEOREM TypeCorrect == Spec => []TypeOK
<1>1. Sent => TypeOK
  BY DEF Sent
<1> QED
  BY <1>1, SentAlways, PTL

\* Any request of any conversation, on its first attempt and under the name of
\* any fallback, goes out as upstream takes it.
THEOREM OutgoingAccepted == Spec => []UpstreamAccepts
<1>1. Sent => UpstreamAccepts
  <2> SUFFICES ASSUME Sent, task.step = "send", outgoing.kind = "object"
               PROVE  /\ outgoing.stream
                      /\ ~outgoing.prefixed
                      /\ task.region = "global" /\ outgoing.messages # <<>>
                            => Head(outgoing.messages).role = "system"
                      /\ \A m \in Range(outgoing.messages) :
                            "template" \notin Range(m.content)
    BY DEF UpstreamAccepts
  <2>1. Fit(outgoing, task.region)
    BY DEF Sent
  <2> QED
    BY <2>1 DEF Fit, Reworded, Range
<1> QED
  BY <1>1, SentAlways, PTL

-----------------------------------------------------------------------------
(***************************************************************************)
(* What the client hears.  F is about the fold that Sift is made of.       *)
(***************************************************************************)
F == INSTANCE FoldProofs WITH Op <- Kept

LEMMA SiftIsFold ==
    ASSUME NEW s, NEW K
    PROVE  Sift(s, K) = F!Fold(K, <<>>, s)
  BY DEF Sift, Kept, F!Fold, FoldLeft, MapThenFoldSet, Max,
         F!FoldLeft, F!MapThenFoldSet, F!Max

LEMMA NoPlaces == ASSUME NEW K PROVE Places(K, 0) = <<>>
<1>1. [i \in 1..0 |-> i] = <<>>
  OBVIOUS
<1> QED
  BY <1>1, SiftIsFold, F!FoldEmpty DEF Places

\* One more place, and it is the last one.
LEMMA OneMorePlace ==
    ASSUME NEW n \in Nat, NEW K, NEW L, \A i \in 1..n : i \in K <=> i \in L
    PROVE  Places(L, n + 1) = IF n + 1 \in L THEN Append(Places(K, n), n + 1)
                              ELSE Places(K, n)
<1> DEFINE s == [i \in 1..n |-> i]
           t == [i \in 1..(n + 1) |-> i]
<1>1. /\ s \in Seq(Nat) /\ Len(s) = n /\ n + 1 \in Nat /\ t = Append(s, n + 1)
      /\ \A k \in 1..n : s[k] = k
  OBVIOUS
<1>2. Places(L, n + 1) = F!Fold(L, <<>>, t) /\ Places(K, n) = F!Fold(K, <<>>, s)
  BY SiftIsFold DEF Places
<1> HIDE DEF s, t
<1>3. F!Fold(L, <<>>, t) = Kept(L, F!Fold(L, <<>>, s), n + 1)
  BY <1>1, F!FoldAppend
<1>4. \A k \in 1..Len(s) : \A a : Kept(K, a, s[k]) = Kept(L, a, s[k])
  BY <1>1 DEF Kept
<1>5. F!Fold(K, <<>>, s) = F!Fold(L, <<>>, s)
  BY <1>1, <1>4, F!FoldCongruence
<1> QED
  BY <1>2, <1>3, <1>5 DEF Kept

LEMMA PlacesAreWithin ==
    ASSUME NEW n \in Nat, NEW K
    PROVE  Places(K, n) \in Seq(1..n)
<1> DEFINE s == [i \in 1..n |-> i]
<1>1. s \in Seq(1..n)
  OBVIOUS
<1>2. Places(K, n) = F!Fold(K, <<>>, s)
  BY SiftIsFold DEF Places
<1> HIDE DEF s
<1>3. F!Sieves(K, 1..n, K)
  BY DEF F!Sieves, Kept
<1> QED
  BY <1>1, <1>2, <1>3, F!FoldSieves

\* Another line of upstream.
LEMMA CarryingMore ==
    ASSUME NEW lines \in Seq(Lines), NEW line \in Lines, NEW f
    PROVE  Carrying(Append(lines, line), f) =
              IF Says(line, {f}) THEN Append(Carrying(lines, f), Len(lines) + 1)
              ELSE Carrying(lines, f)
<1> DEFINE more == Append(lines, line)
           K == {i \in DOMAIN lines : Says(lines[i], {f})}
           L == {i \in DOMAIN more : Says(more[i], {f})}
<1>1. /\ Len(lines) \in Nat /\ DOMAIN lines = 1..Len(lines)
      /\ DOMAIN more = 1..(Len(lines) + 1) /\ Len(more) = Len(lines) + 1
      /\ \A i \in 1..Len(lines) : more[i] = lines[i]
      /\ more[Len(lines) + 1] = line
  BY AppendOK
<1> HIDE DEF more
<1>2. \A i \in 1..Len(lines) : i \in K <=> i \in L
  BY <1>1
<1>3. Len(lines) + 1 \in L <=> Says(line, {f})
  BY <1>1
<1>4. Carrying(lines, f) = Places(K, Len(lines)) /\ Carrying(more, f) = Places(L, Len(lines) + 1)
  BY <1>1 DEF Carrying
<1> HIDE DEF K, L
<1> QED
  BY <1>1, <1>2, <1>3, <1>4, OneMorePlace DEF more

LEMMA NothingCarried == ASSUME NEW f PROVE Carrying(<<>>, f) = <<>>
  BY NoPlaces DEF Carrying

LEMMA CarryingIsSeq ==
    ASSUME NEW lines \in Seq(Lines), NEW f
    PROVE  Carrying(lines, f) \in Seq(Nat)
<1>1. Carrying(lines, f) \in Seq(1..Len(lines)) /\ Len(lines) \in Nat
  BY PlacesAreWithin DEF Carrying
<1> QED
  BY <1>1

\* Heard, of whatever the host was handed.
Passes(e, f) == e.call = "emit" /\ e.accepted /\ e.from > 0 /\ Says(e.line, {f})

HeardIn(h, f) ==
    LET at == Places({i \in DOMAIN h : Passes(h[i], f)}, Len(h))
    IN  [n \in DOMAIN at |-> h[at[n]].from]

LEMMA HeardIsHeardIn == \A f : Heard(f) = HeardIn(host, f)
<1> TAKE f
<1>1. {i \in Emits : /\ host[i].accepted /\ host[i].from > 0
                     /\ Says(host[i].line, {f})} = {i \in DOMAIN host : Passes(host[i], f)}
  BY DEF Emits, Passes
<1> QED
  BY <1>1 DEF Heard, HeardIn

LEMMA IsSequence ==
    ASSUME NEW n \in Nat, NEW S, NEW g, g = [i \in 1..n |-> g[i]],
           \A i \in 1..n : g[i] \in S
    PROVE  g \in Seq(S) /\ Len(g) = n
<1>1. [i \in 1..n |-> g[i]] \in Seq(S) /\ Len([i \in 1..n |-> g[i]]) = n
  OBVIOUS
<1> QED
  BY <1>1

LEMMA IsAppended ==
    ASSUME NEW S, NEW s \in Seq(S), NEW t \in Seq(S), NEW x \in S,
           Len(t) = Len(s) + 1, \A i \in 1..Len(s) : t[i] = s[i], t[Len(s) + 1] = x
    PROVE  t = Append(s, x)
  OBVIOUS

\* Another thing the host is handed.
LEMMA HeardMore ==
    ASSUME NEW h \in Seq(HostCalls), NEW e \in HostCalls, NEW f
    PROVE  HeardIn(Append(h, e), f) =
              IF Passes(e, f) THEN Append(HeardIn(h, f), e.from) ELSE HeardIn(h, f)
<1> DEFINE more == Append(h, e)
           K == {i \in DOMAIN h : Passes(h[i], f)}
           L == {i \in DOMAIN more : Passes(more[i], f)}
           at == Places(K, Len(h))
           now == Places(L, Len(h) + 1)
<1>1. /\ Len(h) \in Nat /\ DOMAIN h = 1..Len(h)
      /\ DOMAIN more = 1..(Len(h) + 1) /\ Len(more) = Len(h) + 1
      /\ \A i \in 1..Len(h) : more[i] = h[i]
      /\ more[Len(h) + 1] = e
  BY AppendOK
<1> HIDE DEF more
<1>2. \A i \in 1..Len(h) : i \in K <=> i \in L
  BY <1>1
<1>3. Len(h) + 1 \in L <=> Passes(e, f)
  BY <1>1
<1>4. /\ HeardIn(h, f) = [n \in DOMAIN at |-> h[at[n]].from]
      /\ HeardIn(more, f) = [n \in DOMAIN now |-> more[now[n]].from]
  BY <1>1 DEF HeardIn
<1> HIDE DEF K, L
<1>5. now = IF Passes(e, f) THEN Append(at, Len(h) + 1) ELSE at
  BY <1>1, <1>2, <1>3, OneMorePlace
<1>6. at \in Seq(1..Len(h))
  BY <1>1, PlacesAreWithin
<1> HIDE DEF at, now
<1>7. CASE ~Passes(e, f)
  BY <1>1, <1>4, <1>5, <1>6, <1>7 DEF more
<1>8. CASE Passes(e, f)
  <2>1. HeardIn(more, f) = Append(HeardIn(h, f), e.from)
    <3>1. now = Append(at, Len(h) + 1)
      BY <1>5, <1>8
    <3>2. /\ Len(at) \in Nat /\ DOMAIN at = 1..Len(at) /\ DOMAIN now = 1..(Len(at) + 1)
          /\ \A n \in 1..Len(at) : now[n] = at[n] /\ at[n] \in 1..Len(h)
          /\ now[Len(at) + 1] = Len(h) + 1
      BY <1>1, <1>6, <3>1
    <3> DEFINE old == [n \in 1..Len(at) |-> h[at[n]].from]
               new == [n \in 1..(Len(at) + 1) |-> more[now[n]].from]
    <3>3. HeardIn(h, f) = old /\ HeardIn(more, f) = new
      BY <1>4, <3>2
    <3>4. \A n \in 1..Len(at) : new[n] = old[n]
      BY <1>1, <3>2
    <3>5. new[Len(at) + 1] = e.from
      BY <1>1, <3>2
    <3>6. new = Append(old, e.from)
      <4> DEFINE T == {h[at[n]].from : n \in 1..Len(at)} \cup {e.from}
      <4>1. /\ DOMAIN old = 1..Len(at) /\ old = [n \in 1..Len(at) |-> old[n]]
            /\ DOMAIN new = 1..(Len(at) + 1) /\ new = [n \in 1..(Len(at) + 1) |-> new[n]]
            /\ \A n \in 1..Len(at) : old[n] = h[at[n]].from
        OBVIOUS
      <4> HIDE DEF old, new
      <4>2. e.from \in T /\ \A n \in 1..Len(at) : old[n] \in T
        BY <4>1
      <4> HIDE DEF T
      <4>3. \A n \in 1..(Len(at) + 1) : new[n] \in T
        <5>1. \A n \in 1..(Len(at) + 1) : n \in 1..Len(at) \/ n = Len(at) + 1
          BY <3>2
        <5> QED
          BY <3>4, <3>5, <4>2, <5>1
      <4>4. /\ old \in Seq(T) /\ Len(old) = Len(at)
            /\ new \in Seq(T) /\ Len(new) = Len(at) + 1
        BY <3>2, <4>1, <4>2, <4>3, IsSequence
      <4> QED
        BY <3>2, <3>4, <3>5, <4>2, <4>4, IsAppended
    <3> QED
      BY <3>3, <3>6
  <2> QED
    BY <1>8, <2>1 DEF more
<1> QED
  BY <1>7, <1>8

LEMMA NothingHeard == ASSUME NEW f PROVE HeardIn(<<>>, f) = <<>>
<1> DEFINE K == {i \in DOMAIN <<>> : Passes(<<>>[i], f)}
<1>1. Len(<<>>) = 0
  OBVIOUS
<1>2. HeardIn(<<>>, f) = [n \in DOMAIN Places(K, 0) |-> <<>>[Places(K, 0)[n]].from]
  BY <1>1 DEF HeardIn
<1> HIDE DEF K
<1>3. Places(K, 0) = <<>>
  BY NoPlaces
<1> QED
  BY <1>2, <1>3

(***************************************************************************)
(* The client is one line behind at most: the one whose chunk was refused. *)
(***************************************************************************)
Behind(f) ==
    \/ HeardIn(host, f) = Carrying(upstream, f)
    \/ /\ Refused
       /\ Carrying(upstream, f) = Append(HeardIn(host, f), Len(upstream))

\* A message is made of all lines read.
Answered ==
    /\ task.path = "completion" /\ task.step = "over" =>
          host[1] \in {StreamError, Answer(aggregateCompletion(upstream))}

Whole == (task.path # "completion" => \A f \in Fields : Behind(f)) /\ Answered

Answers == {"content", "tool_calls"}

\* What upstreamStreamState remembers of the chunks that were handed over.
Noted ==
    task.path # "completion" =>
        /\ \A f \in ReasoningFields : HeardIn(host, f) # <<>> => st.sawReasoning
        /\ st.sawContent \/ st.sawToolCalls => \E i \in Emits : Says(host[i].line, Answers)
        /\ task.step \in {"close", "over"} /\ task.framed /\ ~Refused /\ st.sawReasoning
              => \E i \in Emits : Says(host[i].line, Answers)

LEMMA Unheard ==
    ASSUME host = <<>>, upstream = <<>>, st = NothingSeen, task.step # "over"
    PROVE  Whole /\ Noted
<1>1. \A f : HeardIn(host, f) = <<>> /\ Carrying(upstream, f) = <<>>
  BY NothingHeard, NothingCarried
<1>2. ~st.sawReasoning /\ ~st.sawContent /\ ~st.sawToolCalls
  BY DEF NothingSeen
<1> QED
  BY <1>1, <1>2 DEF Whole, Behind, Answered, Noted

LEMMA CleanSays ==
    ASSUME NEW line \in Lines, NEW fields
    PROVE  Says(cleanChunkJSON(line), fields) <=> Says(line, fields)
<1>1. CASE line.kind # "chunk"
  BY <1>1 DEF cleanChunkJSON
<1>2. CASE line.kind = "chunk"
  <2> DEFINE K == {f \in DOMAIN line.delta : ~isEmptyValue(line.delta[f])}
             d == Restrict(line.delta, K)
  <2>1. line = Chunk(line.delta, line.finish)
    BY <1>2, StreamAssumption DEF Blank, Broken
  <2>2. line \in [kind : {"chunk"}, delta : {line.delta}, finish : {line.finish}]
    BY <2>1 DEF Chunk
  <2>3. cleanChunkJSON(line) = [line EXCEPT !.delta = d]
    BY <1>2 DEF cleanChunkJSON
  <2>4. DOMAIN d = K /\ \A f \in K : d[f] = line.delta[f]
    BY DEF Restrict
  <2> HIDE DEF d
  <2>5. cleanChunkJSON(line).kind = "chunk" /\ cleanChunkJSON(line).delta = d
    BY <1>2, <2>2, <2>3
  <2> QED
    BY <1>2, <2>4, <2>5 DEF Says
<1> QED
  BY <1>1, <1>2

LEMMA BlankIsSilent == \A fields : ~Says(Blank, fields)
  BY DEF Says, Blank

LEMMA WholeRead ==
    ASSUME IInv, Whole, Noted, NEW line \in Lines, Read(line)
    PROVE  Whole' /\ Noted'
<1> DEFINE clean == cleanChunkJSON(line)
           n == Len(upstream) + 1
           e == Emitted(clean, n)
<1>1. /\ task.step = "read" /\ upstream' = Append(upstream, line)
      /\ upstream \in Seq(Lines) /\ host \in Seq(HostCalls)
      /\ upstream' \in Seq(Lines) /\ Len(upstream') = n /\ n \in Nat /\ n > 0
  BY AppendOK DEF Read, IInv, Typed
<1>2. \A f : Carrying(upstream', f) =
                IF Says(line, {f}) THEN Append(Carrying(upstream, f), n)
                ELSE Carrying(upstream, f)
  BY <1>1, CarryingMore
<1>3. ~Refused /\ \A f \in Fields : task.path # "completion" =>
                     HeardIn(host, f) = Carrying(upstream, f)
  BY <1>1 DEF IInv, Reading, Refused, Emits, Whole, Behind
<1>4. CASE task.path = "completion"
  <2>1. task' = task
    BY <1>4 DEF Read
  <2> QED
    BY <1>1, <1>4, <2>1 DEF Whole, Answered, Noted
<1>5. CASE task.path # "completion" /\ line = Blank
  <2>1. task' = task /\ host' = host /\ st' = st
    BY <1>5 DEF Read
  <2>2. \A f : Carrying(upstream', f) = Carrying(upstream, f)
    BY <1>2, <1>5, BlankIsSilent
  <2>3. Whole'
    BY <1>1, <1>3, <1>5, <2>1, <2>2 DEF Whole, Behind, Answered
  <2> QED
    BY <1>5, <2>1, <2>3 DEF Noted, Refused, Emits
<1>6. CASE task.path # "completion" /\ line # Blank
  <2>1. /\ st' = observe(st, clean) /\ host' = Append(host, e)
        /\ task' = [task EXCEPT !.step = IF e.accepted THEN "read" ELSE "close"]
    BY <1>6 DEF Read
  <2>2. /\ e \in HostCalls /\ e.call = "emit" /\ e.line = clean /\ e.from = n
        /\ e.accepted \in BOOLEAN
    <3>1. clean \in Outs /\ Typed
      BY DEF Outs, IInv
    <3> HIDE DEF clean, n
    <3> QED
      BY <1>1, <3>1, EmitOK
  <2>3. /\ task'.step = IF e.accepted THEN "read" ELSE "close"
        /\ task'.path = task.path /\ task'.framed = task.framed
    BY <2>1, Moved DEF IInv, Steps
  <2>4. \A fields : Says(clean, fields) <=> Says(line, fields)
    BY CleanSays
  <2>5. /\ st'.sawReasoning <=> st.sawReasoning \/ Says(line, ReasoningFields)
        /\ st'.sawContent <=> st.sawContent \/ Says(line, {"content"})
        /\ st'.sawToolCalls <=> st.sawToolCalls \/ Says(line, {"tool_calls"})
    <3>1. /\ st'.sawReasoning = (st.sawReasoning \/ Says(clean, ReasoningFields))
          /\ st'.sawContent = (st.sawContent \/ Says(clean, {"content"}))
          /\ st'.sawToolCalls = (st.sawToolCalls \/ Says(clean, {"tool_calls"}))
      BY <2>1 DEF observe
    <3> HIDE DEF clean
    <3> QED
      BY <2>4, <3>1
  <2> HIDE DEF e
  <2>6. /\ DOMAIN host = 1..Len(host) /\ DOMAIN host' = 1..(Len(host) + 1)
        /\ \A i \in DOMAIN host : host'[i] = host[i]
        /\ host'[Len(host) + 1] = e /\ Len(host) \in Nat
    BY <1>1, <2>1, <2>2, AppendOK
  <2>7. \A f : Passes(e, f) <=> e.accepted /\ Says(line, {f})
    <3> HIDE DEF clean, n
    <3> QED
      BY <1>1, <2>2, <2>4 DEF Passes
  <2>8. \A f : HeardIn(host', f) = IF e.accepted /\ Says(line, {f})
                                   THEN Append(HeardIn(host, f), n) ELSE HeardIn(host, f)
    <3> HIDE DEF clean, n
    <3> QED
      BY <1>1, <2>1, <2>2, <2>7, HeardMore
  <2>9. ~e.accepted => Refused'
    <3>1. Len(host) + 1 \in Emits'
      BY <2>2, <2>6 DEF Emits
    <3> QED
      BY <2>6, <3>1 DEF Refused
  <2>10. Whole'
    <3>1. \A f \in Fields : Behind(f)'
      <4> TAKE f \in Fields
      <4>1. HeardIn(host, f) = Carrying(upstream, f)
        BY <1>3, <1>6
      <4> HIDE DEF n
      <4>2. CASE e.accepted \/ ~Says(line, {f})
        BY <1>2, <2>8, <4>1, <4>2 DEF Behind
      <4>3. CASE ~e.accepted /\ Says(line, {f})
        BY <1>1, <1>2, <2>8, <2>9, <4>1, <4>3 DEF Behind
      <4> QED
        BY <4>2, <4>3
    <3> QED
      BY <1>6, <2>3, <3>1 DEF Whole, Answered
  <2>11. Noted'
    <3>1. Emits \subseteq Emits' /\ (\A i \in Emits : host'[i].line = host[i].line)
      BY <2>6 DEF Emits
    <3>2. Len(host) + 1 \in Emits' /\ host'[Len(host) + 1].line = clean
      BY <2>2, <2>6 DEF Emits
    <3> HIDE DEF clean, n
    <3>3. ASSUME NEW f \in ReasoningFields, HeardIn(host', f) # <<>>
          PROVE  st'.sawReasoning
      <4>1. Says(line, {f}) => Says(line, ReasoningFields)
        BY DEF Says
      <4> QED
        BY <1>6, <2>5, <2>8, <3>3, <4>1 DEF Noted
    <3>4. ASSUME st'.sawContent \/ st'.sawToolCalls
          PROVE  \E i \in Emits' : Says(host'[i].line, Answers)
      <4>1. Says(line, {"content"}) \/ Says(line, {"tool_calls"}) => Says(clean, Answers)
        BY <2>4 DEF Says, Answers
      <4>2. CASE st.sawContent \/ st.sawToolCalls
        BY <1>6, <3>1, <4>2 DEF Noted
      <4>3. CASE ~(st.sawContent \/ st.sawToolCalls)
        BY <2>5, <3>2, <3>4, <4>1, <4>3
      <4> QED
        BY <4>2, <4>3
    <3>5. task'.step \in {"close", "over"} => Refused'
      BY <2>3, <2>9
    <3> QED
      BY <3>3, <3>4, <3>5 DEF Noted
  <2> QED
    BY <2>10, <2>11
<1> QED
  BY <1>4, <1>5, <1>6

\* What the plugin adds carries no line of upstream.
LEMMA OwnIsUnheard ==
    ASSUME NEW h \in Seq(HostCalls), NEW e \in HostCalls, e.call = "emit" => e.from = 0
    PROVE  \A f : HeardIn(Append(h, e), f) = HeardIn(h, f)
<1>1. \A f : ~Passes(e, f)
  BY DEF Passes
<1> QED
  BY <1>1, HeardMore

LEMMA WholeTrailing ==
    ASSUME IInv, Whole, Noted, Trailing
    PROVE  Whole' /\ Noted'
<1> DEFINE tail == Concluding(st.finish)
           e == Emitted(tail, 0)
<1>1. /\ task'.step = "close" /\ task'.path = task.path /\ task'.framed = task.framed
      /\ UNCHANGED <<upstream, st>> /\ task.step = "trailing" /\ host \in Seq(HostCalls)
  BY Moved DEF Trailing, IInv, Typed, Steps
<1>2. ~Refused
  BY <1>1 DEF IInv, Reading, Refused, Emits
<1>3. CASE task.path = "completion"
  BY <1>1, <1>3 DEF Whole, Answered, Noted
<1>4. CASE task.path # "completion" /\ ~(task.framed /\ trailingChunk(st) # <<>>)
  <2>1. host' = host
    BY <1>4 DEF Trailing
  <2>2. task.framed => ~st.sawReasoning \/ st.sawContent \/ st.sawToolCalls
    BY <1>4 DEF trailingChunk, ReasoningOnly
  <2>3. Whole'
    BY <1>1, <1>4, <2>1 DEF Whole, Behind, Answered, Refused, Emits
  <2> QED
    BY <1>1, <1>4, <2>1, <2>2, <2>3 DEF Noted, Emits, Refused
<1>5. CASE task.path # "completion" /\ task.framed /\ trailingChunk(st) # <<>>
  <2>1. trailingChunk(st) = <<tail>> /\ host' = Append(host, Emitted(Head(trailingChunk(st)), 0))
    BY <1>5 DEF Trailing, trailingChunk, Concluding
  <2>2. Head(trailingChunk(st)) = tail
    BY <2>1
  <2>3. tail \in Outs /\ Typed
    BY DEF Outs, Concluding, Finishes, IInv, Typed
  <2>4. Says(tail, Answers)
    <3> DEFINE d == [content |-> "text"]
    <3>1. tail.kind = "chunk" /\ tail.delta = d
      BY DEF Concluding, Chunk
    <3>2. "content" \in DOMAIN d /\ d["content"] = "text"
      OBVIOUS
    <3> HIDE DEF d, tail
    <3> QED
      BY <3>1, <3>2 DEF Says, Answers, isEmptyValue
  <2> HIDE DEF tail
  <2>5. e \in HostCalls /\ e.call = "emit" /\ e.line = tail /\ e.from = 0
    BY <2>3, EmitOK
  <2>6. host' = Append(host, e)
    BY <2>1, <2>2
  <2> HIDE DEF e
  <2>7. \A f : HeardIn(host', f) = HeardIn(host, f)
    BY <1>1, <2>5, <2>6, OwnIsUnheard
  <2>8. /\ DOMAIN host = 1..Len(host) /\ DOMAIN host' = 1..(Len(host) + 1)
        /\ host'[Len(host) + 1] = e /\ Len(host) \in Nat
    BY <1>1, <2>5, <2>6, AppendOK
  <2>9. \E i \in Emits' : Says(host'[i].line, Answers)
    <3>1. Len(host) + 1 \in Emits'
      BY <2>5, <2>8 DEF Emits
    <3> QED
      BY <2>4, <2>5, <2>8, <3>1
  <2>10. Whole'
    <3>1. ASSUME NEW f \in Fields
          PROVE  Behind(f)'
      BY <1>1, <1>2, <1>5, <2>7 DEF Whole, Behind
    <3> QED
      BY <1>1, <1>5, <3>1 DEF Whole, Answered
  <2> QED
    BY <1>1, <1>5, <2>7, <2>9, <2>10 DEF Noted
<1> QED
  BY <1>3, <1>4, <1>5

LEMMA WholeFinish ==
    ASSUME IInv, Whole, Noted, Finish
    PROVE  Whole' /\ Noted'
<1> DEFINE e == CASE task.path = "pump"    -> Close
                  [] task.path = "collect" -> Chunks
                  [] OTHER                 -> Answer(aggregateCompletion(upstream))
<1>1. /\ task'.step = "over" /\ task'.path = task.path /\ task'.framed = task.framed
      /\ UNCHANGED <<upstream, st>> /\ task.step = "close" /\ host \in Seq(HostCalls)
      /\ host' = Append(host, e) /\ task.path \in Paths /\ upstream \in Seq(Lines)
  BY Moved DEF Finish, IInv, Typed, Steps
<1>2. /\ e \in HostCalls /\ e.call # "emit"
      /\ task.path = "completion" => e = Answer(aggregateCompletion(upstream))
  <2> DEFINE message == aggregateCompletion(upstream)
  <2>1. Answer(message) \in HostCalls /\ Close \in HostCalls /\ Chunks \in HostCalls
    BY <1>1 DEF HostCalls
  <2>2. Answer(message).call # "emit" /\ Close.call # "emit" /\ Chunks.call # "emit"
    BY DEF Answer, Close, Chunks
  <2> HIDE DEF message
  <2> QED
    BY <1>1, <2>1, <2>2 DEF Paths, message
<1> HIDE DEF e
<1>3. \A f : HeardIn(host', f) = HeardIn(host, f)
  BY <1>1, <1>2, OwnIsUnheard
<1>4. /\ DOMAIN host = 1..Len(host) /\ DOMAIN host' = 1..(Len(host) + 1)
      /\ \A i \in DOMAIN host : host'[i] = host[i]
      /\ host'[Len(host) + 1] = e /\ Len(host) \in Nat
  BY <1>1, <1>2, AppendOK
<1>5. Emits' = Emits /\ \A i \in Emits : host'[i] = host[i]
  <2>1. Len(host) + 1 \notin Emits'
    BY <1>2, <1>4 DEF Emits
  <2>2. \A i \in DOMAIN host' : i \in DOMAIN host \/ i = Len(host) + 1
    BY <1>4
  <2> QED
    BY <1>4, <2>1, <2>2 DEF Emits
<1>6. Refused' <=> Refused
  BY <1>5 DEF Refused
<1>7. Whole'
  <2>1. ASSUME NEW f \in Fields, task.path # "completion"
        PROVE  Behind(f)'
    BY <1>1, <1>3, <1>6, <2>1 DEF Whole, Behind
  <2>2. ASSUME task.path = "completion"
        PROVE  host'[1] = e
    <3>1. DOMAIN host = {}
      BY <1>1, <2>2 DEF IInv, Closing, Sourced
    <3>2. Len(host) = 0
      BY <1>4, <3>1
    <3> QED
      BY <1>4, <3>2
  <2> QED
    BY <1>1, <1>2, <2>1, <2>2 DEF Whole, Answered
<1>8. Noted'
  BY <1>1, <1>3, <1>5, <1>6 DEF Noted
<1> QED
  BY <1>7, <1>8

LEMMA WholeFail ==
    ASSUME IInv, Fail
    PROVE  Whole' /\ Noted'
<1>1. /\ upstream' = <<>> /\ st' = NothingSeen /\ task'.step = "over"
      /\ task'.path = task.path
  BY Moved DEF Fail, IInv, Fresh, Steps
<1>2. /\ StreamError \in HostCalls /\ StreamError.call # "emit"
      /\ Close \in HostCalls /\ Close.call # "emit" /\ <<>> \in Seq(HostCalls)
  BY DEF HostCalls, StreamError, Close
<1>3. \/ host' = Append(Append(<<>>, StreamError), Close)
      \/ host' = Append(<<>>, StreamError)
  BY DEF Fail
<1>4. Append(<<>>, StreamError) \in Seq(HostCalls)
  BY <1>2
<1>5. \A f : HeardIn(host', f) = <<>>
  <2>1. \A f : HeardIn(Append(<<>>, StreamError), f) = <<>>
    BY <1>2, OwnIsUnheard, NothingHeard
  <2>2. \A f : HeardIn(Append(Append(<<>>, StreamError), Close), f) = <<>>
    BY <1>2, <1>4, <2>1, OwnIsUnheard
  <2> QED
    BY <1>3, <2>1, <2>2
<1>6. \A f : Carrying(upstream', f) = <<>>
  BY <1>1, NothingCarried
<1>7. host'[1] = StreamError
  BY <1>3, <1>2
<1>8. ~st'.sawReasoning /\ ~st'.sawContent /\ ~st'.sawToolCalls
  BY <1>1 DEF NothingSeen
<1> QED
  BY <1>1, <1>5, <1>6, <1>7, <1>8 DEF Whole, Behind, Answered, Noted

LEMMA WholeAlways == Spec => [](Whole /\ Noted)
<1>1. Init => Whole /\ Noted
  BY Unheard DEF Init, NoTask
<1>2. ASSUME IInv, IInv', Whole, Noted, [Next]_vars
      PROVE  Whole' /\ Noted'
  <2>1. ASSUME (\E r \in Requests : Accept(r)) \/ (\E id \in Fallbacks : Swap(id)) \/ Open
        PROVE  Whole' /\ Noted'
    <3>1. host' = <<>> /\ upstream' = <<>> /\ st' = NothingSeen
      BY <1>2, <2>1 DEF Accept, Swap, Open, IInv, Fresh
    <3>2. task'.step # "over"
      BY <1>2, <2>1, Moved DEF Accept, Swap, Open, IInv, Typed, Steps
    <3>3. \A f : HeardIn(host', f) = <<>> /\ Carrying(upstream', f) = <<>>
      BY <3>1, NothingHeard, NothingCarried
    <3>4. ~st'.sawReasoning /\ ~st'.sawContent /\ ~st'.sawToolCalls
      BY <3>1 DEF NothingSeen
    <3> QED
      BY <3>2, <3>3, <3>4 DEF Whole, Behind, Answered, Noted
  <2>2. ASSUME EndOfStream
        PROVE  Whole' /\ Noted'
    <3>1. /\ task'.step = "trailing" /\ task'.path = task.path
          /\ UNCHANGED <<upstream, st, host>>
      BY <1>2, <2>2, Moved DEF EndOfStream, IInv, Steps
    <3> QED
      BY <1>2, <3>1 DEF Whole, Behind, Answered, Noted, Refused, Emits
  <2>3. ASSUME HangUp \/ UNCHANGED vars
        PROVE  Whole' /\ Noted'
    <3>1. UNCHANGED <<task, upstream, st, host>>
      BY <2>3 DEF HangUp, vars
    <3> QED
      BY <1>2, <3>1 DEF Whole, Behind, Answered, Noted, Refused, Emits
  <2>4. ASSUME Forget
        PROVE  Whole' /\ Noted'
    <3>1. host' = <<>> /\ upstream' = <<>> /\ st' = NothingSeen /\ task'.step = "idle"
      BY <2>4 DEF Forget, NoTask
    <3>2. \A f : HeardIn(host', f) = <<>> /\ Carrying(upstream', f) = <<>>
      BY <3>1, NothingHeard, NothingCarried
    <3>3. ~st'.sawReasoning /\ ~st'.sawContent /\ ~st'.sawToolCalls
      BY <3>1 DEF NothingSeen
    <3> QED
      BY <3>1, <3>2, <3>3 DEF Whole, Behind, Answered, Noted
  <2> QED
    BY <1>2, <2>1, <2>2, <2>3, <2>4, WholeRead, WholeTrailing, WholeFinish, WholeFail
       DEF Next, Progress
<1> QED
  BY <1>1, <1>2, Invariant, PTL DEF Spec

LEMMA WholeLosesNothing == IInv /\ Whole => NothingLost
<1> SUFFICES ASSUME IInv, Whole
             PROVE  NothingLost
  OBVIOUS
<1>1. upstream \in Seq(Lines)
  BY DEF IInv, Typed
<1>2. ASSUME task.path # "completion", NEW f \in Fields
      PROVE  LET said == Carrying(upstream, f)
             IN  /\ Heard(f) = SubSeq(said, 1, Len(Heard(f)))
                 /\ ~Refused /\ task.step = "over" /\ host[1] # StreamError
                       => Heard(f) = said
  <2> DEFINE said == Carrying(upstream, f)
             h == Heard(f)
  <2>1. h = HeardIn(host, f) /\ said \in Seq(Nat) /\ Behind(f)
    BY <1>1, <1>2, HeardIsHeardIn, CarryingIsSeq DEF Whole
  <2>2. CASE h = said
    BY <2>1, <2>2
  <2>3. CASE Refused /\ said = Append(h, Len(upstream))
    <3>1. Len(upstream) \in Nat
      BY <1>1
    <3>2. h \in Seq(Nat)
      <4>1. h = [n \in DOMAIN h |-> h[n]]
        BY <2>1 DEF HeardIn
      <4> HIDE DEF h, said
      <4>2. Append(h, Len(upstream)) = said
        BY <2>3
      <4> QED
        BY <2>1, <2>3, <3>1, <4>1
    <3> HIDE DEF h, said
    <3>3. h = SubSeq(Append(h, Len(upstream)), 1, Len(h))
      BY <3>1, <3>2
    <3> QED
      BY <2>3, <3>3 DEF h, said
  <2> QED
    BY <2>1, <2>2, <2>3 DEF Behind
<1>3. ASSUME task.path = "completion", task.step = "over", host[1] # StreamError
      PROVE  LET message == host[1].message
             IN  /\ message.content = Carrying(upstream, "content")
                 /\ message.toolCalls = Carrying(upstream, "tool_calls")
                 /\ message.reasoning = Carrying(upstream, "reasoning_content")
  <2>1. host[1] = Answer(aggregateCompletion(upstream))
    BY <1>3 DEF Whole, Answered
  <2>2. host[1].message = aggregateCompletion(upstream)
    BY <2>1 DEF Answer
  <2> QED
    BY <2>2 DEF aggregateCompletion
<1> QED
  BY <1>2, <1>3 DEF NothingLost

\* Of an answer of any length, on any of the three ways, no piece of any field
\* is lost, doubled or put out of order.
THEOREM AllIsHeard == Spec => []NothingLost
<1> QED
  BY WholeLosesNothing, Invariant, WholeAlways, PTL

\* An answer of any length that reasoned, complete or cut off, ends with a
\* message or a tool call.
THEOREM ReasoningConcluded == Spec => []ReasoningIsConcluded
<1>1. IInv /\ Noted => ReasoningIsConcluded
  <2> SUFFICES ASSUME IInv, Noted, task.step = "over", task.framed,
                      task.path # "completion", ~Refused,
                      NEW f \in ReasoningFields, Heard(f) # <<>>
               PROVE  \E i \in Emits : Says(host[i].line, {"content", "tool_calls"})
    BY DEF ReasoningIsConcluded
  <2>1. HeardIn(host, f) # <<>>
    BY HeardIsHeardIn
  <2> QED
    BY <2>1 DEF Noted, Answers
<1> QED
  BY <1>1, Invariant, WholeAlways, PTL

-----------------------------------------------------------------------------
(***************************************************************************)
(* The refinement: what AnswerContract sees of a request.                  *)
(***************************************************************************)
wayBar == IF task.path = "pump" THEN "stream" ELSE "call"
phaseBar == IF task.step \in {"idle", "over"} THEN task.step
            ELSE IF Shut THEN "shut"
            ELSE "open"
callsBar == [i \in DOMAIN host |-> AsHeard(host[i])]

\* Who was handed nothing has nothing to be concluded.
Unseen == host = <<>> => ~st.sawReasoning

LEMMA UnseenAlways == Spec => []Unseen
<1>1. Init => Unseen
  BY DEF Init, Unseen, NothingSeen
<1>2. ASSUME IInv, Unseen, [Next]_vars
      PROVE  Unseen'
  <2>1. ASSUME NEW h, host' = Append(host, h)
        PROVE  host' # <<>>
    <3>1. host \in Seq(HostCalls)
      BY <1>2 DEF IInv, Typed
    <3>2. host \in Seq(HostCalls \cup {h}) /\ h \in HostCalls \cup {h}
      BY <3>1
    <3> QED
      BY <2>1, <3>2, AppendOK
  <2>2. ASSUME NEW line \in Lines, Read(line)
        PROVE  Unseen'
    <3>1. \/ UNCHANGED <<st, host>>
          \/ host' = Append(host, Emitted(cleanChunkJSON(line), Len(upstream) + 1))
      BY <2>2 DEF Read
    <3> QED
      BY <1>2, <2>1, <3>1 DEF Unseen
  <2>3. ASSUME Trailing \/ Finish
        PROVE  Unseen'
    <3>1. st' = st /\ (host' = host \/ \E h : host' = Append(host, h))
      BY <2>3 DEF Trailing, Finish
    <3> QED
      BY <1>2, <2>1, <3>1 DEF Unseen
  <2>4. ASSUME Fail \/ Forget
        PROVE  Unseen'
    BY <1>2, <2>4 DEF Fail, Forget, Unseen, IInv, Fresh, NothingSeen
  <2>5. ASSUME UNCHANGED <<st, host>>
        PROVE  Unseen'
    BY <1>2, <2>5 DEF Unseen
  <2> QED
    BY <1>2, <2>2, <2>3, <2>4, <2>5
       DEF Next, Progress, Accept, Swap, Open, EndOfStream, HangUp, vars
<1> QED
  BY <1>1, <1>2, Invariant, PTL DEF Spec

LEMMA CallsAppended ==
    ASSUME NEW h \in Seq(HostCalls), host = h, NEW e \in HostCalls, host' = Append(h, e)
    PROVE  callsBar' = Append(callsBar, AsHeard(e))
<1>1. /\ DOMAIN host = 1..Len(host) /\ Len(host) \in Nat
      /\ DOMAIN host' = 1..(Len(host) + 1)
      /\ \A i \in 1..Len(host) : host'[i] = host[i]
      /\ host'[Len(host) + 1] = e
  BY AppendOK
<1>2. callsBar' = [i \in 1..(Len(host) + 1) |-> AsHeard(host'[i])]
  BY <1>1 DEF callsBar, AsHeard
<1>3. callsBar = [i \in 1..Len(host) |-> AsHeard(host[i])]
  BY <1>1 DEF callsBar
<1> DEFINE T == {AsHeard(x) : x \in HostCalls}
<1>4. callsBar \in Seq(T) /\ Len(callsBar) = Len(host) /\ AsHeard(e) \in T
  BY <1>1, <1>3, IsSequence
<1>5. callsBar' \in Seq(T) /\ Len(callsBar') = Len(host) + 1
  BY <1>1, <1>2, IsSequence
<1> HIDE DEF T
<1>6. /\ \A i \in 1..Len(host) : callsBar'[i] = callsBar[i]
      /\ callsBar'[Len(host) + 1] = AsHeard(e)
  BY <1>1, <1>2, <1>3
<1> QED
  BY <1>4, <1>5, <1>6, IsAppended

\* A request that is not over yet and was refused nothing.
LEMMA StaysOpen ==
    ASSUME task.step \notin {"idle", "over"},
           \A i \in DOMAIN host :
              host[i].call = "emit" => host[i].accepted /\ host[i].from # 0
    PROVE  ~Shut /\ phaseBar = "open"
  BY DEF Shut, Refused, Emits, phaseBar

LEMMA UnheardStep ==
    ASSUME UNCHANGED <<wayBar, phaseBar, callsBar>>
    PROVE  UNCHANGED Contract!vars
  BY DEF Contract!vars, wayBar, phaseBar, callsBar, AsHeard, Shut, Refused, Emits

LEMMA AsHeardFields ==
    /\ \A e : e.call = "emit" =>
          /\ AsHeard(e) = Contract!Handed(e.from, e.accepted)
          /\ AsHeard(e).from = e.from
    /\ AsHeard(StreamError) = Contract!Said("error")
    /\ AsHeard(Close) = Contract!Said("close")
    /\ AsHeard(Chunks) = Contract!Said("answer")
    /\ \A m : AsHeard(Answer(m)) = Contract!Said("answer")
  BY DEF AsHeard, Contract!Handed, Contract!Said, StreamError, Close, Chunks, Answer

\* A line of upstream, handed over.
LEMMA IsHand ==
    ASSUME NEW from \in 1..MaxLines, NEW accepted \in BOOLEAN, phaseBar = "open",
           \A i \in DOMAIN callsBar : callsBar[i].from < from,
           wayBar = "call" => accepted,
           callsBar' = Append(callsBar, Contract!Handed(from, accepted)),
           phaseBar' = (IF accepted THEN "open" ELSE "shut"), wayBar' = wayBar
    PROVE  Contract!Next
<1>1. Contract!Hand(from, accepted)
  BY DEF Contract!Hand, wayBar, phaseBar, callsBar, AsHeard, Shut, Refused, Emits
<1> QED
  BY <1>1 DEF Contract!Next

LEMMA IsConclude ==
    ASSUME NEW accepted \in BOOLEAN, phaseBar = "open", callsBar # <<>>,
           wayBar = "call" => accepted,
           callsBar' = Append(callsBar, Contract!Handed(0, accepted)),
           phaseBar' = "shut", wayBar' = wayBar
    PROVE  Contract!Next
<1>1. Contract!Conclude(accepted)
  BY DEF Contract!Conclude, wayBar, phaseBar, callsBar, AsHeard, Shut, Refused, Emits
<1> QED
  BY <1>1 DEF Contract!Next

LEMMA IsEnd ==
    ASSUME phaseBar \in {"open", "shut"}, phaseBar' = "over", wayBar' = wayBar,
           callsBar' = Append(callsBar,
                              Contract!Said(IF wayBar = "stream" THEN "close" ELSE "answer"))
    PROVE  Contract!Next
<1>1. Contract!End
  BY DEF Contract!End, wayBar, phaseBar, callsBar, AsHeard, Shut, Refused, Emits
<1> QED
  BY <1>1 DEF Contract!Next

LEMMA ReadRefines ==
    ASSUME IInv, NEW line \in Lines, Read(line)
    PROVE  Contract!Next \/ UNCHANGED Contract!vars
<1> DEFINE clean == cleanChunkJSON(line)
           n == Len(upstream) + 1
           e == Emitted(clean, n)
<1>1. /\ task.step = "read" /\ host \in Seq(HostCalls) /\ DOMAIN upstream = 1..Len(upstream)
      /\ n \in 1..MaxLines /\ Len(upstream) < n
  BY StreamAssumption DEF Read, IInv, Typed
<1>2. /\ \A i \in DOMAIN host : /\ host[i].call = "emit" /\ host[i].accepted
                                /\ host[i].from \in DOMAIN upstream
      /\ phaseBar = "open"
  <2>1. \A i \in DOMAIN host : /\ host[i].call = "emit" /\ host[i].accepted
                               /\ host[i].from > 0 /\ host[i].from \in DOMAIN upstream
    BY <1>1 DEF IInv, Reading, Sourced
  <2>2. \A i \in DOMAIN host : host[i].from # 0
    BY <1>1, <2>1
  <2> QED
    BY <1>1, <2>1, <2>2, StaysOpen
<1>3. CASE task.path = "completion" \/ line = Blank
  <2>1. UNCHANGED <<task, host>>
    BY <1>3 DEF Read
  <2>2. UNCHANGED <<wayBar, phaseBar, callsBar>>
    BY <2>1 DEF wayBar, phaseBar, callsBar, AsHeard, Shut, Refused, Emits
  <2> QED
    BY <2>2, UnheardStep
<1>4. CASE task.path # "completion" /\ line # Blank
  <2>1. /\ host' = Append(host, e)
        /\ task' = [task EXCEPT !.step = IF e.accepted THEN "read" ELSE "close"]
    BY <1>4 DEF Read
  <2>2. /\ e \in HostCalls /\ e.call = "emit" /\ e.from = n
        /\ e.accepted \in BOOLEAN
        /\ ~e.accepted => task.path = "pump"
    <3>1. clean \in Outs /\ Typed /\ n \in Nat
      BY <1>1 DEF Outs, IInv
    <3> HIDE DEF clean, n
    <3> QED
      BY <3>1, EmitOK
  <2>3. task'.step = (IF e.accepted THEN "read" ELSE "close") /\ task'.path = task.path
    BY <2>1, Moved DEF IInv, Steps
  <2> HIDE DEF e, n
  <2>4. callsBar' = Append(callsBar, Contract!Handed(n, e.accepted))
    BY <1>1, <2>1, <2>2, CallsAppended, AsHeardFields
  <2>5. /\ DOMAIN host = 1..Len(host) /\ DOMAIN host' = 1..(Len(host) + 1)
        /\ \A i \in DOMAIN host : host'[i] = host[i]
        /\ host'[Len(host) + 1] = e /\ Len(host) \in Nat
    BY <1>1, <2>1, <2>2, AppendOK
  <2>6. phaseBar' = IF e.accepted THEN "open" ELSE "shut"
    <3>1. \A i \in DOMAIN host' : host'[i].call = "emit" /\ host'[i].from # 0
      BY <1>1, <1>2, <2>2, <2>5
    <3>2. CASE e.accepted
      <4>1. \A i \in DOMAIN host' : host'[i].accepted
        BY <1>2, <2>5, <3>2
      <4> QED
        BY <2>3, <3>1, <3>2, <4>1 DEF phaseBar, Shut, Refused, Emits
    <3>3. CASE ~e.accepted
      <4>1. Len(host) + 1 \in Emits' /\ ~host'[Len(host) + 1].accepted
        BY <2>2, <2>5, <3>3 DEF Emits
      <4> QED
        BY <2>3, <3>3, <4>1 DEF phaseBar, Shut, Refused
    <3> QED
      BY <3>2, <3>3
  <2>7. \A i \in DOMAIN callsBar : callsBar[i].from < n
    <3> SUFFICES ASSUME NEW i \in DOMAIN host
                 PROVE  callsBar[i].from < n
      BY DEF callsBar
    <3>1. callsBar[i].from = host[i].from
      BY <1>2, AsHeardFields DEF callsBar
    <3>2. Len(upstream) \in Nat
      BY DEF IInv, Typed
    <3> QED
      BY <1>1, <1>2, <3>1, <3>2
  <2>8. wayBar' = wayBar /\ (wayBar = "call" => e.accepted)
    BY <2>2, <2>3 DEF wayBar
  <2> QED
    BY <1>1, <1>2, <2>2, <2>4, <2>6, <2>7, <2>8, IsHand
<1> QED
  BY <1>3, <1>4

LEMMA TrailingRefines ==
    ASSUME IInv, Unseen, Trailing
    PROVE  Contract!Next \/ UNCHANGED Contract!vars
<1> DEFINE tail == Concluding(st.finish)
           e == Emitted(tail, 0)
<1>1. /\ task'.step = "close" /\ task'.path = task.path
      /\ task.step = "trailing" /\ host \in Seq(HostCalls)
  BY Moved DEF Trailing, IInv, Typed, Steps
<1>2. /\ \A i \in DOMAIN host : /\ host[i].call = "emit" /\ host[i].accepted
                                /\ host[i].from # 0
      /\ phaseBar = "open" /\ ~Shut
  <2>1. \A i \in DOMAIN host : /\ host[i].call = "emit" /\ host[i].accepted
                               /\ host[i].from > 0
    BY <1>1 DEF IInv, Reading, Sourced
  <2>2. \A i \in DOMAIN host : host[i].from # 0
    BY <2>1
  <2> QED
    BY <1>1, <2>1, <2>2, StaysOpen
<1>3. wayBar' = wayBar
  BY <1>1 DEF wayBar
<1>4. CASE ~(task.path # "completion" /\ task.framed /\ trailingChunk(st) # <<>>)
  <2>1. host' = host
    BY <1>4 DEF Trailing
  <2>2. phaseBar' = "open" /\ callsBar' = callsBar
    BY <1>1, <1>2, <2>1 DEF phaseBar, callsBar, AsHeard, Shut, Refused, Emits
  <2> QED
    BY <1>2, <1>3, <2>2, UnheardStep
<1>5. CASE task.path # "completion" /\ task.framed /\ trailingChunk(st) # <<>>
  <2>1. trailingChunk(st) = <<tail>> /\ host' = Append(host, Emitted(Head(trailingChunk(st)), 0))
    BY <1>5 DEF Trailing, trailingChunk, Concluding
  <2>2. Head(trailingChunk(st)) = tail
    BY <2>1
  <2>3. tail \in Outs /\ Typed
    BY DEF Outs, Concluding, Finishes, IInv, Typed
  <2> HIDE DEF tail
  <2>4. /\ e \in HostCalls /\ e.call = "emit" /\ e.from = 0 /\ e.accepted \in BOOLEAN
        /\ ~e.accepted => task.path = "pump"
    BY <2>3, EmitOK
  <2>5. host' = Append(host, e)
    BY <2>1, <2>2
  <2> HIDE DEF e
  <2>6. callsBar' = Append(callsBar, Contract!Handed(0, e.accepted))
    BY <1>1, <2>4, <2>5, CallsAppended, AsHeardFields
  <2>7. phaseBar' = "shut"
    <3>1. Len(host) + 1 \in DOMAIN host' /\ host'[Len(host) + 1] = e
      BY <1>1, <2>4, <2>5, AppendOK
    <3>2. Len(host) + 1 \in Emits' /\ host'[Len(host) + 1].from = 0
      BY <2>4, <3>1 DEF Emits
    <3> QED
      BY <1>1, <3>2 DEF phaseBar, Shut
  <2>8. callsBar # <<>>
    <3>1. host # <<>>
      BY <1>5 DEF trailingChunk, ReasoningOnly, Unseen
    <3>2. PICK i \in DOMAIN host : TRUE
      <4>1. Len(host) \in Nat /\ DOMAIN host = 1..Len(host) /\ Len(host) # 0
        BY <1>1, <3>1
      <4> QED
        BY <4>1
    <3>3. i \in DOMAIN callsBar
      BY DEF callsBar
    <3> QED
      BY <3>3, EmptyOK
  <2>9. wayBar = "call" => e.accepted
    BY <2>4 DEF wayBar
  <2> QED
    BY <1>2, <1>3, <2>4, <2>6, <2>7, <2>8, <2>9, IsConclude
<1> QED
  BY <1>4, <1>5

LEMMA FinishRefines ==
    ASSUME IInv, Finish
    PROVE  Contract!Next
<1> DEFINE e == CASE task.path = "pump"    -> Close
                  [] task.path = "collect" -> Chunks
                  [] OTHER                 -> Answer(aggregateCompletion(upstream))
<1>1. /\ task'.step = "over" /\ task'.path = task.path /\ task.step = "close"
      /\ host' = Append(host, e) /\ task.path \in Paths /\ upstream \in Seq(Lines)
      /\ host \in Seq(HostCalls)
  BY Moved DEF Finish, IInv, Typed, Steps
<1>2. /\ e \in HostCalls
      /\ AsHeard(e) = Contract!Said(IF wayBar = "stream" THEN "close" ELSE "answer")
  <2> DEFINE message == aggregateCompletion(upstream)
  <2>1. Answer(message) \in HostCalls /\ Close \in HostCalls /\ Chunks \in HostCalls
    BY <1>1 DEF HostCalls
  <2> HIDE DEF message
  <2>2. CASE task.path = "pump"
    BY <2>1, <2>2, AsHeardFields DEF wayBar
  <2>3. CASE task.path = "collect"
    BY <2>1, <2>3, AsHeardFields DEF wayBar
  <2>4. CASE task.path \notin {"pump", "collect"}
    <3>1. e = Answer(message)
      BY <2>4 DEF message
    <3> HIDE DEF e
    <3> QED
      BY <2>1, <2>4, <3>1, AsHeardFields DEF wayBar
  <2> QED
    BY <2>2, <2>3, <2>4
<1> HIDE DEF e
<1>3. callsBar' = Append(callsBar, AsHeard(e))
  BY <1>1, <1>2, CallsAppended
<1>4. phaseBar \in {"open", "shut"} /\ phaseBar' = "over" /\ wayBar' = wayBar
  BY <1>1 DEF phaseBar, wayBar
<1> QED
  BY <1>2, <1>3, <1>4, IsEnd

LEMMA FailRefines ==
    ASSUME IInv, Fail
    PROVE  Contract!Next
<1>1. /\ host = <<>> /\ task.step = "send"
      /\ task'.step = "over" /\ task'.path = task.path
  BY Moved DEF Fail, IInv, Fresh, Steps
<1>2. phaseBar = "open" /\ phaseBar' = "over" /\ wayBar' = wayBar /\ callsBar = <<>>
  <2>1. DOMAIN host = {}
    BY <1>1
  <2> QED
    BY <1>1, <2>1, StaysOpen DEF phaseBar, wayBar, callsBar
<1>3. /\ <<>> \in Seq(HostCalls) /\ StreamError \in HostCalls /\ Close \in HostCalls
  BY DEF HostCalls
<1>4. host' = IF task.path = "pump" THEN <<StreamError, Close>> ELSE <<StreamError>>
  BY DEF Fail
<1>5. callsBar' = IF wayBar = "stream" THEN <<Contract!Said("error"), Contract!Said("close")>>
                  ELSE <<Contract!Said("error")>>
  <2>1. CASE task.path = "pump"
    <3>1. host' = <<StreamError, Close>>
      BY <1>4, <2>1
    <3>2. DOMAIN host' = 1..2 /\ host'[1] = StreamError /\ host'[2] = Close
      BY <3>1
    <3>3. callsBar' = [i \in 1..2 |-> AsHeard(host'[i])]
      BY <3>2 DEF callsBar, AsHeard
    <3>4. callsBar' = <<AsHeard(StreamError), AsHeard(Close)>>
      BY <3>2, <3>3
    <3> QED
      BY <2>1, <3>4, AsHeardFields DEF wayBar
  <2>2. CASE task.path # "pump"
    <3>1. host' = <<StreamError>>
      BY <1>4, <2>2
    <3>2. DOMAIN host' = 1..1 /\ host'[1] = StreamError
      BY <3>1
    <3>3. callsBar' = [i \in 1..1 |-> AsHeard(host'[i])]
      BY <3>2 DEF callsBar, AsHeard
    <3>4. callsBar' = <<AsHeard(StreamError)>>
      BY <3>2, <3>3
    <3> QED
      BY <2>2, <3>4, AsHeardFields DEF wayBar
  <2> QED
    BY <2>1, <2>2
<1>6. Contract!Fail
  BY <1>2, <1>5
     DEF Contract!Fail, wayBar, phaseBar, callsBar, AsHeard, Shut, Refused, Emits
<1> QED
  BY <1>6 DEF Contract!Next

\* The steps around an answer: it begins, another model is asked, upstream
\* opens or closes, the client leaves, and all is forgotten.
LEMMA AroundRefines ==
    ASSUME IInv, \/ \E r \in Requests : Accept(r)
                 \/ \E id \in Fallbacks : Swap(id)
                 \/ Open \/ EndOfStream \/ HangUp \/ Forget \/ UNCHANGED vars
    PROVE  Contract!Next \/ UNCHANGED Contract!vars
<1>1. ASSUME NEW r \in Requests, Accept(r)
      PROVE  Contract!Next
  <2>1. host = <<>> /\ host' = host /\ task.step = "idle"
    BY <1>1 DEF Accept, IInv, Fresh
  <2>2. r \in Request
    BY StreamAssumption
  <2>3. task'.step = "send" /\ task'.path = r.path
    BY <1>1, <2>2 DEF Accept, Request
  <2>4. /\ phaseBar = "idle" /\ phaseBar' = "open" /\ callsBar' = callsBar
        /\ wayBar' \in {"stream", "call"}
    BY <2>1, <2>3 DEF phaseBar, wayBar, callsBar, AsHeard, Shut, Refused, Emits
  <2>5. PICK w \in {"stream", "call"} : wayBar' = w
    BY <2>4
  <2>6. Contract!Begin(w)
    BY <2>4, <2>5
       DEF Contract!Begin, wayBar, phaseBar, callsBar, AsHeard, Shut, Refused, Emits
  <2> QED
    BY <2>6 DEF Contract!Next
<1>2. ASSUME (\E id \in Fallbacks : Swap(id)) \/ HangUp \/ UNCHANGED vars
      PROVE  UNCHANGED Contract!vars
  <2>1. UNCHANGED <<task, host>>
    BY <1>2 DEF Swap, HangUp, vars
  <2>2. UNCHANGED <<wayBar, phaseBar, callsBar>>
    BY <2>1 DEF wayBar, phaseBar, callsBar, AsHeard, Shut, Refused, Emits
  <2> QED
    BY <2>2, UnheardStep
<1>3. ASSUME Open \/ EndOfStream
      PROVE  UNCHANGED Contract!vars
  <2>1. /\ task.step \in {"send", "read"} /\ task'.step \in {"read", "trailing"}
        /\ task'.path = task.path /\ host' = host
    BY <1>3, Moved DEF Open, EndOfStream, IInv, Steps
  <2>2. UNCHANGED <<wayBar, phaseBar, callsBar>>
    BY <2>1 DEF wayBar, phaseBar, callsBar, AsHeard, Shut, Refused, Emits
  <2> QED
    BY <2>2, UnheardStep
<1>4. ASSUME Forget
      PROVE  Contract!Next
  <2>1. /\ task.step = "over" /\ host' = <<>> /\ task'.step = "idle" /\ task'.path = "pump"
    BY <1>4 DEF Forget, NoTask
  <2>2. DOMAIN host' = {}
    BY <2>1
  <2>3. /\ phaseBar = "over" /\ phaseBar' = "idle" /\ callsBar' = <<>>
        /\ wayBar' = "stream"
    BY <2>1, <2>2 DEF phaseBar, wayBar, callsBar
  <2>4. Contract!Forget
    BY <2>3
       DEF Contract!Forget, wayBar, phaseBar, callsBar, AsHeard, Shut, Refused, Emits
  <2> QED
    BY <2>4 DEF Contract!Next
<1> QED
  BY <1>1, <1>2, <1>3, <1>4

\* A request implements its contract: of an answer of any length, whatever
\* upstream writes and whenever the client leaves, the host is handed later
\* and later lines, at most one chunk of the plugin's own and only after
\* others, nothing after a refusal, and one end; and an error only alone.
THEOREM Implements == Spec => ImplementsContract
<1>1. Init => Contract!Init
  <2> SUFFICES ASSUME Init
               PROVE  wayBar = "stream" /\ phaseBar = "idle" /\ callsBar = <<>>
    BY DEF Contract!Init, wayBar, phaseBar, callsBar
  <2>1. task.step = "idle" /\ task.path = "pump" /\ DOMAIN host = {}
    BY DEF Init, NoTask
  <2> QED
    BY <2>1 DEF wayBar, phaseBar, callsBar
<1>2. IInv /\ Unseen /\ [Next]_vars => [Contract!Next]_(Contract!vars)
  BY AroundRefines, ReadRefines, TrailingRefines, FinishRefines, FailRefines
     DEF Next, Progress
<1> QED
  BY <1>1, <1>2, Invariant, UnseenAlways, PTL DEF Spec, ImplementsContract, Contract!Spec
=============================================================================
