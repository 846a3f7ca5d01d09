------------------------------ MODULE Fallback ------------------------------
(***************************************************************************)
(* The request path of fallback.go.  The host calls the plugin from many   *)
(* threads, so requests interleave between any two critical sections; they *)
(* share the backoff table, the model cache and the rotation cursor.       *)
(*                                                                         *)
(* One action is one critical section, or one message to or from upstream. *)
(* Upstream is the environment: it answers a call with a 429, with a 2xx,  *)
(* or not usably (another status, a transport error, the client timeout).  *)
(***************************************************************************)
EXTENDS Cooldown, Sequences, Functions

CONSTANTS
    Reqs,               \* request slots; a slot is used again once it is done
    Watched,            \* bound: the slots whose history is kept
    Catalog,            \* per credential: the cached catalog, as offers
    ExtraModels,        \* configured extra_models, as offers
    Refusals,           \* the 429s upstream may answer with
    FallbackAttempts,   \* fallbackAttempts
    CursorMod           \* bound: the uint64 cursor counts modulo this number

(***************************************************************************)
(* An id on offer, with what nextFallbackModel tells ids apart by: a price *)
(* of x0.00, another price, none, an internal service model, upstream's    *)
(* "pick one for me" alias, or declared by hand under extra_models.        *)
(* mergeCatalogs lists no id twice.                                        *)
(***************************************************************************)
Kinds == {"free", "priced", "blank", "service", "alias", "declared"}
Offers == [id : Models, kind : Kinds]

ASSUME FallbackAssumption ==
    /\ Catalog \in [Creds -> Seq([id : Models, kind : Kinds \ {"declared"}])]
    /\ ExtraModels \in Seq([id : Models, kind : {"declared"}])
    /\ Refusals \subseteq Refusal
    /\ FallbackAttempts \in Nat \ {0}
    /\ CursorMod \in Nat \ {0}
    /\ Creds # {} /\ Models # {}
    /\ Watched \subseteq Reqs

VARIABLES
    warm,      \* credentials whose catalog is cached and has not expired
    cursor,    \* fallbackCursor
    req,       \* the local state of each request
    since      \* history: what held without a break since r was accepted

vars == <<cooling, warm, cursor, req, since>>

-----------------------------------------------------------------------------

(***************************************************************************)
(* Where a request is: before the cooldown check of sendWithFallback; in   *)
(* the loops of nextFallbackModel; about to call openUpstream; waiting for *)
(* upstream; about to clear the cooldown of the model that served.         *)
(***************************************************************************)
Steps == {"idle", "check", "scan", "send", "wait", "clear", "done"}
Outcomes == {"none", "served", "error", "throttled"}

Request ==
    [step : Steps, cred : Creds, requested : Models, model : Models,
     tried : SUBSET Models, todo : Seq(Offers), pool : Seq(Models),
     asked : Seq(Models),            \* one entry per call: attempt + 1 = Len
     outcome : Outcomes]

\* `parked`: models that were cooling all along; `idle`: models that never
\* were; `warm`: the catalog was cached all along.  No guard reads it.
History == [parked : SUBSET Models, idle : SUBSET Models, warm : BOOLEAN]

TypeOK ==
    /\ CoolingOK
    /\ warm \subseteq Creds
    /\ cursor \in 0..(CursorMod - 1)
    /\ req \in [Reqs -> Request]
    /\ since \in [Watched -> History]

Fresh(c, m) ==
    [step |-> "check", cred |-> c, requested |-> m, model |-> m,
     tried |-> {}, todo |-> <<>>, pool |-> <<>>, asked |-> <<>>,
     outcome |-> "none"]

\* A slot no request is in; the locals of the last one are gone.
Vacant == Fresh(CHOOSE c \in Creds : TRUE, CHOOSE m \in Models : TRUE)

Finished(o) == [Vacant EXCEPT !.step = "done", !.outcome = o]

Open(q) == q.step \notin {"idle", "done"}

NoHistory == [parked |-> {}, idle |-> {}, warm |-> FALSE]

Init ==
    /\ InitCooling
    /\ warm = {}
    /\ cursor = 0
    /\ req = [r \in Reqs |-> [Vacant EXCEPT !.step = "idle"]]
    /\ since = [r \in Watched |-> NoHistory]

-----------------------------------------------------------------------------
(***************************************************************************)
(* The history of a step, from the primed table and cache.                 *)
(***************************************************************************)
Started(c) ==
    [parked |-> {m \in Models : cooling'[<<c, m>>].left > 0},
     idle   |-> {m \in Models : cooling'[<<c, m>>].left = 0},
     warm   |-> c \in warm']

Continued(r) ==
    LET now == Started(req[r].cred)
    IN  [parked |-> since[r].parked \cap now.parked,
         idle   |-> since[r].idle \cap now.idle,
         warm   |-> since[r].warm /\ now.warm]

Observe ==
    since' = [r \in Watched |->
                 IF ~Open(req'[r]) THEN NoHistory
                 ELSE IF ~Open(req[r]) THEN Started(req'[r].cred)
                 ELSE Continued(r)]

-----------------------------------------------------------------------------

\* A request for model m reaches the plugin with credential c.
Accept(r, c, m) ==
    /\ ~Open(req[r])
    /\ req' = [req EXCEPT ![r] = Fresh(c, m)]
    /\ UNCHANGED <<cooling, warm, cursor>>
    /\ Observe

(***************************************************************************)
(* nextFallbackModel: read the cached catalog, then look at one id after   *)
(* the other, the catalog's first and the declared ones after them, each   *)
(* under a cdMu section of its own.                                        *)
(***************************************************************************)
\* A regression: no catalog, no fallback.
OnlyCatalogued(c) == IF c \in warm THEN Catalog[c] \o ExtraModels ELSE <<>>

OnOffer(c) == (IF c \in warm THEN Catalog[c] ELSE <<>>) \o ExtraModels

\* A regression: every search starts afresh, the models already asked too.
ScanningAfresh(q, tried) ==
    [q EXCEPT !.step = "scan", !.tried = {},
              !.todo = OnOffer(q.cred), !.pool = <<>>]

Scanning(q, tried) ==
    [q EXCEPT !.step = "scan", !.tried = tried,
              !.todo = OnOffer(q.cred), !.pool = <<>>]

\* Two regressions: the backoff, or the price, is not looked at.
UsableThoughParked(q, offer) ==
    /\ offer.kind \in {"free", "declared"}
    /\ offer.id \notin q.tried

UsableAtAnyPrice(q, offer) ==
    /\ offer.kind \in {"free", "declared", "priced"}
    /\ offer.id \notin q.tried
    /\ ~Parked(q.cred, offer.id)

Usable(q, offer) ==
    /\ offer.kind \in {"free", "declared"}
    /\ offer.id \notin q.tried
    /\ ~Parked(q.cred, offer.id)

Examine(r) ==
    /\ req[r].step = "scan"
    /\ req[r].todo # <<>>
    /\ LET offer == Head(req[r].todo)
       IN  req' = [req EXCEPT
                     ![r].todo = Tail(@),
                     ![r].pool = IF Usable(req[r], offer)
                                 THEN Append(@, offer.id) ELSE @]
    /\ UNCHANGED <<cooling, warm, cursor>>
    /\ Observe

\* pickRotating
Rotated(pool) == pool[(cursor % Len(pool)) + 1]

Pick(r) ==
    /\ req[r].step = "scan"
    /\ req[r].todo = <<>>
    /\ req[r].pool # <<>>
    /\ cursor' = (cursor + 1) % CursorMod
    /\ LET next == Rotated(req[r].pool)
       IN  req' = [req EXCEPT
                     ![r].step = "send",
                     ![r].pool = <<>>,
                     ![r].tried = @ \cup {req[r].model, next},
                     ![r].model = next]
    /\ UNCHANGED <<cooling, warm>>
    /\ Observe

\* No model is left: the client gets the 429 that is on record.
NoneLeft(q) == q.step = "scan" /\ q.todo = <<>> /\ q.pool = <<>>

GiveUp(r) ==
    /\ NoneLeft(req[r])
    /\ req' = [req EXCEPT ![r] = Finished("throttled")]
    /\ UNCHANGED <<cooling, warm, cursor>>
    /\ Observe

-----------------------------------------------------------------------------
(***************************************************************************)
(* sendWithFallback                                                        *)
(***************************************************************************)
CheckRequested(r) ==
    /\ req[r].step = "check"
    /\ req' = [req EXCEPT
                 ![r] = IF Parked(@.cred, @.model)
                        THEN Scanning(@, {@.model})
                        ELSE [@ EXCEPT !.step = "send"]]
    /\ UNCHANGED <<cooling, warm, cursor>>
    /\ Observe

Send(r) ==
    /\ req[r].step = "send"
    /\ req' = [req EXCEPT ![r].step = "wait",
                          ![r].asked = Append(@, req[r].model)]
    /\ UNCHANGED <<cooling, warm, cursor>>
    /\ Observe

\* Two regressions: one attempt too many; the refused model is asked again
\* until it answers.
ThrottledOnceMore(r, refusal) ==
    /\ req[r].step = "wait"
    /\ markCooldown(req[r].cred, req[r].model, refusal)
    /\ req' = [req EXCEPT
                 ![r] = IF Len(@.asked) > FallbackAttempts
                        THEN Finished("throttled")
                        ELSE Scanning(@, @.tried)]
    /\ UNCHANGED <<warm, cursor>>
    /\ Observe

ThrottledWaitingItOut(r, refusal) ==
    /\ req[r].step = "wait"
    /\ markCooldown(req[r].cred, req[r].model, refusal)
    /\ req' = [req EXCEPT ![r].step = "send", ![r].asked = <<>>]
    /\ UNCHANGED <<warm, cursor>>
    /\ Observe

\* A 429 parks the model that was asked; then another one is tried, unless
\* this was the last attempt.
Throttled(r, refusal) ==
    /\ req[r].step = "wait"
    /\ markCooldown(req[r].cred, req[r].model, refusal)
    /\ req' = [req EXCEPT
                 ![r] = IF Len(@.asked) >= FallbackAttempts
                        THEN Finished("throttled")
                        ELSE Scanning(@, @.tried)]
    /\ UNCHANGED <<warm, cursor>>
    /\ Observe

Answered(r) ==
    /\ req[r].step = "wait"
    /\ req' = [req EXCEPT ![r].step = "clear"]
    /\ UNCHANGED <<cooling, warm, cursor>>
    /\ Observe

\* A regression: the model the client named is forgiven.
ForgiveRequested(r) ==
    /\ req[r].step = "clear"
    /\ clearCooldown(req[r].cred, req[r].requested)
    /\ req' = [req EXCEPT ![r] = Finished("served")]
    /\ UNCHANGED <<warm, cursor>>
    /\ Observe

\* The callers forgive the model that answered, not the one requested.
Forgive(r) ==
    /\ req[r].step = "clear"
    /\ clearCooldown(req[r].cred, req[r].model)
    /\ req' = [req EXCEPT ![r] = Finished("served")]
    /\ UNCHANGED <<warm, cursor>>
    /\ Observe

\* Any other status, or no response at all, ends the request as it is.
Errored(r) ==
    /\ req[r].step = "wait"
    /\ req' = [req EXCEPT ![r] = Finished("error")]
    /\ UNCHANGED <<cooling, warm, cursor>>
    /\ Observe

-----------------------------------------------------------------------------
(***************************************************************************)
(* Around the requests: discovery fills the model cache; its TTL empties   *)
(* it, and so does a rebuild for a moment, which stores the new list       *)
(* before its catalog; and time passes.                                    *)
(***************************************************************************)
Discover(c) ==
    /\ warm' = warm \cup {c}
    /\ UNCHANGED <<cooling, cursor, req>>
    /\ Observe

Expire(c) ==
    /\ warm' = warm \ {c}
    /\ UNCHANGED <<cooling, cursor, req>>
    /\ Observe

Tick ==
    /\ Elapse
    /\ UNCHANGED <<warm, cursor, req>>
    /\ Observe

Work(r) ==
    \/ CheckRequested(r)
    \/ Examine(r)
    \/ Pick(r)
    \/ GiveUp(r)
    \/ Send(r)
    \/ \E refusal \in Refusals : Throttled(r, refusal)
    \/ Answered(r)
    \/ Forgive(r)
    \/ Errored(r)

Next ==
    \/ \E r \in Reqs, c \in Creds, m \in Models : Accept(r, c, m)
    \/ \E r \in Reqs : Work(r)
    \/ \E c \in Creds : Discover(c)
    \/ \E c \in Creds : Expire(c)
    \/ Tick

Spec == Init /\ [][Next]_vars

(***************************************************************************)
(* A goroutine that can go on does, and sharedHTTPClient has a timeout, so *)
(* every call comes back; nothing obliges clients, discovery or the clock. *)
(***************************************************************************)
FairSpec == Spec /\ \A r \in Reqs : WF_vars(Work(r))

-----------------------------------------------------------------------------
(***************************************************************************)
(* Properties                                                              *)
(***************************************************************************)

\* A client's request costs at most FallbackAttempts calls, and asks no model
\* twice -- but for the first: `tried` does not hold it yet when its
\* successor is looked for, so a success elsewhere can offer it again.
AsksFewAndDistinct ==
    \A r \in Reqs :
        LET asked == req[r].asked
        IN  /\ Len(asked) <= FallbackAttempts
            /\ \A i, j \in DOMAIN asked :
                  i < j /\ asked[i] = asked[j] => i = 1 /\ j = 2

\* No call goes to a model that was cooling on this credential ever since the
\* request came in: each candidate was seen free once, whatever the other
\* requests mark or clear meanwhile.
NeverAsksParked ==
    \A r \in Watched :
        req[r].step \in {"send", "wait"} => req[r].model \notin since[r].parked

\* What credential c may fall back to: a free model of its catalog, if that
\* is at hand, or a declared one.
Candidates(c, catalogued) ==
    {o.id : o \in Range(ExtraModels)} \cup
    {o.id : o \in {p \in Range(Catalog[c]) : p.kind = "free" /\ catalogued}}

\* No false alarm: a request is turned away before its attempts are used up
\* only if no candidate was free to be asked for as long as it lasted.
TurnedAwayForAReason ==
    \A r \in Watched :
        NoneLeft(req[r]) =>
            since[r].idle \cap Candidates(req[r].cred, since[r].warm) = {}

\* A model the client did not name is asked only if it is a candidate: the
\* internal, aliased, unpriced and priced ids of the catalog are not.
SparesAreCandidates ==
    \A r \in Reqs : \A i \in DOMAIN req[r].asked :
        \/ req[r].asked[i] = req[r].requested
        \/ req[r].asked[i] \in Candidates(req[r].cred, TRUE)

\* The comment of nextFallbackModel (fallback.go:128-131): models the catalog
\* actually prices are never chosen; a fallback never starts billing.
NeverStartsBilling ==
    \A r \in Reqs : \A i \in DOMAIN req[r].asked :
        req[r].asked[i] # req[r].requested =>
            ~\E o \in Range(Catalog[req[r].cred]) :
                o.id = req[r].asked[i] /\ o.kind = "priced"

\* Backoff is per model and follows upstream's word: an entry grows, or goes
\* away, only in a step of a request on that credential whose call for that
\* very model was just answered.
BackoffFollowsUpstream ==
    [][\A c \in Creds, m \in Models :
          \/ cooling'[<<c, m>>].left > cooling[<<c, m>>].left
          \/ cooling'[<<c, m>>].failures < cooling[<<c, m>>].failures
          => \E r \in Reqs :
                /\ req[r].step \in {"wait", "clear"} /\ req'[r] # req[r]
                /\ req[r].cred = c /\ req[r].asked[Len(req[r].asked)] = m]_vars

\* Every request is answered, whatever the others and the clock do.
EveryRequestEnds ==
    \A r \in Reqs : Open(req[r]) ~> ~Open(req[r])

\* The request path implements its contract.
Contract == INSTANCE RequestContract WITH
    phase   <- [r \in Reqs |-> IF Open(req[r]) THEN "open"
                               ELSE IF req[r].step = "done" THEN "over"
                               ELSE "idle"],
    asked   <- [r \in Reqs |-> req[r].asked],
    outcome <- [r \in Reqs |-> req[r].outcome]

ImplementsContract == Contract!Spec
=============================================================================
