------------------------------ MODULE Discovery ------------------------------
(***************************************************************************)
(* Model discovery and its cache (models.go), under a configuration that   *)
(* the host may replace at any time (main.go).                             *)
(*                                                                         *)
(* The host asks model.for_auth of a credential from many threads.  A call *)
(* looks the list up in the cache; on a miss it fetches upstream's         *)
(* catalogs, assembles the list, and stores list and catalog, in that      *)
(* order.  Every action below is one critical section of the cache's lock  *)
(* or of cfgMu, or the exchange with upstream; calls interleave between    *)
(* them, and so do changes of the configuration.                           *)
(***************************************************************************)
EXTENDS Catalog

CONSTANTS
    Keys,          \* cache keys, one per realm and account
    Pollers,       \* threads of the host
    Answers,       \* per poller: what upstream may answer its fetches with
    Configs,       \* configurations; the first one is in force at the start
    CacheTTL,      \* modelCacheTTL, in ticks
    MaxReconfigs   \* bound: changes of the configuration

(***************************************************************************)
(* A payload is a JSON body and the ids its banners mention; an answer is  *)
(* one payload per endpoint.  A fetch that fails yields NoPayload.         *)
(***************************************************************************)
Nothing == [kind |-> "null"]
NoPayload == [body |-> Nothing, mentions |-> <<>>]

\* pluginConfig: region aside, all of it is about what is published.
Config == [prefix : BOOLEAN, mode : {"catalog", "allow"},
           allow : SUBSET Ids, extra : Seq(Model)]

IsPayload(payload) == payload.body \in Nodes /\ payload.mentions \in Seq(Mention)

ASSUME DiscoveryAssumption ==
    /\ Keys # {}
    /\ \A p \in Pollers : \A answer \in Answers[p] :
          /\ IsPayload(answer.console) /\ IsPayload(answer.v3)
          /\ IsPayload(answer.cross)
    /\ Configs \in Seq(Config) /\ Configs # <<>>
    /\ CacheTTL \in Nat \ {0}
    /\ MaxReconfigs \in Nat

VARIABLES
    config,      \* which of Configs is in force
    reconfigs,   \* how often it was replaced
    cache,       \* modelCache.entries
    poll,        \* the local state of modelsForAuth of each poller
    since        \* history: was the configuration left alone since a call came
                 \* in; since its list, or a cached one, began to be assembled?

vars == <<config, reconfigs, cache, poll, since>>

-----------------------------------------------------------------------------

Listing == [id : Ids, context : Nat \ {0}, output : Nat \ {0}]

CacheEntry == [left : 0..CacheTTL, listed : BOOLEAN, models : Seq(Listing),
               forces : BOOLEAN, known : BOOLEAN, remote : Seq(Model)]

(***************************************************************************)
(* modelCacheEntry.  `left` is what is left of its TTL (0: none, expired); *)
(* `listed` and `known` tell whether `models` and `remote` are set.        *)
(***************************************************************************)
NoEntry == [left |-> 0, listed |-> FALSE, models |-> <<>>, forces |-> FALSE,
            known |-> FALSE, remote |-> <<>>]

\* Where a call is; each step but the first is named for what comes next.
Steps == {"off", "lookup", "fetch", "mode", "policy", "keep", "prefix",
          "extra", "store", "remember", "answer"}

(***************************************************************************)
(* Its locals: the host's force-model-prefix flag; what was fetched; the   *)
(* publish mode as it was read first, and the allowed ids as they were     *)
(* read next; the primary entries to publish; the list.                    *)
(***************************************************************************)
Off == [step |-> "off", key |-> CHOOSE k \in Keys : TRUE, forces |-> FALSE,
        primary |-> <<>>, supplements |-> <<>>, mode |-> "catalog",
        allow |-> {}, published |-> <<>>, models |-> <<>>]

Poll == [step : Steps, key : Keys, forces : BOOLEAN,
         primary : Seq(Model), supplements : Seq(Model),
         mode : {"catalog", "allow"}, allow : SUBSET Ids,
         published : Seq(Model), models : Seq(Listing)]

TypeOK ==
    /\ config \in DOMAIN Configs
    /\ reconfigs \in 0..MaxReconfigs
    /\ cache \in [Keys -> CacheEntry]
    /\ poll \in [Pollers -> Poll]
    /\ since \in [calls : [Pollers -> BOOLEAN], polls : [Pollers -> BOOLEAN],
                 cache : [Keys -> BOOLEAN]]

Init ==
    /\ config = 1
    /\ reconfigs = 0
    /\ cache = [k \in Keys |-> NoEntry]
    /\ poll = [p \in Pollers |-> Off]
    /\ since = [calls |-> [p \in Pollers |-> TRUE], polls |-> [p \in Pollers |-> TRUE],
                cache |-> [k \in Keys |-> TRUE]]

Cfg == Configs[config]

-----------------------------------------------------------------------------
(***************************************************************************)
(* modelsForAuth and discoverModels                                        *)
(***************************************************************************)
StartPoll(p, k, forces) ==
    /\ poll[p].step = "off"
    /\ poll' = [poll EXCEPT ![p] = [Off EXCEPT !.step = "lookup", !.key = k,
                                               !.forces = forces]]
    /\ since' = [since EXCEPT !.calls[p] = TRUE]
    /\ UNCHANGED <<config, reconfigs, cache>>

\* A regression: a list that was made for another host flag is served.
HitForAnyFlag(entry, forces) == entry.left > 0 /\ entry.listed

Hit(entry, forces) ==
    /\ entry.left > 0
    /\ entry.listed
    /\ entry.forces = forces

\* A regression: a hit renews the entry.
LookupRenewing(p) ==
    LET entry == cache[poll[p].key]
    IN  /\ poll[p].step = "lookup"
        /\ IF Hit(entry, poll[p].forces)
           THEN /\ poll' = [poll EXCEPT ![p].step = "answer", ![p].models = entry.models]
                /\ since' = [since EXCEPT !.polls[p] = since.cache[poll[p].key]]
                /\ cache' = [cache EXCEPT ![poll[p].key].left = CacheTTL]
           ELSE /\ poll' = [poll EXCEPT ![p].step = "fetch"]
                /\ UNCHANGED <<since, cache>>
        /\ UNCHANGED <<config, reconfigs>>

\* modelCacheLookup
Lookup(p) ==
    LET entry == cache[poll[p].key]
    IN  /\ poll[p].step = "lookup"
        /\ IF Hit(entry, poll[p].forces)
           THEN /\ poll' = [poll EXCEPT ![p].step = "answer", ![p].models = entry.models]
                /\ since' = [since EXCEPT !.polls[p] = since.cache[poll[p].key]]
           ELSE /\ poll' = [poll EXCEPT ![p].step = "fetch"]
                /\ UNCHANGED since
        /\ UNCHANGED <<config, reconfigs, cache>>

\* A regression: the other realm's models are merged in as well.
PrimaryOfBothRealms(answer) ==
    mergeCatalogs(mergeCatalogs(extractModels(answer.console.body),
                                extractModels(answer.v3.body)),
                  extractModels(answer.cross.body))

Primary(answer) ==
    mergeCatalogs(extractModels(answer.console.body), extractModels(answer.v3.body))

Supplements(answer) ==
    buildSupplements(
        answer.v3.mentions \o answer.console.mentions \o answer.cross.mentions,
        Primary(answer), extractModels(answer.cross.body))

\* fetchRemoteModels: anything usable will do ...
Fetch(p, answer) ==
    /\ poll[p].step = "fetch"
    /\ Primary(answer) # <<>> \/ Supplements(answer) # <<>>
    /\ poll' = [poll EXCEPT ![p].step = "mode",
                            ![p].primary = Primary(answer),
                            ![p].supplements = Supplements(answer)]
    /\ since' = [since EXCEPT !.polls[p] = TRUE]
    /\ UNCHANGED <<config, reconfigs, cache>>

\* ... without it nothing is advertised, and nothing is cached.
FetchFails(p, answer) ==
    /\ poll[p].step = "fetch"
    /\ Primary(answer) = <<>> /\ Supplements(answer) = <<>>
    /\ poll' = [poll EXCEPT ![p] = Off]
    /\ since' = [since EXCEPT !.polls[p] = TRUE, !.calls[p] = TRUE]
    /\ UNCHANGED <<config, reconfigs, cache>>

-----------------------------------------------------------------------------
(***************************************************************************)
(* assembleModels: the mode is read, and read once more by                 *)
(* applyPublishPolicy; then the prefix; then the declared models.          *)
(***************************************************************************)
Assemble(p, now) ==
    /\ poll' = [poll EXCEPT ![p] = now]
    /\ UNCHANGED <<config, reconfigs, cache, since>>

ReadMode(p) ==
    /\ poll[p].step = "mode"
    /\ Assemble(p, [poll[p] EXCEPT !.step = "policy", !.mode = Cfg.mode])

\* applyPublishPolicy, up to its own reading of the mode.
ReadPolicy(p) ==
    /\ poll[p].step = "policy"
    /\ Assemble(p, IF Cfg.mode = "allow"
                   THEN [poll[p] EXCEPT !.step = "keep", !.allow = Cfg.allow]
                   ELSE [poll[p] EXCEPT !.step = "prefix",
                                        !.published = poll[p].primary])

KeepAllowed(p) ==
    /\ poll[p].step = "keep"
    /\ Assemble(p, [poll[p] EXCEPT
                       !.step = "prefix",
                       !.published = OnlyAllowed(poll[p].primary, poll[p].allow, Cfg.extra)])

\* A regression: the namespace alone is thought to keep bare ids in.
NeverWithheld(q, prefix) == FALSE

Withheld(q, prefix) == q.mode # "allow" /\ prefix /\ ~q.forces

\* The primary catalog is withheld or not; the supplements follow.
ReadPrefix(p) ==
    LET q == poll[p]
        published == IF Withheld(q, Cfg.prefix) THEN <<>> ELSE q.published
    IN  /\ q.step = "prefix"
        /\ Assemble(p, [q EXCEPT
                           !.step = "extra",
                           !.models = appendSupplements(toModelInfos(published),
                                                        q.supplements)])

\* A regression: the fallbacks are taken from what is published.
WhatIsPublished(q) == mergeCatalogs(q.published, q.supplements)

\* All of what the account can be served, whatever is published of it.
Full(q) == mergeCatalogs(q.primary, q.supplements)

AppendDeclared(p) ==
    LET q == poll[p]
    IN  /\ q.step = "extra"
        /\ Assemble(p, [q EXCEPT !.step = "store",
                                 !.models = appendExtraModels(@, Full(q), Cfg.extra)])

-----------------------------------------------------------------------------
(***************************************************************************)
(* modelCacheStore replaces the entry; modelCacheRememberRemote, a section *)
(* later, adds the catalog to whatever entry is there by then.             *)
(***************************************************************************)
Store(p) ==
    LET q == poll[p]
    IN  /\ q.step = "store"
        /\ cache' = [cache EXCEPT ![q.key] =
                        [NoEntry EXCEPT !.left = CacheTTL, !.listed = TRUE,
                                        !.models = q.models, !.forces = q.forces]]
        /\ poll' = [poll EXCEPT ![p].step = "remember"]
        /\ since' = [since EXCEPT !.cache[q.key] = since.polls[p]]
        /\ UNCHANGED <<config, reconfigs>>

\* A regression: whoever finds a fresh entry leaves it alone.
RememberOnce(entry, full) ==
    IF entry.left > 0 THEN entry
    ELSE [NoEntry EXCEPT !.left = CacheTTL, !.known = TRUE, !.remote = full]

Remembering(entry, full) ==
    [(IF entry.left > 0 THEN entry ELSE [NoEntry EXCEPT !.left = CacheTTL])
        EXCEPT !.known = TRUE, !.remote = full]

RememberRemote(p) ==
    LET q == poll[p]
    IN  /\ q.step = "remember"
        /\ cache' = [cache EXCEPT ![q.key] = Remembering(@, Full(q))]
        /\ poll' = [poll EXCEPT ![p] = [Off EXCEPT !.step = "answer", !.key = q.key,
                                                   !.forces = q.forces, !.models = q.models]]
        /\ UNCHANGED <<config, reconfigs, since>>

\* The host gets the list, less what is throttled (see Advertise).
Answer(p) ==
    /\ poll[p].step = "answer"
    /\ poll' = [poll EXCEPT ![p] = Off]
    /\ since' = [since EXCEPT !.polls[p] = TRUE, !.calls[p] = TRUE]
    /\ UNCHANGED <<config, reconfigs, cache>>

-----------------------------------------------------------------------------
\* applyConfigYAML, on plugin.reconfigure.  The cache is left alone.
Reconfigure(n) ==
    /\ reconfigs < MaxReconfigs
    /\ n # config
    /\ config' = n
    /\ reconfigs' = reconfigs + 1
    /\ since' = [calls |-> [p \in Pollers |-> FALSE], polls |-> [p \in Pollers |-> FALSE],
                 cache |-> [k \in Keys |-> FALSE]]
    /\ UNCHANGED <<cache, poll>>

Tick ==
    /\ cache' = [k \in Keys |->
                    IF cache[k].left > 1 THEN [cache[k] EXCEPT !.left = @ - 1] ELSE NoEntry]
    /\ UNCHANGED <<config, reconfigs, poll, since>>

\* A call that came in goes on.
PollStep(p) ==
    \/ Lookup(p)
    \/ \E answer \in Answers[p] : Fetch(p, answer) \/ FetchFails(p, answer)
    \/ ReadMode(p)
    \/ ReadPolicy(p)
    \/ KeepAllowed(p)
    \/ ReadPrefix(p)
    \/ AppendDeclared(p)
    \/ Store(p)
    \/ RememberRemote(p)
    \/ Answer(p)

Next ==
    \/ \E p \in Pollers, k \in Keys, forces \in BOOLEAN : StartPoll(p, k, forces)
    \/ \E p \in Pollers : PollStep(p)
    \/ \E n \in DOMAIN Configs : Reconfigure(n)
    \/ Tick

Spec == Init /\ [][Next]_vars

\* Fetches have a timeout and nothing else waits, so that every call returns;
\* and time passes.
FairSpec == Spec /\ WF_vars(Tick) /\ \A p \in Pollers : []<>(poll[p].step = "off")

-----------------------------------------------------------------------------
(***************************************************************************)
(* Properties                                                              *)
(***************************************************************************)

\* What a configuration lets a credential advertise, as the comments of
\* assembleModels and applyPublishPolicy put it: the primary catalog -- all of
\* it, what is allowed of it, or none where bare ids would leak -- and always
\* the supplements and the declared models.
Advertisable(q, cfg) ==
    LET declared == Range(cfg.extra)
        primary == {m \in Range(q.primary) :
                       IF cfg.mode = "allow" THEN m.id \in cfg.allow \cup IdsOf(cfg.extra)
                       ELSE cfg.prefix => q.forces}
    IN  {m.id : m \in {x \in primary \cup Range(q.supplements) \cup declared : Servable(x)}}

\* A list assembled while the configuration stood still is what that
\* configuration lets the credential advertise, each id once, however many
\* sources name it.
ListFollowsPolicy ==
    \A p \in Pollers :
        poll[p].step = "store" /\ since.polls[p] =>
            /\ IdsOf(poll[p].models) = Advertisable(poll[p], Cfg)
            /\ IsInjective([i \in DOMAIN poll[p].models |-> poll[p].models[i].id])

LimitsOf(models, id) == {m.input : m \in {x \in models : x.id = id}}

\* A client that trusts the advertised window does not overrun the hard limit:
\* it is never above every limit known for the id, be it the operator's, the
\* catalogs', or the measured one where no catalog has the id -- unless what it
\* was listed from, and what that was filled from, gave none.
LimitsHold ==
    \A p \in Pollers :
        poll[p].step = "store" /\ since.polls[p] =>
            \A info \in Range(poll[p].models) :
                LET declared == LimitsOf(Range(Cfg.extra), info.id)
                    live == LimitsOf(Range(Full(poll[p])), info.id)
                    known == IF live # {} THEN live
                             ELSE LimitsOf(Range(Measured), info.id)
                IN  \/ \E n \in (declared \cup known) \ {0} : info.context <= n
                    \/ known \subseteq {0} /\ (live # {} \/ 0 \in declared)

\* The ids that banners, promotions and tiers mention in any of the three
\* payloads of an answer: fetchRemoteModels reads the other realm's, too
\* (models.go:231).
MentionedBy(a) == {x.id : x \in Range(a.v3.mentions \o a.console.mentions \o a.cross.mentions)}

Mentioned == UNION {MentionedBy(a) : a \in UNION {Answers[p] : p \in Pollers}}

\* No bare id of the primary catalog goes out where the host would publish it.
NamespaceKept(p) ==
    /\ poll[p].step = "answer" /\ ~poll[p].forces
    /\ Cfg.prefix /\ Cfg.mode # "allow"
    => IdsOf(poll[p].models) \subseteq IdsOf(Cfg.extra) \cup Mentioned

\* The host's flag is looked at for every answer, the cached ones too: while
\* the configuration stands still, no answer leaks a bare id.
FlagRespected == \A p \in Pollers : since.polls[p] => NamespaceKept(p)

\* The comment of assembleModels (models.go:572-576): a namespaced instance
\* withholds the whole primary catalog when the host does not force prefixes;
\* here, to a call all of which falls under one configuration.
NamespaceWithholds == \A p \in Pollers : since.calls[p] => NamespaceKept(p)

\* What slips out after a change of the configuration goes away with the TTL.
NamespaceRestored == <>[](\A p \in Pollers : NamespaceKept(p))

\* Nothing bills by a guess: a model of the fallback pool counts as free only
\* if a live catalog of either realm, or a measurement, prices that very id.
NoFreeGuess ==
    \A k \in Keys : \A m \in Range(cache[k].remote) :
        m.price = "free" =>
            \/ m.id \in DOMAIN Measured /\ Measured[m.id].price = "free"
            \/ \E p \in Pollers : \E a \in Answers[p] :
                  \E body \in {a.console.body, a.v3.body, a.cross.body} :
                     \E x \in Range(extractModels(body)) : x.id = m.id /\ x.price = "free"

\* The fallback pool of a realm is exactly what one answer of upstream lists in
\* this realm's two catalogs and mentions in any payload, whatever is published
\* of it.  So what the other realm's banners mention gets in, which the comments
\* say never happens: cross-realm metadata "only ever supplies metadata" and is
\* "never new publishable ids on its own" (models.go:226-229), and supplements
\* are "always this realm's own trial entries" (models.go:204-205).
PoolIsWhole ==
    \A k \in Keys : cache[k].known =>
        \E p \in Pollers : \E a \in Answers[p] :
            IdsOf(cache[k].remote) =
                IdsOf(extractModels(a.console.body)) \cup IdsOf(extractModels(a.v3.body))
                    \cup {id \in MentionedBy(a) \cap Ids : Servable(Bare(id))}

\* Concurrent discoveries store and remember in any order, and entries expire
\* in between; once they are through, a cached list has a catalog to fall
\* back to.
ListHasCatalog ==
    \A k \in Keys :
        cache[k].listed /\ ~cache[k].known =>
            \E p \in Pollers : poll[p].step = "remember" /\ poll[p].key = k

(***************************************************************************)
(* What upstream spells out for this realm: the entries of the arrays and  *)
(* the model specs found in the answers of its own two catalogs, up to     *)
(* four wrappers deep.  The third catalog is the other realm's.            *)
(***************************************************************************)
Inside(nodes) ==
    nodes \cup UNION {Range(node.wraps) : node \in {x \in nodes : x.kind = "object"}}

Spelled(node) ==
    {id \in Ids :
        \/ node.kind = "array" /\ \E m \in Range(node.items) : m.id = id
        \/ /\ node.kind = "object"
           /\ \E k \in DOMAIN node.specs :
                 /\ node.specs[k].fields # {}
                 /\ id = IF node.specs[k].model.id = NoId THEN k
                         ELSE node.specs[k].model.id}

OwnBodies == UNION {{a.console.body, a.v3.body} : a \in UNION {Answers[p] : p \in Pollers}}

OwnIds == UNION {Spelled(node) : node \in Inside(Inside(Inside(Inside(OwnBodies))))}

Declared == UNION {IdsOf(Configs[n].extra) : n \in DOMAIN Configs}

\* However calls, changes of the configuration and the cache interleave, a
\* model that the other realm only lists, and a sibling section of a payload
\* that is no model, are neither advertised nor fallen back to: each id is spelled
\* out by this realm or mentioned -- by either realm, see PoolIsWhole -- and what
\* is advertised may also be declared by the operator.
OnlyListedOrMentioned ==
    /\ \A k \in Keys :
          /\ IdsOf(cache[k].remote) \subseteq OwnIds \cup Mentioned
          /\ IdsOf(cache[k].models) \subseteq OwnIds \cup Mentioned \cup Declared
    /\ \A p \in Pollers :
          poll[p].step = "answer" =>
             IdsOf(poll[p].models) \subseteq OwnIds \cup Mentioned \cup Declared
=============================================================================
