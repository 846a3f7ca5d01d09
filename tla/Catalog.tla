------------------------------- MODULE Catalog -------------------------------
(***************************************************************************)
(* The catalog algorithms of models.go: from the payloads of upstream's    *)
(* endpoints to the list a credential may advertise, and to the catalog    *)
(* the request path takes its fallbacks from.  They hold no state.         *)
(***************************************************************************)
EXTENDS Integers, Sequences, FiniteSets, Functions, SequencesExt, Sifting

CONSTANTS
    Ids,              \* model ids, trimmed
    NoId,             \* a blank id
    ServiceIds,       \* completion-*, nes-*, enhance-*
    AliasIds,         \* routingAliasIDs
    Measured,         \* measuredModels: some ids to entries
    Nodes,            \* the JSON values upstream may serve, and what is in them
    DefaultContext,   \* defaultContextLength
    DefaultOutput     \* defaultMaxCompletion

(***************************************************************************)
(* upstreamModel.  A price is x0.00, another multiplier, or none (blank or *)
(* not a number); `window` holds the selectable context window, if there   *)
(* is one; 0 stands for a missing limit; `named` says that Name is more    *)
(* than the id.                                                            *)
(***************************************************************************)
Window == [default : Nat, lengths : SUBSET Nat]
Model == [id : Ids \cup {NoId}, named : BOOLEAN, input : Nat, output : Nat,
          window : {w \in SUBSET Window : Cardinality(w) <= 1},
          price : {"free", "billed", "none"}, isDefault : BOOLEAN]

Bare(id) == [id |-> id, named |-> FALSE, input |-> 0, output |-> 0,
             window |-> {}, price |-> "none", isDefault |-> FALSE]

ASSUME CatalogAssumption ==
    /\ NoId \notin Ids
    /\ DOMAIN Measured \subseteq Ids
    /\ \A id \in DOMAIN Measured : Measured[id] \in Model /\ Measured[id].id = id
    /\ DefaultContext \in Nat \ {0} /\ DefaultOutput \in Nat \ {0}

isRoutingAlias(m) == m.isDefault \/ m.id \in AliasIds

Servable(m) == m.id # NoId /\ m.id \notin ServiceIds /\ ~isRoutingAlias(m)

IdsOf(list) == {m.id : m \in Range(list)}

\* The entry a Go map keyed by id ends up with: the last one of the list.
Entry(list, id) == SelectLastInSeq(list, LAMBDA m : m.id = id)

-----------------------------------------------------------------------------
(***************************************************************************)
(* Decoding.  A payload is an array of entries, an object with one of the  *)
(* wrapper keys, an object that maps ids to specs, or something else; of   *)
(* a spec, `fields` are the known model fields it carries.                 *)
(***************************************************************************)
IsNode(node) ==
    /\ node.kind = "array" => node.items \in Seq(Model)
    /\ node.kind = "object" =>
          /\ \A k \in DOMAIN node.wraps : node.wraps[k] \in Nodes
          /\ IsFiniteSet(DOMAIN node.specs) /\ DOMAIN node.specs \subseteq Ids
          /\ \A k \in DOMAIN node.specs : node.specs[k].model \in Model

ASSUME NodesAssumption == \A node \in Nodes : IsNode(node)

WrapperKeys == <<"models", "list", "data", "items">>

\* A regression: any object is taken for a spec.
AnyObject(spec) == TRUE

looksLikeModelSpec(spec) == spec.fields # {}

\* {id: spec}: the key stands in for a missing id.  The code sorts by id, so
\* that a map gives the same list every time; ids have no order here, and any
\* order that is the same every time stands for it.
SpecList(specs) ==
    LET keys == SetToSeq({k \in DOMAIN specs : looksLikeModelSpec(specs[k])})
        Named(k) == IF specs[k].model.id = NoId
                    THEN [specs[k].model EXCEPT !.id = k] ELSE specs[k].model
    IN  [i \in DOMAIN keys |-> Named(keys[i])]

DecodeNode(node, Nested(_)) ==
    LET at == SelectInSeq(WrapperKeys,
                  LAMBDA k : k \in DOMAIN node.wraps /\ Nested(node.wraps[k]) # <<>>)
    IN  CASE node.kind = "array" ->
               Sift(node.items, {m \in Range(node.items) : m.id # NoId})
          [] node.kind = "object" /\ at # 0 -> Nested(node.wraps[WrapperKeys[at]])
          [] node.kind = "object" /\ DOMAIN node.wraps = {} -> SpecList(node.specs)
          [] OTHER -> <<>>

\* Wrappers are opened down to depth 3.
TooDeep(node) == <<>>
Depth3(node) == DecodeNode(node, TooDeep)
Depth2(node) == DecodeNode(node, Depth3)
Depth1(node) == DecodeNode(node, Depth2)
decodeModelList(node) == DecodeNode(node, Depth1)

\* `models` is looked into first, on its own.
extractModels(node) ==
    LET inner == IF node.kind = "object" /\ "models" \in DOMAIN node.wraps
                 THEN decodeModelList(node.wraps["models"]) ELSE <<>>
    IN  IF inner # <<>> THEN inner ELSE decodeModelList(node)

-----------------------------------------------------------------------------
(***************************************************************************)
(* Merging                                                                 *)
(***************************************************************************)
modelScore(m) ==
    LET Points(b, n) == IF b THEN n ELSE 0
    IN  Points(m.window # {}, 8) + Points(m.input > 0, 4)
        + Points(m.output > 0, 2) + Points(m.named, 1)

richerModel(candidate, current) == modelScore(candidate) > modelScore(current)

FirstOf(list, id) == SelectInSeq(list, LAMBDA m : m.id = id)

Merge(list, m) ==
    LET at == FirstOf(list, m.id)
    IN  IF m.id = NoId THEN list
        ELSE IF at = 0 THEN Append(list, m)
        ELSE IF richerModel(m, list[at]) THEN [list EXCEPT ![at] = m]
        ELSE list

\* Each id once, where it first appears, by its richest entry.
mergeCatalogs(console, v3) == FoldLeft(Merge, <<>>, console \o v3)

-----------------------------------------------------------------------------
(***************************************************************************)
(* Supplements: ids the payloads mention in banners, promotions and tiers. *)
(* A mention is an id and the id its banner leads to, or NoId.             *)
(***************************************************************************)
Mention == [id : Ids \cup {NoId}, target : Ids \cup {NoId}]

AddMention(ids, x) ==
    IF x.id = NoId \/ x.id \in Range(ids) THEN ids ELSE Append(ids, x.id)

extractSupplementIDs(mentions) == FoldLeft(AddMention, <<>>, mentions)

\* The last target given for an id stands.
Target(mentions, id) ==
    LET at == SelectLastInSeq(mentions, LAMBDA x : x.id = id /\ x.target # NoId)
    IN  IF at = 0 THEN NoId ELSE mentions[at].target

\* A regression: a trial is priced like the model its banner leads to.
LikeItsTarget(m, id) == [m EXCEPT !.id = id]

\* What it is named decides nothing any more: no catalog lists the id.
FromTarget(m, id) == [m EXCEPT !.id = id, !.price = "none"]

\* The other realm's entry, what was measured, the banner's target, nothing.
Describe(id, target, primary, cross) ==
    IF id \in IdsOf(cross) THEN cross[Entry(cross, id)]
    ELSE IF id \in DOMAIN Measured THEN Measured[id]
    ELSE IF target \in IdsOf(primary) THEN FromTarget(primary[Entry(primary, target)], id)
    ELSE Bare(id)

buildSupplements(mentions, primary, cross) ==
    LET ids == Sift(extractSupplementIDs(mentions),
                    {id \in Ids : id \notin IdsOf(primary) /\ Servable(Bare(id))})
    IN  [i \in DOMAIN ids |->
            Describe(ids[i], Target(mentions, ids[i]), primary, cross)]

-----------------------------------------------------------------------------
(***************************************************************************)
(* What is advertised of a model.                                          *)
(***************************************************************************)
\* A regression: a budget above the hard limit can be selected.
AnyLength(lengths, input) == {n \in lengths : n > 0}

normalizeContextLengths(lengths, input) ==
    {n \in lengths : n > 0 /\ (input > 0 => n <= input)}

effectiveContextLength(m) ==
    LET w == CHOOSE w \in m.window : TRUE
        supported == normalizeContextLengths(w.lengths, m.input)
    IN  IF m.window = {} \/ Cardinality(supported) < 2 THEN m.input
        ELSE IF w.default > 0 /\ w.default \in supported THEN w.default
        ELSE Min(supported)

\* A regression: limits upstream did not give are advertised as they are.
InfoAsListed(m) ==
    [id |-> m.id, context |-> effectiveContextLength(m), output |-> m.output]

OrDefault(n, default) == IF n > 0 THEN n ELSE default

Info(m) ==
    [id      |-> m.id,
     context |-> OrDefault(effectiveContextLength(m), DefaultContext),
     output  |-> OrDefault(m.output, DefaultOutput)]

toModelInfos(models) ==
    LET servable == Sift(models, {m \in Range(models) : Servable(m)})
    IN  [i \in DOMAIN servable |-> Info(servable[i])]

AddUnlisted(listed, list, m) ==
    IF m.id \in listed \cup IdsOf(list) \/ ~Servable(m) THEN list ELSE Append(list, m)

\* The first entry of each id that is not listed yet.
Unlisted(models, infos) ==
    FoldLeft(LAMBDA list, m : AddUnlisted(IdsOf(infos), list, m), <<>>, models)

appendSupplements(infos, supplements) ==
    infos \o toModelInfos(Unlisted(supplements, infos))

-----------------------------------------------------------------------------
(***************************************************************************)
(* Policy and configuration                                                *)
(***************************************************************************)
\* applyPublishPolicy under publish_mode "allow".
OnlyAllowed(remote, allow, extra) ==
    Sift(remote, {m \in Range(remote) : m.id \in allow \cup IdsOf(extra)})

\* Fields the operator left empty come from the catalog; not the price.
fillFromCatalog(entry, live) ==
    [entry EXCEPT
        !.named  = @ \/ live.named,
        !.window = IF @ = {} THEN live.window ELSE @,
        !.input  = IF @ > 0 THEN @ ELSE live.input,
        !.output = IF @ > 0 THEN @ ELSE live.output]

\* A regression: what is listed already is not looked at.
AppendAllExtra(infos, full, extra) == infos \o toModelInfos(extra)

Filled(full, m) ==
    IF m.id \in IdsOf(full) THEN fillFromCatalog(m, full[Entry(full, m.id)])
    ELSE IF m.id \in DOMAIN Measured THEN fillFromCatalog(m, Measured[m.id])
    ELSE m

appendExtraModels(infos, full, extra) ==
    LET pending == Unlisted(extra, infos)
    IN  infos \o toModelInfos([i \in DOMAIN pending |-> Filled(full, pending[i])])
=============================================================================
