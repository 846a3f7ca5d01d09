# Verification of the CodeBuddy plugin for CLIProxyAPI

TLA+ models of this repository's plugin, checked with TLC, and theorems about
them, checked with TLAPS. Line numbers refer to the files under `src/`.

## The system

The plugin is a Go shared library the CLIProxyAPI host loads, one build per
realm (CN, Global). The host calls it through a C ABI from many threads, always
with one stored credential; the plugin keeps its state in package variables,
each behind a mutex of its own. Upstream (CodeBuddy) throttles per credential
and model. A Python receiver deploys new builds on the hosts.

| Part | State | Operations | What makes it correct |
|---|---|---|---|
| Cooldown table, `cooldown.go` | `cooling`: per (credential, model) wait, failures, exhausted flag; `lastSeen` | `markCooldown`, `clearCooldown`, `cooldownRemaining`, `suppressModel`, `noteIdentity` | a 429 parks one model on one credential, for a bounded time; a success forgives that model only |
| Request path, `fallback.go`, `main.go:1190-1353` | per request: tried models, attempt; shared: `fallbackCursor` | `sendWithFallback`, `nextFallbackModel`, `pickRotating` | few calls, no parked model asked, nothing that bills chosen, no false refusal, every request ends |
| Advertising, `models.go:923-1008` | the host's registry (external) | `modelsForAuth`, `withoutThrottledModels` | only throttled models hidden, only if somebody else can serve them or the credits are gone; they come back |
| Model cache, `models.go:812-917` | per account: advertised list, remote catalog, prefix flag, expiry | `modelCacheLookup`, `modelCacheStore`, `modelCacheRememberRemote`, `cachedCatalog` | a list is served only under the configuration it was built for |
| Catalog, `models.go` | none | `mergeCatalogs`, `buildSupplements`, `assembleModels`, `applyPublishPolicy`, `appendExtraModels`, `effectiveContextLength` | each id once, no bare id under a prefix, limits never above what the account has |
| Streams, `main.go:1270-1534`, `1720-1805` | per stream: what was seen | `pumpUpstreamStream`, `aggregateSSE`, `aggregateCompletion`, `trailingChunk` | a stream is closed once, nothing after it; nothing upstream said gets lost or is made up |
| Request rewriting, `main.go:1540-1720` | none | `forceStreamBody`, `rewriteSystemForUpstream`, `stripModelPrefixInBody`, `ensureSystemFirst`, `forceMaxThinking` | whatever order they run in, what goes out is what upstream takes |
| Login, refresh, `main.go:781-1185` | `loginStates`, stored tokens | `startLoginFor`, `handlePollLogin`, `handleRefreshAuth` | accounts are never mixed; a polled login ends; a stored credential stays usable |
| Quota, `quota.go`, `management.go` | balance and page caches | `cachedBalance`, `collectQuota`, `fetchQuotaFrom` | an answer is no older than its TTL says, complete, and adds up |
| Configuration, `main.go:197-` | region, prefix, publish mode, extra models | `applyConfigYAML` | see the model cache |
| Dispatch, `main.go:279-450` | host callbacks | RPC switch, C ABI | no state of interest |
| Deploy receiver, `deploy/deploy-webhook.py` | files, backups, container | `install_asset`, `backup`, `restart_container`, `do_POST` | deliveries do not mix; a failed install can be rolled back |

How they interact: a request marks and clears the cooldown table; advertising
reads it to decide which models the host may route to a credential; the host's
routing decides which credential the next request arrives with. Discovery fills
the model cache, which advertising publishes and the request path takes its
fallback candidates from. Configuration changes under all of them.

The hard behaviours are the interleavings of requests, polls and answers over
the cooldown table, the staleness of caches after a change, answers that arrive
late, and the ends of streams and logins. `PROJECT.json` lists them one by one
under `hazards`, at the line where each bites.

## Modules

| Module | Models | State |
|---|---|---|
| `Cooldown` | cooldown.go: the backoff table | `cooling` (its operators are `cdMu`'s critical sections) |
| `Fallback` | fallback.go and its callers: concurrent requests | `req`, `cursor`, `warm`, the table |
| `RequestContract` | what a request promises, without data structures | `phase`, `asked`, `outcome` |
| `Advertise` | `modelsForAuth`, `suppressModel`, the host's registry | `poll`, `published` (the registry), `seen`, `calls`, `reach`, the table |
| `Catalog` | models.go: from payloads to lists; operators only | none |
| `Sifting` | filters of sequences, as folds; operators only | none |
| `Discovery` | the model cache, discovery, `applyConfigYAML` | `cache`, `poll`, `config` |
| `Rewriting` | request bodies, chunks, `upstreamStreamState`, `aggregateCompletion`; operators only | none |
| `Stream` | one request from acceptance to its end | `task`, `client`, `outgoing`, `upstream`, `st`, `host` |
| `AnswerContract` | what the host may rely on when it has a request answered | `way`, `phase`, `calls` |
| `Login` | logins, polls and refreshes | `pending` (`loginStates`), `store` (the host's), `call`, upstream's part |
| `Balance` | quota.go: how a balance is put together; operators only | none |
| `Quota` | `cachedBalance`, `collectQuota` | `balances`, `page`, `call`, upstream's balances |

`MC...` are the instances for TLC, `...Proofs` the theorems of the module they
are named for; `FoldProofs` has the lemmas about folds that several of them
instantiate. Definitions introduced as "a regression" are what a plausible bug
would turn the next definition into; no behaviour uses them, they serve to see
that each property notices.

All of them are built alike. An action is one critical section of the code, one
exchange with upstream, or one call from the host, and the local state of a call
(`req[r]`, `poll[c]`, `call[t]`, `task`) says by its `step` what comes next. What a Go function
does between two locks is invisible to other threads and is not split further;
what it does across two locks always is. Instants are stored as what is left of
them, in ticks, and a `Tick` counts everything down.

`Cooldown`. An entry whose wait is over stays in the table with its failure
count and its exhausted flag, as in the code. `Wait` after a 429 follows
`markCooldown`: `Retry-After`, then the reset stamp, then the exponential guess;
14018 overrides them all.

`Fallback`. The steps are those the code separates:
`CheckRequested` (fallback.go:60), one `Examine` per id the search looks at
(each takes `cdMu` for itself), `Pick` (the atomic add), `GiveUp`, `Send`,
the answers `Throttled` (mark and look for the next model), `Answered` and
`Errored`, and `Forgive`, the clear in the three callers, which is a step of its
own because the body has not been read under any lock. `Accept`, `Discover`,
`Expire` and `Tick` are the surroundings. `Fallback!Contract` maps it to
`RequestContract`: at most `FallbackAttempts` calls, no model asked twice except
the first one, one answer.

`Advertise`. `suppressModel` takes the lock three times for one model, so
`CheckRemaining`, `CheckExhausted` and `CheckPeers` are three actions. Requests
are reduced to what they do to the table: a call goes out for a model that is
not cooling (`Send`) and comes back some time later (`Refused`, `Served`).

`Catalog` and `Discovery`. A model is the part of `upstreamModel` that decides
something: id, price, limits, windows, flags. A payload is a JSON tree of
wrappers, arrays and maps of specs, cut down to the shapes `decodeModelList` tells
apart; `Nodes` are the trees upstream may serve, closed under what is in them, so that
decoding four levels of them (`Depth1` to `TooDeep`) needs no recursion. A loop that
leaves elements out is a `Sift`, which keeps the members of a set: the `SelectSeq`
of the standard modules is recursive. `assembleModels` reads the configuration in four critical sections, so that
`ReadMode`, `ReadPolicy`, `KeepAllowed` (which reads the declared models),
`ReadPrefix` and `AppendDeclared` are actions of their own and a `Reconfigure`
can fall between any two. `Store` and `RememberRemote` are two sections too.

`Rewriting` and `Stream`. A body is its kind, model, namespace, flags and
messages; a line of upstream is blank (`[DONE]` and the like), broken, or a chunk
whose fields are missing, empty or say something. `Outgoing` composes the six
rewrites in the order of the handlers; `Swap` is the fallback's
`setModelInBody`. `host` is the list of calls the host sees, in order. The three
ways to answer share one automaton, as they share their helpers in the code.
`Stream!Contract` maps it to `AnswerContract`: of a chunk the host's side tells apart which line
of upstream it stands for and whether it was taken.

`Login`. Upstream is external: it issues states and tokens, knows who signed in
and which refresh tokens it honours, and replaces a refresh token or not
(`rotates`). The host stores what it is handed under the name it is given. A
refresh can be honoured and its answer lost.

`Balance` and `Quota`. `fetchQuotaFrom` puts one balance together of three
answers; the `sort.Slice` of its packages is an insertion sort, which it is in the Go library
up to twelve elements. `Quota` gives every reading an age, a history variable that `Tick`
advances with the TTLs.

`Fallback`, `Advertise` and `Discovery` carry a history variable `since`, which no guard
reads. It keeps what has held without a break since the request or the poll
began (a model cooling all along, a model never cooling, the configuration left
alone, ...). With it "the code does not do X" becomes a claim that concurrent
steps cannot excuse: a request may ask a model that somebody parked a moment
ago, but none that was parked before it came in and ever since.

## Runs

| Run | Instance | Shows |
|---|---|---|
| `fallback` | two requests, one credential, a free, a priced and a declared model, 3 attempts | `AsksFewAndDistinct`, `NeverAsksParked`, `TurnedAwayForAReason`, `SparesAreCandidates` |
| `fallback_contract` | two requests, a free and a declared model, 2 attempts, fair | `BackoffFollowsUpstream`, `ImplementsContract`, `EveryRequestEnds` |
| `advertise` | two credentials, two models of which one is asked for, exhausted credits and far resets, fair | `HidesOnlyThrottled`, `LoneModelStaysListed`, `SpentStaysHidden`, `HiddenComesBack` |
| `discovery` | two discoveries of one credential, four kinds of answers, three configurations, one change of them, fair | `ListFollowsPolicy`, `LimitsHold`, `FlagRespected`, `NoFreeGuess`, `PoolIsWhole`, `ListHasCatalog`, `OnlyListedOrMentioned`, `NamespaceRestored` |
| `stream` | requests of all shapes, eight kinds of lines, up to four of them, fair | `UpstreamAccepts`, `EndsOnce`, `NothingLost`, `ReasoningIsConcluded`, `NoFalseStop`, `ImplementsContract`, `EveryRequestEnds` |
| `login` | two logins in two realms, two threads, three token pairs, fair | `AccountsKeepApart`, `NamedStaysUsable`, `PolledLoginEnds` |
| `quota` | one credential, two threads, three kinds of replies, fair | `LabelIsRecent`, `PageIsRecent`, `NothingUnread`, `FiguresAgree`, `ErrorsPass` |
| `exhausted_hold` | one credential, two calls in flight | violated: `ExhaustedHoldStands` |
| `lone_frequency` | one credential, one call in flight | violated: `FrequencyLimitNeedsPeer` |
| `never_bills` | one request, a declared model the catalog prices | violated: `NeverStartsBilling` |
| `namespace_leak` | one change of the configuration | violated: `NamespaceWithholds` |
| `hy_unpinned` | the instance of `stream` | violated: `HyThinksHard` |

Each of the passing runs checks its module's `TypeOK` too, `fallback_contract` apart.

### Bounds

- Backoff. Times are scaled: a base of 1 tick, a maximum of 1, a reset cap of 1 to 3.
  What matters to the code is whether a wait is over and, for the hold, that it is
  longer than a guess. `FailCap` stops the failure count where the guess stops
  growing (`CooldownAssumption` says so), so it loses nothing.
- Requests. Three attempts is the code's own number; with three models it is a lack
  of candidates that ends a search first, so `fallback_contract` allows two, where
  the cap bites. With two requests one can be anywhere while the other changes the
  table under it; a third would only do what a slot that is used again does.
  `CursorMod` is a multiple of every pool size, so the cursor modulo it picks what
  the counter picks (the one step at which the uint64 wraps aside). `MaxCalls`
  bounds calls in flight per credential and model. `Watched` says whose history is
  kept: the slots are alike, so one is enough.
- Advertising. One credential serves both models, the other one only the model that requests
  come for (`Routes`): the model nobody asks for is there to stay advertised. The 429s of this
  run are those with the two long waits, an exhausted model's and a far reset;
  the one-tick wait of a plain 429 is what is left of a far reset a tick later, and what
  such a 429 does to an exhausted entry is in `exhausted_hold` and `lone_frequency`. With a `Staleness`
  of 0 a peer that was seen counts until the next tick; it can be seen anew at any
  time, so longer ones add no answers of `CheckPeers`.
- Discovery. The other realm's payload mentions an id of its own, which no payload of
  this realm has. A TTL of 2 lets an entry age without going; one change of the
  configuration can fall between any two steps. One poller gets all four kinds of
  answers (both catalogs; one as a map and a trial the other realm prices; banners
  only; nothing), the other the richest. Accounts share no entry, so that one key
  is enough.
- Streams. Four lines let an answer reason, speak, call a tool and be stopped, or
  break off anywhere in between. Requests share nothing on this way, so that one at
  a time is enough.
- Logins. Two states, one per realm, fit two logins or a login with its secondary
  state; three token pairs fit two logins and a refresh, or a login and two racing
  refreshes.
- Balances. A TTL of 2 and a timeout of 1 are the smallest that differ. Two threads
  make a late answer overwrite a newer one; the replies have a package that is
  sliced, one without a code, and a refusal.

### Fairness

`Work(r)` of a request is weakly fair: a goroutine that can go on does, and the
HTTP client has a timeout of 120 s, so upstream's silence is an `Errored` step.
For advertising the clock runs and the host polls every credential again and
again; nothing is assumed about upstream, discovery or the clients. In `Stream`
the same timeout covers the reading of the body, so `EndOfStream` happens to a
loop upstream keeps busy. In `Discovery` every call returns, since each fetch has
a timeout and nothing else waits. In `Quota` calls go on and time passes, and `Tick` does not overtake the
timeouts of a lookup. In `Login` too; and the host polls a state it was offered
until it hears how the login ended. That is strong fairness, because a thread
that is busy with something else comes and goes; without it no login would have to end, since the
code only forgets an expired one when it is asked about it.

### Where the code does something else than it says

`findings` in `PROJECT.json` quotes the lines. Five runs are about claims that
are violated:

- A short 429 that arrives late overwrites the hold of an exhausted model.
- The exhausted flag outlives its hold, and makes the next frequency limit hide a
  model that nobody else can serve.
- A declared model the catalog prices is fallen back to.
- After `model_prefix` is set, lists cached before go on publishing bare ids until they
  expire. `NamespaceRestored` says that they do expire.
- An hy3 model asked for under the prefix is sent without the pinned effort.

Three properties of passing runs say what the code does where the texts disagree
with it, or with each other:

- `HidesOnlyThrottled`. A 429 parks one model of a credential, as the head of
  cooldown.go says (12-17). README.md:393-405 still has the rule this replaced, under
  which the credential cools and `model.for_auth` returns no models.
- `SpentStaysHidden`. A model out of credits is hidden although nobody else can serve
  it, as cooldown.go:219-221 and cooldown_test.go:178 say. By README.md:401-402 and cooldown.go:16-17
  a model is only hidden while somebody else can serve it, and no exception is made.
- `PoolIsWhole`. What the other realm's payload mentions becomes a supplement, since
  models.go:231 searches all three payloads. The comment above it (models.go:226-229),
  models.go:204-205 and README.md:294-295 say that this payload supplies metadata and never ids.

Two more comments are contradicted by what `Login` models, without a property of
its own: without a uid, `accountIdentity` is a hash of the access token and so changes with
every refresh, where main.go:551-555 has it "still stable for that account"
(`NamedStaysUsable` is about credentials with a uid); and two uids that
`sanitizeIdentity` writes alike share a file, where the same comment has it that "two
accounts can never collide and overwrite each other". The theorems about `Login`
allow such a collision; the run gives the two accounts two names. README.md:105-112
describes a way to read the Global `/v3/config` (an agent named "cli") that the code does
not have, and README.md:145 and 184 do not assume.

Other things met on the way contradict no line of the repository, and shape the
properties instead:

- That `Suppressed` is false at every moment does not bring a model back, since the
  three critical sections of `suppressModel` can see a backoff before it ends and a
  peer after it recovered, time and again; `HiddenComesBack` asks that the model
  recovered for good, or never had a peer again.
- `assembleModels` reads the publish mode twice (models.go:579, 1024). When "allow" is
  replaced in between, the whole catalog is published bare for one TTL.
  `ListFollowsPolicy` is about lists made under one configuration.
- The login state of the realm the user did not choose is never removed.
- A completion, unlike a stream, says "stop" for an answer that broke off, and takes
  reasoning from `reasoning_content` alone; fragments of a tool call become calls of
  their own. `NothingLost` asks for what the code does there.
- The comment at models.go:923-924 speaks of a bundled list for when nothing can be
  fetched; the code then advertises nothing, as `FetchFails` does.

## Proofs

TLAPS checks these for every value of the constants that meets the module's
assumption. `CooldownAssumption`: positive base, base <= maximum <= reset cap, a failure
bound that loses nothing. `FallbackAssumption`: catalogs and declarations are
sequences of offers, declared offers are not in a catalog as such, at least one
attempt, one credential and one model. `CatalogAssumption`: no model id
is blank, the two default limits are positive (models.go:780-787), and a measured
entry is one of the id it is filed under. `NodesAssumption` and `DiscoveryAssumption`: what
upstream serves decodes to entries, that is to records of the Go type with any values
in them, and a JSON object has finitely many keys. `StreamAssumption`: lines are
blank, broken or chunks, and the host opens a stream only where the client asked for one
(otherwise it calls `executor.execute`). `AdvertiseAssumption`, `LoginAssumption` and `QuotaAssumption` give
the constants their types and rule out empty sets of keys and states.
None of them restricts what upstream may answer beyond its being well-formed; what is
ill-formed is `Broken`, `Nothing` or a failed fetch. All theorems are about `Spec`, without fairness.

| Module | Theorem | Establishes | Invariant used |
|---|---|---|---|
| `FallbackProofs` | `TypeCorrect` | `[]TypeOK` | itself |
| | `FewAndDistinctCalls` | `[]AsksFewAndDistinct` | `LocalInv` |
| | `OnlyCandidatesAsked` | `[]SparesAreCandidates` | `SpareInv` |
| | `ParkedNotAsked` | `[]NeverAsksParked` | `HistoryInv` |
| | `NoFalseRefusal` | `[]TurnedAwayForAReason` | `HistoryInv` |
| | `Implements` | `ImplementsContract` | `Inv` |
| | `FollowsUpstream` | `BackoffFollowsUpstream` | `Inv` |
| | `StepsAreBounded` | own steps lower `StepsLeft`, nothing else touches it | `Inv` |
| `AdvertiseProofs` | `TypeCorrect` | `[]TypeOK` | with `AboutSomething` |
| | `OnlyThrottledHidden` | `[]HidesOnlyThrottled` | `IInv` |
| | `LoneModelListed` | `[]LoneModelStaysListed` | `IInv` |
| | `SpentHidden` | `[]SpentStaysHidden` | `IInv` |
| `DiscoveryProofs` | `ListsHaveCatalogs` | `[]ListHasCatalog` | `IInv` |
| | `TypeCorrect` | `[]TypeOK` | `DInv` |
| | `ListsFollowPolicy` | `[]ListFollowsPolicy` | `DInv` |
| | `LimitsAreKept` | `[]LimitsHold` | `DInv` |
| | `FlagsRespected` | `[]FlagRespected` | `DInv` |
| | `NothingFreeByGuess` | `[]NoFreeGuess` | `DInv` |
| | `PoolsAreWhole` | `[]PoolIsWhole` | `DInv` |
| | `ListedOrMentioned` | `[]OnlyListedOrMentioned` | `OInv` |
| | `NothingProlongs` | what is cached of an account only `Ages` | `TypeOK` |
| `StreamProofs` | `OneEnd` | `[]EndsOnce` | `IInv` |
| | `StopsAreUpstreams` | `[]NoFalseStop` | `IInv` |
| | `TypeCorrect` | `[]TypeOK` | `Sent` |
| | `OutgoingAccepted` | `[]UpstreamAccepts` | `Sent` |
| | `AllIsHeard` | `[]NothingLost` | `IInv`, `Whole`, `Noted` |
| | `ReasoningConcluded` | `[]ReasoningIsConcluded` | `Whole`, `Noted` |
| | `Implements` | `ImplementsContract` | `IInv`, `Unseen` |
| `LoginProofs` | `TypeCorrect` | `[]TypeOK` | `IInv` |
| | `AccountsApart` | `[]AccountsKeepApart` | `IInv` |
| | `NamedUsable` | `[]NamedStaysUsable` | `IInv`, `UInv` |
| `QuotaProofs` | `LabelsRecent` | `[]LabelIsRecent` | `IInv` |
| | `PagesRecent` | `[]PageIsRecent` | `IInv` |
| | `AllAnswersRead` | `[]NothingUnread` | `IInv` |
| | `TypeCorrect` | `[]TypeOK` | `IInv`, `KInv` |
| | `FiguresRight` | `[]FiguresAgree` | `KInv` |

`CooldownProofs` holds what the operations on the table do, for any base, caps and
refusals. A guess lies between
`cooldownBase` and `cooldownMax` and never shrinks with another failure
(`GuessBounds`, the theorem `GuessGrows`); a refusal, whatever hint it carries, parks the
model for at least a tick and at most `cooldownResetMax` and touches no other entry
(the theorems `WaitBounds` and `MarkParks`); clearing touches one entry; time parks nothing. The other
proofs cite these and do not look inside the table.

Hardly any of the properties is inductive. The arguments:

- `LocalInv` ties `asked` to `tried`. The code adds the first model to `tried`
  only together with its successor (fallback.go:112), so "everything asked is
  tried" is false; what holds is that everything asked is tried or was asked
  first and is still the current model, that the pool avoids `tried`, and that a
  call is only prepared while attempts are left.
- `SpareInv` carries the claim back from the calls to the pool and from there to
  what the search has still to look at.
- `HistoryInv` has two parts. `Anchored`: the history agrees with the table and
  the cache as they are now. It holds after any step, since `Observe` intersects
  with the present. `Apt`: how the locals relate to the history (nothing in the pool was
  parked all along; every candidate free all along is in the pool or still to be
  looked at; nothing free all along has been tried). `Apt` only gets weaker when the
  history shrinks (`AptWithin`), which is why the steps of other requests, of
  the cache and of the clock, which change the table under a search, cannot break
  it; only the request's own steps need a look.
- `Implements` shows that each step of the request path is, under the mapping
  `Contract`, a step of `RequestContract` or a stutter. To `LocalInv` it adds
  `Settled`: nothing is left of a request that is over, nothing is told before the
  end, and the model a call is out for is the one asked last. The last part is also what makes
  the entry that `clear` and `markCooldown` touch the one upstream answered about.
- `StepsAreBounded` counts what is left of a request (`StepsLeft`): the candidates not yet
  looked at, and a whole search for each attempt that is left. A search looks at the
  catalog as it was when it began, so a catalog that is refreshed in the
  meantime does not lengthen it. That everything asked is a new attempt (`LocalInv`) bounds the searches.
- `Advertise` has the same shape: `PollInv` says of each model of a poll that was free, or
  alone, or spent all along, whether it is kept, still to be looked at, or how far
  the three looks at it have got.
- `Login` rests on upstream never taking an answer back: a state keeps its realm
  and the account that signed in, a token its owner (`Grows`). What a call `Knows`
  therefore stays true while it waits, whatever the other calls do, and
  `OfOne` is what it hands over.
- `NamedStaysUsable` needs who holds which refresh token (`UInv`). Without rotation every
  token anybody holds is honoured (`AllLive`). With it, a token not stored yet is in
  one hand only (`Sole`), no two files share one (`OneFile`), and a refresh knows the uid of
  the file whose token it spends (`SameName`), so the replacement goes to that file.
- `Quota`: age plus what is left of the TTL is at most the TTL. A page's
  snapshot counts from its beginning, which makes this exact; a label counts
  from its storing, which is where the one lookup in `LabelIsRecent` comes from.
- `Stream`: `Reading` and `Closing` (all chunks were accepted, but for the last one
  of a pump that is about to close) give `EndsOnce`. `Remembered` (`st.finish` is
  the last reason upstream gave) and `Sourced` (each chunk is a line of upstream, or
  the concluding one) give `NoFalseStop`.
- `FoldProofs` says what a fold computes: a trace with one entry per element
  (`FoldHasTrace`, `FoldOfTrace`). The induction theorems of the library take the
  predicate as an operator, which no prover here can instantiate; `Induction` takes
  the set of numbers that satisfy it instead and rests on `WFMin`. The module has the folded operation
  as its constant and is instantiated once for each: filters, merging, mentions,
  unlisted entries, sums, sorting, facts of packages.
- `Stream`, what goes out: none of the rewrites undoes what an earlier one did: the body asks
  for a stream, its name is bare, a global conversation begins with the system's message, and the
  templates are reworded (`Fit`). `Swap` comes on top of them.
- `Stream`, what is heard: `Whole` says of each field that what the host has heard of it is
  what the lines read so far carry, or a beginning of that after a refused chunk, and
  of a completion that it is the aggregate of all lines. `Noted` ties
  `upstreamStreamState` to the chunks handed over: who heard reasoning has
  `sawReasoning`, and content is only seen if it was heard. The concluding chunk follows.
- `Stream` implements `AnswerContract` by the same `IInv`: `Sourced` puts each new line after those
  handed over and keeps the plugin's own chunk for the end, `Reading` says that no chunk follows a refusal.
  That something was handed over before the plugin's own chunk takes `Unseen`: who
  was handed nothing has no reasoning to conclude.
- `Quota`, the figures: `KInv` says that every reading, in a cache or in a call, is
  what `fetchQuotaFrom` makes of some reply of upstream (`Genuine`); the rest is about that
  operator: each row becomes one package, sorting keeps their number and sum, and puts one with a slice first.
- `Discovery`, the cache (`IInv`): the property itself, with the shape of the records. A store makes
  its own poller the witness, and a `RememberRemote` completes whatever entry it
  meets.
- `Discovery`, how long (`NothingProlongs`): only `Store` and `RememberRemote` give an entry time, and the
  latter gives none to an entry that has some, although it may begin a new one. A hit
  that renewed its entry would keep bare ids advertised for as long as the host polls often enough.
- `Discovery`, the lists (`DInv`): as long as the configuration has stood still since a poll began
  to assemble, its locals at each step are what that configuration makes of an answer of
  upstream up to there (`Agrees`); a cached list was served by such a poll and a remembered
  pool is the merge of such an answer, under whatever configuration (`Remembered`). A `Reconfigure`
  ends the claim for every poll and list by way of `since`. What is left is algebra on
  the operators of `Catalog`: merging keeps each id once and loses none (`MergeOK`), supplements
  are disjoint from the catalog (`SupplementsOK`), what is listed under a
  configuration is what it lets out (`PolicyOK`), with limits of the entries it
  came from (`LimitOK`), without what is withheld (`WithheldOK`), and the pool has no price of
  its own making (`PoolPriced`).
- `Discovery`, whose models (`OInv`, for `OnlyListedOrMentioned`): unlike `DInv` it does not depend on the configuration having
  stood still. What a step of `assembleModels` adds is an entry of the answer, a mention or a
  declaration under any of the configurations, so a list torn by a `Reconfigure` is covered too.
  An entry of an answer is one the payload spells out: decoding reads a node itself
  (`ReadOff`) or one wrapper further in (`Inside`), and `extractModels` opens four at
  most.

Two attempts at proofs found something in the model. `Advertisable` had two overlapping cases
with different values, one of which TLC happened to take. And `LimitsHold`, as it was first stated,
had no exception, although an entry of a catalog that has no limit keeps the measured one from being
looked up (models.go:1101-1121), as does a declared one another declaration of the same id; it
now says when a limit may be missing.

Only model-checked are the liveness properties (`EveryRequestEnds`,
`HiddenComesBack`, `NamespaceRestored`, `PolledLoginEnds`,
`ErrorsPass`), since TLAPS cannot reason about fairness. Two of them have their safety half
proved: a request that takes its steps ends, since it has finitely many
(`StepsAreBounded`), and an outdated list runs out if time passes, since nothing
prolongs it (`NothingProlongs`); what the runs add is that the steps are taken. Every other property of the passing runs is a theorem.

## Not modelled

- The C ABI and the RPC switch: marshalling. What they bring about, that calls of
  the host run on threads of their own, is in every module.
- Rendering: the HTML and JSON of the management routes, display names,
  descriptions, error texts, logs, the icon.
- A prefix that changes while a request which uses the old name is under way, and the
  region as the primary realm of a login, which `Login` leaves open.
- Catalogs that differ between the peers of a credential in time: `Advertise`
  takes who serves what as given, and a peer counts if it was seen, as in
  cooldown.go:241. A composition of `Fallback`, `Advertise` and `Discovery` over one table
  would not show more about any of them, since each already lets the others do
  what they like to what is shared: the table is marked, cleared and aged, and the
  catalog appears and expires, at any moment.
- The deployment tool under `deploy/`, a program of its own. Its two hazards, deliveries
  that run concurrently and installs that succeed in part, are listed.
- The build and setup scripts, which run once.
