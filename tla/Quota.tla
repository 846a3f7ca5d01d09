------------------------------- MODULE Quota -------------------------------
(***************************************************************************)
(* Balances: the one in a credential's label, which auth.parse and         *)
(* auth.refresh look up (cachedBalance), and those of the balance page     *)
(* (collectQuota, behind handleManagement).                                *)
(*                                                                         *)
(* Both look into their cache, leave the lock to ask upstream, and take it *)
(* again to store what they got.  Calls of several threads interleave in   *)
(* between, time passes, and balances change.                              *)
(***************************************************************************)
EXTENDS Balance

CONSTANTS
    Credentials,  \* the host's credentials of this plugin, by cache key
    Callers,      \* threads of the host
    Replies,      \* what upstream may answer a lookup with
    QuotaTTL,     \* quotaCacheTTL, in ticks
    FetchMax      \* the timeouts of a lookup, in ticks

ASSUME QuotaAssumption ==
    /\ Replies \subseteq Reply
    /\ "page" \notin Credentials
    /\ QuotaTTL \in Nat \ {0} /\ FetchMax \in Nat

VARIABLES
    truth,     \* upstream: what it would answer for each credential
    balances,  \* quotaBalanceCache
    page,      \* quotaCached
    call       \* the local state of each caller

vars == <<truth, balances, page, call>>

-----------------------------------------------------------------------------
(***************************************************************************)
(* A balance as it was read: `age` is history, the ticks since then.  In   *)
(* the caches `left` is what is left of the TTL; 0 is none, or expired.    *)
(***************************************************************************)
Ages == 0..(QuotaTTL + 2 * FetchMax)
Reading == [account : Account, age : Ages, read : BOOLEAN]
Unread == [account |-> Failed(""), age |-> 0, read |-> FALSE]

NoReading == [c \in {} |-> Unread]

NoEntry == [left |-> 0, reading |-> Unread]

\* A snapshot: the credentials it lists and their balances, or an error.
NoPage == [left |-> 0, error |-> FALSE, readings |-> NoReading]

\* Where a call is: idle, or about to do what the step is named for.
Steps == {"idle", "fetch", "store", "list", "collect", "answer"}

(***************************************************************************)
(* Its locals: the credential it is about, or the page; was upstream to be *)
(* asked in any case; the ticks it has taken; what it found.               *)
(***************************************************************************)
Idle == [step |-> "idle", about |-> "page", force |-> FALSE, taken |-> 0,
         left |-> 0, error |-> FALSE, readings |-> NoReading]

IsReadings(readings) ==
    /\ DOMAIN readings \subseteq Credentials
    /\ \A c \in DOMAIN readings : readings[c] \in Reading

TypeOK ==
    /\ truth \in [Credentials -> Replies]
    /\ DOMAIN balances = Credentials
    /\ \A c \in Credentials : /\ balances[c].left \in 0..QuotaTTL
                              /\ balances[c].reading \in Reading
    /\ page.left \in 0..QuotaTTL /\ page.error \in BOOLEAN /\ IsReadings(page.readings)
    /\ \A t \in Callers :
          /\ call[t].step \in Steps /\ call[t].about \in Credentials \cup {"page"}
          /\ call[t].taken \in 0..FetchMax /\ call[t].left \in 0..QuotaTTL
          /\ call[t].force \in BOOLEAN /\ call[t].error \in BOOLEAN
          /\ IsReadings(call[t].readings)

Init ==
    /\ truth \in [Credentials -> Replies]
    /\ balances = [c \in Credentials |-> NoEntry]
    /\ page = NoPage
    /\ call = [t \in Callers |-> Idle]

Becomes(t, now) == call' = [call EXCEPT ![t] = now]

\* fetchQuota, for each reply.
fetchQuota == [reply \in Replies |-> fetchQuotaFrom(reply)]

\* A lookup of credential c, now.
ReadNow(c) == [account |-> fetchQuota[truth[c]], age |-> 0, read |-> TRUE]

-----------------------------------------------------------------------------
(***************************************************************************)
(* cachedBalance                                                           *)
(***************************************************************************)
\* A regression: a hit renews the entry.
LookUpRenewing(t, c) ==
    /\ call[t].step = "idle"
    /\ IF balances[c].left > 0
       THEN /\ Becomes(t, [Idle EXCEPT !.step = "answer", !.about = c,
                                       !.readings = [x \in {c} |-> balances[c].reading]])
            /\ balances' = [balances EXCEPT ![c].left = QuotaTTL]
       ELSE /\ Becomes(t, [Idle EXCEPT !.step = "fetch", !.about = c])
            /\ UNCHANGED balances
    /\ UNCHANGED <<truth, page>>

LookUp(t, c) ==
    /\ call[t].step = "idle"
    /\ Becomes(t, IF balances[c].left > 0
                  THEN [Idle EXCEPT !.step = "answer", !.about = c,
                                    !.readings = [x \in {c} |-> balances[c].reading]]
                  ELSE [Idle EXCEPT !.step = "fetch", !.about = c])
    /\ UNCHANGED <<truth, balances, page>>

\* The summary is what counts; what comes after it takes time, too.
Fetch(t) ==
    LET c == call[t].about
    IN  /\ call[t].step = "fetch"
        /\ Becomes(t, [call[t] EXCEPT !.step = "store", !.readings = [x \in {c} |-> ReadNow(c)]])
        /\ UNCHANGED <<truth, balances, page>>

\* Errors are stored like balances, and the time is that of the storing.
Store(t) ==
    LET c == call[t].about
    IN  /\ call[t].step = "store" /\ c # "page"
        /\ balances' = [balances EXCEPT ![c] = [left    |-> QuotaTTL,
                                                reading |-> call[t].readings[c]]]
        /\ Becomes(t, [call[t] EXCEPT !.step = "answer"])
        /\ UNCHANGED <<truth, page>>

-----------------------------------------------------------------------------
(***************************************************************************)
(* collectQuota                                                            *)
(***************************************************************************)
\* A new snapshot is as old as its beginning.
OpenPage(t, force) ==
    /\ call[t].step = "idle"
    /\ Becomes(t, IF ~force /\ page.left > 0
                  THEN [Idle EXCEPT !.step = "answer", !.force = force,
                                    !.error = page.error, !.readings = page.readings]
                  ELSE [Idle EXCEPT !.step = "list", !.force = force, !.left = QuotaTTL])
    /\ UNCHANGED <<truth, balances, page>>

\* ownCredentials: a credential the host does not hand out is passed over.
List(t, listed) ==
    /\ call[t].step = "list"
    /\ Becomes(t, [call[t] EXCEPT !.step = "collect", !.error = (listed = {}),
                                  !.readings = [c \in listed |-> Unread]])
    /\ UNCHANGED <<truth, balances, page>>

\* Without a list there is an error, stored like a page.
ListFails(t) ==
    /\ call[t].step = "list"
    /\ Becomes(t, [call[t] EXCEPT !.step = "store", !.error = TRUE])
    /\ UNCHANGED <<truth, balances, page>>

\* One goroutine per credential.
Collect(t, c) ==
    /\ call[t].step = "collect"
    /\ c \in DOMAIN call[t].readings /\ ~call[t].readings[c].read
    /\ Becomes(t, [call[t] EXCEPT !.readings[c] = ReadNow(c)])
    /\ UNCHANGED <<truth, balances, page>>

\* A regression: they are not waited for.
CollectedAtOnce(t) ==
    /\ call[t].step = "collect"
    /\ Becomes(t, [call[t] EXCEPT !.step = "store"])
    /\ UNCHANGED <<truth, balances, page>>

\* All of them are waited for.
Collected(t) ==
    /\ call[t].step = "collect"
    /\ \A c \in DOMAIN call[t].readings : call[t].readings[c].read
    /\ Becomes(t, [call[t] EXCEPT !.step = "store"])
    /\ UNCHANGED <<truth, balances, page>>

\* A regression: a snapshot is as old as its end.
StorePageAsNew(t) ==
    /\ call[t].step = "store" /\ call[t].about = "page"
    /\ page' = [left |-> QuotaTTL, error |-> call[t].error, readings |-> call[t].readings]
    /\ Becomes(t, [call[t] EXCEPT !.step = "answer"])
    /\ UNCHANGED <<truth, balances>>

StorePage(t) ==
    /\ call[t].step = "store" /\ call[t].about = "page"
    /\ page' = IF call[t].left = 0 THEN NoPage
               ELSE [left     |-> call[t].left, error |-> call[t].error,
                     readings |-> call[t].readings]
    /\ Becomes(t, [call[t] EXCEPT !.step = "answer"])
    /\ UNCHANGED <<truth, balances>>

-----------------------------------------------------------------------------
Answer(t) ==
    /\ call[t].step = "answer"
    /\ Becomes(t, Idle)
    /\ UNCHANGED <<truth, balances, page>>

\* Upstream changes its mind (external).
Change(c, reply) ==
    /\ truth[c] # reply
    /\ truth' = [truth EXCEPT ![c] = reply]
    /\ UNCHANGED <<balances, page, call>>

Older(readings) ==
    [c \in DOMAIN readings |->
        IF readings[c].read THEN [readings[c] EXCEPT !.age = @ + 1] ELSE readings[c]]

Down(n) == IF n > 0 THEN n - 1 ELSE 0

\* A regression: an error is kept until somebody clears it.
AgedUnlessError(entry) ==
    IF entry.left > 0 /\ entry.reading.account.error # "" THEN entry
    ELSE IF entry.left <= 1 THEN NoEntry
    ELSE [left |-> entry.left - 1, reading |-> [entry.reading EXCEPT !.age = @ + 1]]

Aged(entry) ==
    IF entry.left <= 1 THEN NoEntry
    ELSE [left |-> entry.left - 1, reading |-> [entry.reading EXCEPT !.age = @ + 1]]

\* No call takes longer than its timeouts.
Tick ==
    /\ \A t \in Callers : call[t].step # "idle" => call[t].taken < FetchMax
    /\ balances' = [c \in Credentials |-> Aged(balances[c])]
    /\ page' = IF page.left <= 1 THEN NoPage
               ELSE [page EXCEPT !.left = @ - 1, !.readings = Older(@)]
    /\ call' = [t \in Callers |->
                   IF call[t].step = "idle" THEN Idle
                   ELSE [call[t] EXCEPT !.taken = @ + 1, !.left = Down(@),
                                        !.readings = Older(@)]]
    /\ UNCHANGED truth

CallStep(t) ==
    \/ Fetch(t)
    \/ Store(t)
    \/ \E listed \in SUBSET Credentials : List(t, listed)
    \/ ListFails(t)
    \/ \E c \in Credentials : Collect(t, c)
    \/ Collected(t)
    \/ StorePage(t)
    \/ Answer(t)

Next ==
    \/ \E t \in Callers : CallStep(t)
    \/ \E t \in Callers, c \in Credentials : LookUp(t, c)
    \/ \E t \in Callers, force \in BOOLEAN : OpenPage(t, force)
    \/ \E c \in Credentials, reply \in Replies : Change(c, reply)
    \/ Tick

Spec == Init /\ [][Next]_vars

\* Lookups have a timeout, and time passes.
FairSpec == Spec /\ WF_vars(Tick) /\ \A t \in Callers : WF_vars(CallStep(t))

-----------------------------------------------------------------------------
(***************************************************************************)
(* Properties                                                              *)
(***************************************************************************)

Answered(t) == call[t].step = "answer"

\* A late answer of a slow lookup overwrites a newer one and stays for the TTL:
\* still, a label that is not read anew shows nothing that upstream gave longer
\* ago than the TTL and the timeouts of one lookup.
LabelIsRecent ==
    \A t \in Callers : Answered(t) /\ call[t].about # "page" =>
        \A c \in DOMAIN call[t].readings :
            \/ call[t].readings[c].age <= call[t].taken
            \/ call[t].readings[c].age - call[t].taken < QuotaTTL + FetchMax

\* The page is stricter, since a snapshot's age counts from before its lookups:
\* nothing on a page, overwritten or not, is older than the TTL or the call; and
\* a forced refresh shows what upstream says now, not what other calls cached
\* before or meanwhile.
PageIsRecent ==
    \A t \in Callers : Answered(t) /\ call[t].about = "page" =>
        \A c \in DOMAIN call[t].readings :
            \/ call[t].readings[c].age <= call[t].taken
            \/ /\ ~call[t].force
               /\ call[t].readings[c].age - call[t].taken < QuotaTTL

\* No page is served before the last of its lookups is in, be it of another
\* call, and no label without one.
NothingUnread ==
    \A t \in Callers : Answered(t) =>
        \A c \in DOMAIN call[t].readings : call[t].readings[c].read

\* The balance is the sum of what upstream listed, and of the packages shown
\* next to it; and the package an operator watches, if upstream gives its
\* slice, leads the page and is named in the label, whatever api3 left out.
FiguresAgree ==
    \A t \in Callers : Answered(t) =>
        \A c \in DOMAIN call[t].readings :
            LET account == call[t].readings[c].account
                packages == account.packages
                sliced == {i \in DOMAIN packages : packages[i].slice # {}}
            IN  /\ \E reply \in Replies :
                      IF account.error # "" THEN reply.summary = account.error
                      ELSE /\ reply.summary = "ok"
                           /\ Len(reply.rows) = Len(packages)
                           /\ account.left = Total(reply.rows)
                           /\ account.left = Total(packages)
                /\ sliced # {} => refillingPackage(account) = 1

\* An error is cached, but does not outlive its cause: once upstream answers
\* again, so do the labels.
ErrorsPass ==
    \A c \in Credentials :
        <>[](truth[c].summary = "ok")
        => <>[](\A t \in Callers : Answered(t) /\ call[t].about = c
                    => call[t].readings[c].account.error = "")
=============================================================================
