-------------------------------- MODULE Login --------------------------------
(***************************************************************************)
(* Logins and token refreshes (main.go).  A login opens a state at each    *)
(* realm; the user signs in at one of them with a browser, and the host    *)
(* polls until the plugin hands it a credential.  The host stores it, and  *)
(* has it refreshed again and again.  Calls run on threads of the host and *)
(* interleave at their exchanges with upstream.                            *)
(*                                                                         *)
(* Upstream's part is external: it issues states and tokens, and honours   *)
(* the refresh tokens in `live`.                                           *)
(***************************************************************************)
EXTENDS Integers, FiniteSets, Functions

CONSTANTS
    Accounts,   \* accounts upstream knows
    RealmOf,    \* the realm of each account
    sanitizeIdentity, \* what a uid looks like as part of a file name
    LoginIds,   \* states upstream may issue
    LoginTTL,   \* loginTTL, in ticks
    Callers,    \* threads of the host
    MaxTokens,  \* bound: token pairs upstream issues
    Nobody      \* no account, or a blank uid

Realms == {"cn", "global"}
Tokens == 1..MaxTokens

ASSUME LoginAssumption ==
    /\ RealmOf \in [Accounts -> Realms]
    /\ DOMAIN sanitizeIdentity = Accounts
    /\ LoginIds # {}
    /\ LoginTTL \in Nat \ {0} /\ MaxTokens \in Nat
    /\ Nobody \notin Accounts

VARIABLES
    issued,   \* upstream: the realm of each state, "none" before it is issued
    offered,  \* the states the host was given to poll: those of primary realms
    signed,   \* upstream: who signed in with each state
    owner,    \* upstream: whose each token pair is; Nobody's before it is issued
    live,     \* upstream: the refresh tokens it honours
    rotates,  \* upstream: does a refresh replace the refresh token?
    pending,  \* loginStates: of each state that is there, what is left of its TTL
    call,     \* the local state of each caller
    store,    \* the host: its credentials, by file name
    lost      \* history: refresh tokens whose replacement never arrived

vars == <<issued, offered, signed, owner, live, rotates, pending, call, store, lost>>

-----------------------------------------------------------------------------

\* storedAuth.  The access and the refresh token of a pair share a number; 0 is
\* none.
Credential == [realm : Realms, access : Tokens, refresh : Tokens,
               uid : Accounts \cup {Nobody}]

\* The uid, or a hash of the access token: ID and file name of a credential.
\* The uid is trimmed, what is not a letter, a digit, - or _ becomes -, and
\* the rest is cut at 64.  All that is assumed of it is that a uid has one name:
\* two of them may share it.
accountIdentity(cred) ==
    IF cred.uid # Nobody
    THEN <<"uid", sanitizeIdentity[cred.uid]>> ELSE <<"token", cred.access>>

Identities == {<<"uid", sanitizeIdentity[a]>> : a \in Accounts} \cup {<<"token", n>> : n \in Tokens}

\* Where a call is: idle, or about to do what the step is named for.
Steps == {"idle", "secondary", "token", "account", "success", "exchange", "refreshed"}

NoCredential == [realm |-> "cn", access |-> 0, refresh |-> 0, uid |-> Nobody]

Idle == [step |-> "idle", realm |-> "cn", login |-> CHOOSE s \in LoginIds : TRUE,
         cred |-> NoCredential]

TypeOK ==
    /\ issued \in [LoginIds -> Realms \cup {"none"}]
    /\ offered \subseteq LoginIds
    /\ signed \in [LoginIds -> Accounts \cup {Nobody}]
    /\ owner \in [Tokens -> Accounts \cup {Nobody}]
    /\ live \subseteq Tokens
    /\ rotates \in BOOLEAN
    /\ DOMAIN pending \subseteq LoginIds
    /\ \A s \in DOMAIN pending : pending[s] \in 0..LoginTTL
    /\ call \in [Callers -> [step : Steps, realm : Realms, login : LoginIds,
                             cred : Credential \cup {NoCredential}]]
    /\ DOMAIN store \subseteq Identities
    /\ \A f \in DOMAIN store : store[f] \in Credential /\ accountIdentity(store[f]) = f
    /\ lost \subseteq Tokens

Init ==
    /\ issued = [s \in LoginIds |-> "none"]
    /\ offered = {}
    /\ signed = [s \in LoginIds |-> Nobody]
    /\ owner = [n \in Tokens |-> Nobody]
    /\ live = {}
    /\ rotates \in BOOLEAN
    /\ pending = <<>>
    /\ call = [c \in Callers |-> Idle]
    /\ store = <<>>
    /\ lost = {}

With(f, x, v) == [y \in DOMAIN f \cup {x} |-> IF y = x THEN v ELSE f[y]]
Without(f, x) == Restrict(f, DOMAIN f \ {x})

Becomes(c, now) == call' = [call EXCEPT ![c] = now]

-----------------------------------------------------------------------------
(***************************************************************************)
(* handleStartLogin: the primary realm has to answer ...                   *)
(***************************************************************************)

\* startLoginFor, when upstream issues state s.
startLoginFor(realm, s) ==
    /\ issued[s] = "none"
    /\ issued' = [issued EXCEPT ![s] = realm]
    /\ pending' = With(pending, s, LoginTTL)

StartLogin(c, primary, s) ==
    /\ call[c].step = "idle"
    /\ startLoginFor(primary, s)
    /\ Becomes(c, [Idle EXCEPT !.step = "secondary", !.realm = primary])
    /\ offered' = offered \cup {s}
    /\ UNCHANGED <<signed, owner, live, rotates, store, lost>>

otherRegion(realm) == IF realm = "global" THEN "cn" ELSE "global"

\* ... the other one may.
StartSecondary(c, s) ==
    /\ call[c].step = "secondary"
    /\ startLoginFor(otherRegion(call[c].realm), s)
    /\ Becomes(c, Idle)
    /\ UNCHANGED <<offered, signed, owner, live, rotates, store, lost>>

SecondaryFails(c) ==
    /\ call[c].step = "secondary"
    /\ Becomes(c, Idle)
    /\ UNCHANGED <<issued, offered, signed, owner, live, rotates, pending, store, lost>>

\* The user signs in with a browser (external).
SignIn(s, a) ==
    /\ issued[s] = RealmOf[a]
    /\ signed[s] = Nobody
    /\ signed' = [signed EXCEPT ![s] = a]
    /\ UNCHANGED <<issued, offered, owner, live, rotates, pending, call, store, lost>>

-----------------------------------------------------------------------------
(***************************************************************************)
(* handlePollLogin                                                         *)
(***************************************************************************)
StartPoll(c, s) ==
    /\ call[c].step = "idle"
    /\ s \in DOMAIN pending
    /\ pending[s] > 0
    /\ Becomes(c, [Idle EXCEPT !.step = "token", !.realm = issued[s], !.login = s])
    /\ UNCHANGED <<issued, offered, signed, owner, live, rotates, pending, store, lost>>

\* A regression: an expired login is refused, and kept.
PollExpiredKept(c, s) ==
    /\ call[c].step = "idle"
    /\ s \in DOMAIN pending
    /\ pending[s] = 0
    /\ UNCHANGED vars

\* An expired login is refused, and forgotten.
PollExpired(c, s) ==
    /\ call[c].step = "idle"
    /\ s \in DOMAIN pending
    /\ pending[s] = 0
    /\ pending' = Without(pending, s)
    /\ UNCHANGED <<issued, offered, signed, owner, live, rotates, call, store, lost>>

\* Upstream issues a pair of tokens, the next number.
Issue(n, a) ==
    /\ owner[n] = Nobody
    /\ \A k \in 1..(n - 1) : owner[k] # Nobody
    /\ owner' = [owner EXCEPT ![n] = a]

Granted(realm, n) == [realm |-> realm, access |-> n, refresh |-> n, uid |-> Nobody]

\* A regression: the logins share a cookie jar, and one is taken for another.
AskTokenSharedJar(c, n) ==
    /\ call[c].step = "token"
    /\ \E s \in LoginIds :
          /\ signed[s] # Nobody
          /\ Issue(n, signed[s])
    /\ live' = live \cup {n}
    /\ Becomes(c, [call[c] EXCEPT !.step = "account", !.cred = Granted(call[c].realm, n)])
    /\ UNCHANGED <<issued, offered, signed, rotates, pending, store, lost>>

\* Once the user has signed in, upstream hands out tokens for the state.
AskToken(c, n) ==
    /\ call[c].step = "token"
    /\ signed[call[c].login] # Nobody
    /\ Issue(n, signed[call[c].login])
    /\ live' = live \cup {n}
    /\ Becomes(c, [call[c] EXCEPT !.step = "account", !.cred = Granted(call[c].realm, n)])
    /\ UNCHANGED <<issued, offered, signed, rotates, pending, store, lost>>

\* Before that, or when the exchange fails, the login stays pending.
StillPending(c) ==
    /\ call[c].step = "token"
    /\ Becomes(c, Idle)
    /\ UNCHANGED <<issued, offered, signed, owner, live, rotates, pending, store, lost>>

\* The account's name is asked for, and done without if it cannot be had.
AskAccount(c) ==
    /\ call[c].step = "account"
    /\ \E uid \in {owner[call[c].cred.access], Nobody} :
          Becomes(c, [call[c] EXCEPT !.step = "success", !.cred.uid = uid])
    /\ UNCHANGED <<issued, offered, signed, owner, live, rotates, pending, store, lost>>

\* The host keeps what it is handed under the name it is given (external).
Save(cred) == store' = With(store, accountIdentity(cred), cred)

PollSucceeds(c) ==
    /\ call[c].step = "success"
    /\ pending' = Without(pending, call[c].login)
    /\ Save(call[c].cred)
    /\ Becomes(c, Idle)
    /\ UNCHANGED <<issued, offered, signed, owner, live, rotates, lost>>

-----------------------------------------------------------------------------
(***************************************************************************)
(* handleRefreshAuth                                                       *)
(***************************************************************************)
StartRefresh(c, f) ==
    /\ call[c].step = "idle"
    /\ f \in DOMAIN store
    /\ Becomes(c, [Idle EXCEPT !.step = "exchange", !.cred = store[f]])
    /\ UNCHANGED <<issued, offered, signed, owner, live, rotates, pending, store, lost>>

\* A regression: what the answer lacks is taken for what it says.
RefreshedBlindly(cred, n, rotated) ==
    [cred EXCEPT !.access = n, !.refresh = IF rotated THEN n ELSE 0]

\* A refresh token the answer lacks stays what it was.
Refreshed(cred, n, rotated) ==
    [cred EXCEPT !.access = n, !.refresh = IF rotated THEN n ELSE @]

\* Upstream honours a refresh token, and replaces it if it does so at all.
Spend(n, cred) ==
    /\ cred.refresh \in live
    /\ Issue(n, owner[cred.refresh])
    /\ live' = IF rotates THEN (live \ {cred.refresh}) \cup {n} ELSE live

Exchange(c, n) ==
    /\ call[c].step = "exchange"
    /\ Spend(n, call[c].cred)
    /\ Becomes(c, [call[c] EXCEPT !.step = "refreshed", !.cred = Refreshed(@, n, rotates)])
    /\ UNCHANGED <<issued, offered, signed, rotates, pending, store, lost>>

\* The answer gets lost, or is not understood.
AnswerLost(c, n) ==
    /\ call[c].step = "exchange"
    /\ Spend(n, call[c].cred)
    /\ lost' = IF rotates THEN lost \cup {call[c].cred.refresh} ELSE lost
    /\ Becomes(c, Idle)
    /\ UNCHANGED <<issued, offered, signed, rotates, pending, store>>

RefreshRejected(c) ==
    /\ call[c].step = "exchange"
    /\ Becomes(c, Idle)
    /\ UNCHANGED <<issued, offered, signed, owner, live, rotates, pending, store, lost>>

\* The balance is looked up (see Quota), and the credential handed back.
RefreshSucceeds(c) ==
    /\ call[c].step = "refreshed"
    /\ Save(call[c].cred)
    /\ Becomes(c, Idle)
    /\ UNCHANGED <<issued, offered, signed, owner, live, rotates, pending, lost>>

-----------------------------------------------------------------------------
Tick ==
    /\ pending' = [s \in DOMAIN pending |-> IF pending[s] > 0 THEN pending[s] - 1 ELSE 0]
    /\ UNCHANGED <<issued, offered, signed, owner, live, rotates, call, store, lost>>

\* A call that was begun goes on.
CallStep(c) ==
    \/ \E s \in LoginIds : StartSecondary(c, s)
    \/ SecondaryFails(c)
    \/ \E n \in Tokens : AskToken(c, n)
    \/ StillPending(c)
    \/ AskAccount(c)
    \/ PollSucceeds(c)
    \/ \E n \in Tokens : Exchange(c, n) \/ AnswerLost(c, n)
    \/ RefreshRejected(c)
    \/ RefreshSucceeds(c)

Poll(s) == \E c \in Callers : StartPoll(c, s) \/ PollExpired(c, s)

Next ==
    \/ \E c \in Callers : CallStep(c)
    \/ \E c \in Callers, realm \in Realms, s \in LoginIds : StartLogin(c, realm, s)
    \/ \E s \in LoginIds, a \in Accounts : SignIn(s, a)
    \/ \E s \in LoginIds : Poll(s)
    \/ \E c \in Callers, f \in Identities : StartRefresh(c, f)
    \/ Tick

Spec == Init /\ [][Next]_vars

(***************************************************************************)
(* Exchanges have a timeout, time passes, and the host polls the state it  *)
(* was given until it hears how the login ended.                           *)
(***************************************************************************)
FairSpec ==
    /\ Spec
    /\ WF_vars(Tick)
    /\ \A c \in Callers : WF_vars(CallStep(c))
    /\ \A s \in LoginIds : SF_vars(s \in offered /\ Poll(s))

-----------------------------------------------------------------------------
(***************************************************************************)
(* Properties                                                              *)
(***************************************************************************)

\* Concurrent logins, of either realm, and polls of the same login never get
\* into each other's way: what a poll hands over is the account that signed in
\* with that very state, in its realm (the comment of newLoginClient).
LoginsKeepApart ==
    \A c \in Callers :
        call[c].step \in {"account", "success"} =>
            /\ owner[call[c].cred.access] = signed[call[c].login]
            /\ call[c].cred.realm = RealmOf[signed[call[c].login]]

\* Nor does a stored credential ever mix accounts, however logins and refreshes
\* of several of them interleave: realm, uid and both tokens are of one.
CredentialsAreOfOne ==
    \A f \in DOMAIN store :
        LET cred == store[f]
            a == owner[cred.access]
        IN  /\ owner[cred.refresh] = a
            /\ cred.realm = RealmOf[a]
            /\ cred.uid \in {a, Nobody}

AccountsKeepApart == LoginsKeepApart /\ CredentialsAreOfOne

\* A credential is never left with a refresh token upstream no longer takes,
\* unless a refresh that replaces it is under way or its answer was lost --
\* provided the credential has a uid: without one its name, the hash of the
\* access token, changes with each refresh, and the old file stays behind.
NamedStaysUsable ==
    \A f \in DOMAIN store :
        LET cred == store[f]
        IN  cred.uid # Nobody =>
                \/ cred.refresh \in live \cup lost
                \/ \E c \in Callers : /\ call[c].step = "refreshed"
                                      /\ accountIdentity(call[c].cred) = f

\* A login ends, in a credential or in expiry, and leaves nothing behind: not
\* the state of the primary realm, that is.  Nobody polls the other one, and it
\* stays in loginStates.
PolledLoginEnds ==
    \A s \in LoginIds :
        s \in offered \cap DOMAIN pending ~> s \notin DOMAIN pending
=============================================================================
