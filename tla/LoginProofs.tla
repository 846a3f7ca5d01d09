----------------------------- MODULE LoginProofs -----------------------------
(***************************************************************************)
(* Proofs about logins and refreshes, for any number of accounts, states,  *)
(* callers and tokens: accounts are never mixed up, and credentials that   *)
(* have a uid stay usable.                                                 *)
(***************************************************************************)
EXTENDS Login, TLAPS

CallRecord == [step : Steps, realm : Realms, login : LoginIds,
               cred : Credential \cup {NoCredential}]

(***************************************************************************)
(* The invariant.  Upstream never takes an answer back: a state keeps its  *)
(* realm and the account that signed in with it, a token its owner.  What  *)
(* a call found out about them therefore stays true while it waits, and    *)
(* that is all a call relies on.                                           *)
(***************************************************************************)
\* The credential's tokens, realm and uid are those of one account, if tokens
\* belong to accounts as `own` says.
OfOne(cred, own) ==
    /\ cred \in Credential
    /\ own[cred.access] \in Accounts
    /\ own[cred.refresh] = own[cred.access]
    /\ cred.realm = RealmOf[own[cred.access]]
    /\ cred.uid \in {own[cred.access], Nobody}

\* What a call has to know, by the step it has reached, if upstream says iss,
\* sgn and own.
Knows(k, iss, sgn, own) ==
    /\ k.step = "token" => iss[k.login] = k.realm
    /\ k.step \in {"account", "success"} =>
          sgn[k.login] \in Accounts /\ own[k.cred.access] = sgn[k.login]
    /\ k.step \in {"account", "success", "exchange", "refreshed"} => OfOne(k.cred, own)

\* Who signed in did so in the state's realm.
UpstreamOK ==
    /\ issued \in [LoginIds -> Realms \cup {"none"}]
    /\ offered \subseteq LoginIds
    /\ signed \in [LoginIds -> Accounts \cup {Nobody}]
    /\ owner \in [Tokens -> Accounts \cup {Nobody}]
    /\ live \subseteq Tokens
    /\ rotates \in BOOLEAN
    /\ lost \subseteq Tokens
    /\ \A s \in LoginIds : signed[s] # Nobody => issued[s] = RealmOf[signed[s]]

\* Only states upstream issued are waited for.
PendingOK ==
    /\ DOMAIN pending \subseteq LoginIds
    /\ \A s \in DOMAIN pending : pending[s] \in 0..LoginTTL /\ issued[s] \in Realms

CallsOK ==
    /\ call \in [Callers -> CallRecord]
    /\ \A c \in Callers : Knows(call[c], issued, signed, owner)

StoreOK ==
    /\ DOMAIN store \subseteq Identities
    /\ \A f \in DOMAIN store : accountIdentity(store[f]) = f /\ OfOne(store[f], owner)

IInv == UpstreamOK /\ PendingOK /\ CallsOK /\ StoreOK

\* What upstream said once it goes on saying.
Grows ==
    /\ \A s \in LoginIds : issued[s] # "none" => issued'[s] = issued[s]
    /\ \A s \in LoginIds : signed[s] # Nobody => signed'[s] = signed[s]
    /\ \A n \in Tokens : owner[n] # Nobody => owner'[n] = owner[n]

-----------------------------------------------------------------------------
(***************************************************************************)
(* What holds on while upstream keeps its word                             *)
(***************************************************************************)
LEMMA CredentialStays ==
    ASSUME Grows, NEW cred, OfOne(cred, owner)
    PROVE  OfOne(cred, owner')
<1>1. cred.access \in Tokens /\ cred.refresh \in Tokens
  BY DEF OfOne, Credential
<1>2. owner[cred.access] # Nobody /\ owner[cred.refresh] # Nobody
  BY LoginAssumption DEF OfOne
<1>3. /\ owner'[cred.access] = owner[cred.access]
      /\ owner'[cred.refresh] = owner[cred.refresh]
  BY <1>1, <1>2 DEF Grows
<1> QED
  BY <1>3 DEF OfOne

LEMMA CallStays ==
    ASSUME Grows, NEW k \in CallRecord, Knows(k, issued, signed, owner)
    PROVE  Knows(k, issued', signed', owner')
<1>0. k.login \in LoginIds /\ k.realm \in Realms
  BY DEF CallRecord
<1>1. k.step = "token" => issued'[k.login] = k.realm
  BY <1>0 DEF Knows, Grows, Realms
<1>2. ASSUME k.step \in {"account", "success"}
      PROVE  /\ signed'[k.login] \in Accounts
             /\ owner'[k.cred.access] = signed'[k.login]
  <2>1. /\ signed[k.login] \in Accounts /\ owner[k.cred.access] = signed[k.login]
        /\ OfOne(k.cred, owner)
    BY <1>2 DEF Knows
  <2>2. k.cred.access \in Tokens /\ signed[k.login] # Nobody
    BY <2>1, LoginAssumption DEF OfOne, Credential
  <2> QED
    BY <1>0, <2>1, <2>2 DEF Grows
<1>3. ASSUME k.step \in {"account", "success", "exchange", "refreshed"}
      PROVE  OfOne(k.cred, owner')
  BY <1>3, CredentialStays DEF Knows
<1> QED
  BY <1>1, <1>2, <1>3 DEF Knows

LEMMA CallsStay ==
    ASSUME CallsOK, Grows, UNCHANGED call
    PROVE  CallsOK'
  BY CallStays DEF CallsOK

\* A caller that moves on to what it may know leaves all calls well.
LEMMA Becoming ==
    ASSUME CallsOK, Grows, NEW c \in Callers, NEW k \in CallRecord, Becomes(c, k),
           Knows(k, issued', signed', owner')
    PROVE  CallsOK'
<1>1. ASSUME NEW d \in Callers, d # c
      PROVE  Knows(call[d], issued', signed', owner')
  BY <1>1, CallStays DEF CallsOK
<1> QED
  BY <1>1 DEF CallsOK, Becomes

LEMMA IdleOK ==
    ASSUME NEW iss, NEW sgn, NEW own
    PROVE  Idle \in CallRecord /\ Idle.step = "idle" /\ Knows(Idle, iss, sgn, own)
<1>1. (CHOOSE s \in LoginIds : TRUE) \in LoginIds
  BY LoginAssumption
<1> QED
  BY <1>1 DEF Idle, CallRecord, Knows, Steps, Realms

LEMMA StoreStays ==
    ASSUME StoreOK, Grows, UNCHANGED store
    PROVE  StoreOK'
  BY CredentialStays DEF StoreOK

\* The host keeps credentials under their own names.
LEMMA Saving ==
    ASSUME StoreOK, Grows, NEW cred, OfOne(cred, owner'), Save(cred)
    PROVE  StoreOK'
<1>1. accountIdentity(cred) \in Identities
  BY DEF OfOne, Credential, accountIdentity, Identities
<1>2. ASSUME NEW f \in DOMAIN store'
      PROVE  accountIdentity(store'[f]) = f /\ OfOne(store'[f], owner')
  <2>1. CASE f = accountIdentity(cred)
    BY <2>1 DEF Save, With
  <2>2. CASE f # accountIdentity(cred)
    <3>1. f \in DOMAIN store /\ store'[f] = store[f]
      BY <2>2 DEF Save, With
    <3> QED
      BY <3>1, CredentialStays DEF StoreOK
  <2> QED
    BY <2>1, <2>2
<1>3. DOMAIN store' \subseteq Identities
  BY <1>1 DEF Save, With, StoreOK
<1> QED
  BY <1>2, <1>3 DEF StoreOK, accountIdentity

LEMMA PendingStays ==
    ASSUME PendingOK, Grows, UNCHANGED pending
    PROVE  PendingOK'
  BY DEF PendingOK, Grows, Realms

LEMMA Removing ==
    ASSUME PendingOK, Grows, NEW s, pending' = Without(pending, s)
    PROVE  PendingOK'
  BY DEF PendingOK, Grows, Realms, Without, Restrict

LEMMA IssueGrows ==
    ASSUME UpstreamOK, NEW n \in Tokens, NEW a \in Accounts, Issue(n, a)
    PROVE  /\ owner' \in [Tokens -> Accounts \cup {Nobody}]
           /\ \A k \in Tokens : owner[k] # Nobody => owner'[k] = owner[k]
           /\ owner'[n] = a
  BY DEF Issue, UpstreamOK

\* The frame of the steps that leave upstream alone.
LEMMA Same ==
    ASSUME UpstreamOK, UNCHANGED <<issued, offered, signed, owner, live, rotates, lost>>
    PROVE  UpstreamOK' /\ Grows
  BY DEF UpstreamOK, Grows

\* A caller that gives up, or is done, leaves all calls well.
LEMMA GoingIdle ==
    ASSUME CallsOK, Grows, NEW c \in Callers, Becomes(c, Idle)
    PROVE  CallsOK'
  BY IdleOK, Becoming

\* States are issued to a login once, and it waits for them.
LEMMA Starting ==
    ASSUME UpstreamOK, PendingOK, NEW realm \in Realms, NEW s \in LoginIds,
           startLoginFor(realm, s), offered' \subseteq LoginIds,
           UNCHANGED <<signed, owner, live, rotates, lost>>
    PROVE  UpstreamOK' /\ PendingOK' /\ Grows
<1>1. issued[s] = "none" /\ issued' = [issued EXCEPT ![s] = realm]
  BY DEF startLoginFor
<1>2. Grows
  BY <1>1 DEF Grows, UpstreamOK
<1>3. signed[s] = Nobody
  BY <1>1, LoginAssumption DEF UpstreamOK, Realms
<1>4. UpstreamOK'
  BY <1>1, <1>3 DEF UpstreamOK
<1>5. PendingOK'
  <2>1. pending' = [x \in DOMAIN pending \cup {s} |-> IF x = s THEN LoginTTL ELSE pending[x]]
    BY DEF startLoginFor, With
  <2>2. LoginTTL \in 0..LoginTTL
    BY LoginAssumption
  <2>3. issued'[s] = realm
    BY <1>1 DEF UpstreamOK
  <2>4. ASSUME NEW x \in DOMAIN pending
        PROVE  issued'[x] \in Realms
    BY <1>2 DEF Grows, PendingOK, Realms
  <2> QED
    BY <2>1, <2>2, <2>3, <2>4 DEF PendingOK
<1> QED
  BY <1>2, <1>4, <1>5

-----------------------------------------------------------------------------
(***************************************************************************)
(* One lemma for the steps of a caller, by what it is doing                *)
(***************************************************************************)
\* A pair of tokens goes to whom the state or the refresh token belongs to.
LEMMA Granting ==
    ASSUME UpstreamOK, NEW n \in Tokens, NEW a \in Accounts, Issue(n, a),
           live' \subseteq Tokens, lost' \subseteq Tokens,
           UNCHANGED <<issued, offered, signed, rotates>>
    PROVE  UpstreamOK' /\ Grows /\ owner'[n] = a
  BY IssueGrows DEF UpstreamOK, Grows

LEMMA LoginStep ==
    ASSUME IInv, NEW c \in Callers,
           \/ \E s \in LoginIds : StartSecondary(c, s) \/ StartPoll(c, s)
           \/ \E s \in LoginIds, realm \in Realms : StartLogin(c, realm, s)
           \/ SecondaryFails(c)
           \/ \E s \in LoginIds : PollExpired(c, s)
           \/ StillPending(c)
    PROVE  IInv'
<1>0. call[c] \in CallRecord /\ call[c].realm \in Realms
  BY DEF IInv, CallsOK, CallRecord
<1>1. ASSUME NEW s \in LoginIds, NEW realm \in Realms, StartLogin(c, realm, s)
      PROVE  IInv'
  <2> DEFINE k == [Idle EXCEPT !.step = "secondary", !.realm = realm]
  <2>1. UpstreamOK' /\ PendingOK' /\ Grows
    BY <1>1, Starting DEF StartLogin, IInv, UpstreamOK
  <2>2. k \in CallRecord /\ k.step = "secondary"
    BY IdleOK DEF CallRecord, Steps
  <2>3. Knows(k, issued', signed', owner')
    BY <2>2 DEF Knows
  <2>4. Becomes(c, k)
    BY <1>1 DEF StartLogin
  <2> HIDE DEF k
  <2>5. CallsOK'
    BY <2>1, <2>2, <2>3, <2>4, Becoming DEF IInv
  <2> QED
    BY <1>1, <2>1, <2>5, StoreStays DEF IInv, StartLogin
<1>2. ASSUME NEW s \in LoginIds, StartSecondary(c, s)
      PROVE  IInv'
  <2>1. otherRegion(call[c].realm) \in Realms
    BY DEF otherRegion, Realms
  <2>2. UpstreamOK' /\ PendingOK' /\ Grows
    BY <1>2, <2>1, Starting DEF StartSecondary, IInv, UpstreamOK
  <2>3. CallsOK'
    BY <1>2, <2>2, GoingIdle DEF StartSecondary, IInv
  <2> QED
    BY <1>2, <2>2, <2>3, StoreStays DEF IInv, StartSecondary
<1>3. ASSUME SecondaryFails(c) \/ StillPending(c)
      PROVE  IInv'
  <2>1. UpstreamOK' /\ Grows
    BY <1>3, Same DEF IInv, SecondaryFails, StillPending
  <2>2. CallsOK'
    BY <1>3, <2>1, GoingIdle DEF IInv, SecondaryFails, StillPending
  <2> QED
    BY <1>3, <2>1, <2>2, StoreStays, PendingStays DEF IInv, SecondaryFails, StillPending
<1>4. ASSUME NEW s \in LoginIds, StartPoll(c, s)
      PROVE  IInv'
  <2> DEFINE k == [Idle EXCEPT !.step = "token", !.realm = issued[s], !.login = s]
  <2>1. UpstreamOK' /\ Grows /\ issued' = issued
    BY <1>4, Same DEF IInv, StartPoll
  <2>2. issued[s] \in Realms
    BY <1>4 DEF IInv, PendingOK, StartPoll
  <2>3. k \in CallRecord /\ k.step = "token" /\ k.realm = issued[s] /\ k.login = s
    BY <2>2, IdleOK DEF CallRecord, Steps
  <2>4. Knows(k, issued', signed', owner')
    BY <2>1, <2>3 DEF Knows
  <2>5. Becomes(c, k)
    BY <1>4 DEF StartPoll
  <2> HIDE DEF k
  <2>6. CallsOK'
    BY <2>1, <2>3, <2>4, <2>5, Becoming DEF IInv
  <2> QED
    BY <1>4, <2>1, <2>6, StoreStays, PendingStays DEF IInv, StartPoll
<1>5. ASSUME NEW s \in LoginIds, PollExpired(c, s)
      PROVE  IInv'
  <2>1. UpstreamOK' /\ Grows
    BY <1>5, Same DEF IInv, PollExpired
  <2> QED
    BY <1>5, <2>1, StoreStays, CallsStay, Removing DEF IInv, PollExpired
<1> QED
  BY <1>1, <1>2, <1>3, <1>4, <1>5

LEMMA CompletionStep ==
    ASSUME IInv, NEW c \in Callers,
           \/ \E n \in Tokens : AskToken(c, n)
           \/ AskAccount(c)
           \/ PollSucceeds(c)
    PROVE  IInv'
<1>0. /\ call[c] \in CallRecord /\ call[c].realm \in Realms /\ call[c].login \in LoginIds
      /\ Knows(call[c], issued, signed, owner)
  BY DEF IInv, CallsOK, CallRecord
<1>1. ASSUME NEW n \in Tokens, AskToken(c, n)
      PROVE  IInv'
  <2> DEFINE a == signed[call[c].login]
             cred == Granted(call[c].realm, n)
             k == [call[c] EXCEPT !.step = "account", !.cred = cred]
  <2>1. a \in Accounts /\ Issue(n, a) /\ issued[call[c].login] = RealmOf[a]
    BY <1>0, <1>1 DEF AskToken, IInv, UpstreamOK
  <2>2. call[c].realm = RealmOf[a]
    BY <1>0, <1>1, <2>1 DEF Knows, AskToken
  <2>3. UpstreamOK' /\ Grows /\ owner'[n] = a
    BY <1>1, <2>1, Granting DEF AskToken, IInv, UpstreamOK
  <2>4. cred \in Credential
    BY <1>0 DEF Granted, Credential
  <2>5. OfOne(cred, owner')
    BY <2>1, <2>2, <2>3, <2>4 DEF OfOne, Granted
  <2>6. /\ k \in CallRecord /\ k.step = "account" /\ k.cred = cred
        /\ k.login = call[c].login /\ cred.access = n
    BY <1>0, <2>4 DEF CallRecord, Steps, Granted
  <2>7. signed' = signed /\ Becomes(c, k)
    BY <1>1 DEF AskToken
  <2>8. Knows(k, issued', signed', owner')
    BY <2>1, <2>3, <2>5, <2>6, <2>7 DEF Knows
  <2> HIDE DEF k
  <2>9. CallsOK'
    BY <2>3, <2>6, <2>7, <2>8, Becoming DEF IInv
  <2> QED
    BY <1>1, <2>3, <2>9, StoreStays, PendingStays DEF IInv, AskToken
<1>2. ASSUME AskAccount(c)
      PROVE  IInv'
  <2>1. UpstreamOK' /\ Grows /\ UNCHANGED <<issued, signed, owner>>
    BY <1>2, Same DEF IInv, AskAccount
  <2>2. PICK uid \in {owner[call[c].cred.access], Nobody} :
            Becomes(c, [call[c] EXCEPT !.step = "success", !.cred.uid = uid])
    BY <1>2 DEF AskAccount
  <2> DEFINE old == call[c].cred
             cred == [old EXCEPT !.uid = uid]
             k == [call[c] EXCEPT !.step = "success", !.cred.uid = uid]
  <2>3. /\ OfOne(old, owner) /\ signed[call[c].login] \in Accounts
        /\ owner[old.access] = signed[call[c].login]
    BY <1>0, <1>2 DEF AskAccount, Knows
  <2>4. /\ cred \in Credential /\ cred.access = old.access /\ cred.refresh = old.refresh
        /\ cred.realm = old.realm /\ cred.uid = uid
    BY <2>3 DEF OfOne, Credential
  <2>5. OfOne(cred, owner)
    BY <2>3, <2>4 DEF OfOne
  <2>6. /\ k \in CallRecord /\ k.step = "success" /\ k.cred = cred
        /\ k.login = call[c].login
    BY <1>0, <2>4 DEF CallRecord, Steps
  <2>7. Knows(k, issued', signed', owner')
    BY <2>1, <2>3, <2>4, <2>5, <2>6 DEF Knows
  <2> HIDE DEF k
  <2>8. CallsOK'
    BY <2>1, <2>2, <2>6, <2>7, Becoming DEF IInv, k
  <2> QED
    BY <1>2, <2>1, <2>8, StoreStays, PendingStays DEF IInv, AskAccount
<1>3. ASSUME PollSucceeds(c)
      PROVE  IInv'
  <2>1. UpstreamOK' /\ Grows /\ owner' = owner
    BY <1>3, Same DEF IInv, PollSucceeds
  <2>2. OfOne(call[c].cred, owner')
    BY <1>0, <1>3, <2>1 DEF PollSucceeds, Knows
  <2>3. StoreOK'
    BY <1>3, <2>1, <2>2, Saving DEF IInv, PollSucceeds
  <2> QED
    BY <1>3, <2>1, <2>3, GoingIdle, Removing DEF IInv, PollSucceeds
<1> QED
  BY <1>1, <1>2, <1>3

LEMMA RefreshStep ==
    ASSUME IInv, NEW c \in Callers,
           \/ \E f \in Identities : StartRefresh(c, f)
           \/ \E n \in Tokens : Exchange(c, n) \/ AnswerLost(c, n)
           \/ RefreshRejected(c)
           \/ RefreshSucceeds(c)
    PROVE  IInv'
<1>0. call[c] \in CallRecord /\ Knows(call[c], issued, signed, owner)
  BY DEF IInv, CallsOK
<1>1. ASSUME NEW f \in Identities, StartRefresh(c, f)
      PROVE  IInv'
  <2> DEFINE k == [Idle EXCEPT !.step = "exchange", !.cred = store[f]]
  <2>1. UpstreamOK' /\ Grows /\ UNCHANGED <<issued, signed, owner>>
    BY <1>1, Same DEF IInv, StartRefresh
  <2>2. OfOne(store[f], owner) /\ store[f] \in Credential
    BY <1>1 DEF IInv, StoreOK, StartRefresh, OfOne
  <2>3. k \in CallRecord /\ k.step = "exchange" /\ k.cred = store[f]
    BY <2>2, IdleOK DEF CallRecord, Steps
  <2>4. Knows(k, issued', signed', owner') /\ Becomes(c, k)
    BY <1>1, <2>1, <2>2, <2>3 DEF Knows, StartRefresh
  <2> HIDE DEF k
  <2>5. CallsOK'
    BY <2>1, <2>3, <2>4, Becoming DEF IInv
  <2> QED
    BY <1>1, <2>1, <2>5, StoreStays, PendingStays DEF IInv, StartRefresh
<1>2. ASSUME NEW n \in Tokens, Spend(n, call[c].cred), call[c].step = "exchange",
             lost' \subseteq Tokens, UNCHANGED <<issued, offered, signed, rotates>>
      PROVE  /\ UpstreamOK' /\ Grows /\ OfOne(call[c].cred, owner)
             /\ owner'[n] = owner[call[c].cred.access]
  <2>1. OfOne(call[c].cred, owner)
    BY <1>0, <1>2 DEF Knows
  <2>2. owner[call[c].cred.refresh] \in Accounts
    BY <2>1 DEF OfOne
  <2>3. live' \subseteq Tokens
    BY <1>2 DEF Spend, IInv, UpstreamOK
  <2>4. UpstreamOK' /\ Grows /\ owner'[n] = owner[call[c].cred.refresh]
    BY <1>2, <2>2, <2>3, Granting DEF Spend, IInv
  <2> QED
    BY <2>1, <2>4 DEF OfOne
<1>3. ASSUME NEW n \in Tokens, Exchange(c, n)
      PROVE  IInv'
  <2> DEFINE old == call[c].cred
             cred == Refreshed(old, n, rotates)
             k == [call[c] EXCEPT !.step = "refreshed", !.cred = cred]
  <2>1. /\ UpstreamOK' /\ Grows /\ OfOne(old, owner) /\ owner'[n] = owner[old.access]
    BY <1>2, <1>3 DEF Exchange, IInv, UpstreamOK
  <2>2. OfOne(old, owner')
    BY <2>1, CredentialStays
  <2>3. /\ cred \in Credential /\ cred.access = n /\ cred.refresh \in {n, old.refresh}
        /\ cred.realm = old.realm /\ cred.uid = old.uid
    BY <2>1 DEF OfOne, Credential, Refreshed
  <2>4. old.access \in Tokens /\ owner'[old.access] = owner[old.access]
    BY <2>1, LoginAssumption DEF OfOne, Credential, Grows
  <2>5. OfOne(cred, owner')
    BY <2>1, <2>2, <2>3, <2>4 DEF OfOne
  <2>6. k \in CallRecord /\ k.step = "refreshed" /\ k.cred = cred
    BY <1>0, <2>3 DEF CallRecord, Steps
  <2>7. Knows(k, issued', signed', owner')
    BY <2>5, <2>6 DEF Knows
  <2>8. Becomes(c, k)
    BY <1>3 DEF Exchange
  <2> HIDE DEF k
  <2>9. CallsOK'
    BY <2>1, <2>6, <2>7, <2>8, Becoming DEF IInv
  <2> QED
    BY <1>3, <2>1, <2>9, StoreStays, PendingStays DEF IInv, Exchange
<1>4. ASSUME NEW n \in Tokens, AnswerLost(c, n)
      PROVE  IInv'
  <2>1. call[c].cred.refresh \in Tokens
    BY <1>0, <1>4 DEF AnswerLost, Knows, OfOne, Credential
  <2>2. lost' \subseteq Tokens
    BY <1>4, <2>1 DEF AnswerLost, IInv, UpstreamOK
  <2>3. UpstreamOK' /\ Grows
    BY <1>2, <1>4, <2>2 DEF AnswerLost
  <2>4. CallsOK'
    BY <1>4, <2>3, GoingIdle DEF AnswerLost, IInv
  <2> QED
    BY <1>4, <2>3, <2>4, StoreStays, PendingStays DEF IInv, AnswerLost
<1>5. ASSUME RefreshRejected(c)
      PROVE  IInv'
  <2>1. UpstreamOK' /\ Grows
    BY <1>5, Same DEF IInv, RefreshRejected
  <2>2. CallsOK'
    BY <1>5, <2>1, GoingIdle DEF IInv, RefreshRejected
  <2> QED
    BY <1>5, <2>1, <2>2, StoreStays, PendingStays DEF IInv, RefreshRejected
<1>6. ASSUME RefreshSucceeds(c)
      PROVE  IInv'
  <2>1. UpstreamOK' /\ Grows /\ owner' = owner
    BY <1>6, Same DEF IInv, RefreshSucceeds
  <2>2. OfOne(call[c].cred, owner')
    BY <1>0, <1>6, <2>1 DEF RefreshSucceeds, Knows
  <2>3. StoreOK' /\ CallsOK'
    BY <1>6, <2>1, <2>2, Saving, GoingIdle DEF IInv, RefreshSucceeds
  <2> QED
    BY <1>6, <2>1, <2>3, PendingStays DEF IInv, RefreshSucceeds
<1> QED
  BY <1>1, <1>3, <1>4, <1>5, <1>6

LEMMA OutsideStep ==
    ASSUME IInv, \/ \E s \in LoginIds, a \in Accounts : SignIn(s, a)
                 \/ Tick
                 \/ UNCHANGED vars
    PROVE  IInv'
<1>1. ASSUME NEW s \in LoginIds, NEW a \in Accounts, SignIn(s, a)
      PROVE  IInv'
  <2>1. Grows
    BY <1>1 DEF SignIn, Grows
  <2>2. UpstreamOK'
    BY <1>1 DEF SignIn, IInv, UpstreamOK
  <2> QED
    BY <1>1, <2>1, <2>2, CallsStay, StoreStays, PendingStays DEF IInv, SignIn
<1>2. ASSUME Tick
      PROVE  IInv'
  <2>1. UpstreamOK' /\ Grows /\ issued' = issued
    BY <1>2, Same DEF IInv, Tick
  <2>2. ASSUME NEW s \in DOMAIN pending
        PROVE  (IF pending[s] > 0 THEN pending[s] - 1 ELSE 0) \in 0..LoginTTL
    BY LoginAssumption DEF IInv, PendingOK
  <2>3. PendingOK'
    BY <1>2, <2>1, <2>2 DEF IInv, PendingOK, Tick
  <2> QED
    BY <1>2, <2>1, <2>3, CallsStay, StoreStays DEF IInv, Tick
<1>3. ASSUME UNCHANGED vars
      PROVE  IInv'
  <2>1. UpstreamOK' /\ Grows
    BY <1>3, Same DEF IInv, vars
  <2> QED
    BY <1>3, <2>1, CallsStay, StoreStays, PendingStays DEF IInv, vars
<1> QED
  BY <1>1, <1>2, <1>3

-----------------------------------------------------------------------------
LEMMA Initially == Init => IInv
<1> SUFFICES ASSUME Init
             PROVE  IInv
  OBVIOUS
<1>1. UpstreamOK
  BY DEF Init, UpstreamOK
<1>2. DOMAIN pending = {} /\ DOMAIN store = {}
  BY DEF Init
<1>3. CallsOK
  BY IdleOK DEF Init, CallsOK
<1> QED
  BY <1>1, <1>2, <1>3 DEF IInv, PendingOK, StoreOK

LEMMA Invariant == Spec => []IInv
<1>1. IInv /\ [Next]_vars => IInv'
  BY LoginStep, CompletionStep, RefreshStep, OutsideStep DEF Next, CallStep, Poll
<1> QED
  BY <1>1, Initially, PTL DEF Spec

\* Every variable keeps its type; in particular a stored credential is complete
\* and filed under its own name.
THEOREM TypeCorrect == Spec => []TypeOK
<1>1. IInv => TypeOK
  BY DEF IInv, UpstreamOK, PendingOK, CallsOK, StoreOK, OfOne, TypeOK, CallRecord
<1> QED
  BY <1>1, Invariant, PTL

\* Logins and refreshes of any number of accounts never mix them up: a poll
\* hands over the account that signed in with its state, and the realm, the uid
\* and both tokens of a stored credential are of one account.
THEOREM AccountsApart == Spec => []AccountsKeepApart
<1>1. ASSUME IInv
      PROVE  LoginsKeepApart
  BY <1>1 DEF IInv, CallsOK, Knows, OfOne, LoginsKeepApart
<1>2. ASSUME IInv
      PROVE  CredentialsAreOfOne
  BY <1>2 DEF IInv, StoreOK, OfOne, CredentialsAreOfOne
<1> QED
  BY <1>1, <1>2, Invariant, PTL DEF AccountsKeepApart

-----------------------------------------------------------------------------
(***************************************************************************)
(* Why a credential with a uid stays usable.  If refreshing leaves the     *)
(* refresh token alone, every token anybody holds is honoured forever.  If *)
(* it replaces it, then a token that has just been handed out is in one    *)
(* hand only, and in one file once it is stored; so who spends a token of  *)
(* a file brings the replacement back to the same file.                    *)
(***************************************************************************)
\* Calls that hold a credential, and those whose credential is not stored yet.
Holding == {"account", "success", "exchange", "refreshed"}
Fresh == {"account", "success", "refreshed"}

AllLive ==
    /\ \A c \in Callers : call[c].step \in Holding => call[c].cred.refresh \in live
    /\ \A f \in DOMAIN store : store[f].refresh \in live

\* A token that is not stored yet is honoured, and in one hand.
Sole ==
    \A c \in Callers : call[c].step \in Fresh =>
        /\ call[c].cred.refresh \in live
        /\ \A d \in Callers \ {c} :
              call[d].step \in Holding => call[d].cred.refresh # call[c].cred.refresh
        /\ \A f \in DOMAIN store : store[f].refresh # call[c].cred.refresh

\* No two files hold the same token, and a refresh under way knows the uid of
\* the file whose token it spends.
OneFile ==
    \A f, g \in DOMAIN store : store[f].refresh = store[g].refresh => f = g

SameName ==
    \A c \in Callers, f \in DOMAIN store :
        /\ call[c].step = "exchange"
        /\ call[c].cred.refresh = store[f].refresh
        => call[c].cred.uid = store[f].uid

UInv ==
    /\ ~rotates => AllLive
    /\ rotates => Sole /\ OneFile /\ SameName
    /\ NamedStaysUsable

\* Who holds what, after a caller has moved on.
LEMMA Moved ==
    ASSUME CallsOK, NEW c \in Callers, NEW k, Becomes(c, k)
    PROVE  call'[c] = k /\ \A d \in Callers \ {c} : call'[d] = call[d]
  BY DEF CallsOK, Becomes

\* A token that is just being handed out is in nobody's hand.
LEMMA Unheld ==
    ASSUME IInv, NEW n \in Tokens, owner[n] = Nobody
    PROVE  /\ \A c \in Callers : call[c].step \in Holding => call[c].cred.refresh # n
           /\ \A f \in DOMAIN store : store[f].refresh # n
<1>1. ASSUME NEW cred, OfOne(cred, owner)
      PROVE  cred.refresh # n
  BY <1>1, LoginAssumption DEF OfOne
<1> QED
  BY <1>1 DEF IInv, CallsOK, StoreOK, Knows, Holding

\* Steps that touch neither hands, files nor tokens.
LEMMA Untouched ==
    ASSUME UInv, UNCHANGED <<live, lost, rotates, call, store>>
    PROVE  UInv'
  BY DEF UInv, AllLive, Sole, OneFile, SameName, NamedStaysUsable

\* A caller that has nothing in hand, or drops what is in a file anyway.
LEMMA Released ==
    ASSUME UInv, CallsOK, NEW c \in Callers, NEW k, Becomes(c, k),
           k.step \notin Holding, call[c].step # "refreshed",
           UNCHANGED <<live, lost, rotates, store>>
    PROVE  UInv'
<1>1. call'[c] = k /\ \A d \in Callers \ {c} : call'[d] = call[d]
  BY Moved
<1>2. ~rotates => AllLive'
  BY <1>1 DEF UInv, AllLive
<1>3. rotates => Sole'
  BY <1>1 DEF UInv, Sole, Holding, Fresh
<1>4. rotates => OneFile' /\ SameName'
  BY <1>1 DEF UInv, OneFile, SameName, Holding
<1>5. NamedStaysUsable'
  BY <1>1 DEF UInv, NamedStaysUsable
<1> QED
  BY <1>2, <1>3, <1>4, <1>5 DEF UInv

LEMMA AskAccountKeeps ==
    ASSUME UInv, IInv, NEW c \in Callers, AskAccount(c)
    PROVE  UInv'
<1>1. PICK uid \in {owner[call[c].cred.access], Nobody} :
          Becomes(c, [call[c] EXCEPT !.step = "success", !.cred.uid = uid])
  BY DEF AskAccount
<1> DEFINE k == [call[c] EXCEPT !.step = "success", !.cred.uid = uid]
<1>2. /\ call[c] \in CallRecord /\ call[c].step = "account"
      /\ call[c].cred \in Credential
  BY DEF IInv, CallsOK, AskAccount, Knows, OfOne
<1>3. k.step = "success" /\ k.cred.refresh = call[c].cred.refresh
  BY <1>2 DEF CallRecord, Credential
<1> HIDE DEF k
<1>4. call'[c] = k /\ \A d \in Callers \ {c} : call'[d] = call[d]
  BY <1>1, Moved DEF IInv, k
<1>5. UNCHANGED <<live, lost, rotates, store>>
  BY DEF AskAccount
<1>6. ~rotates => AllLive'
  BY <1>2, <1>3, <1>4, <1>5 DEF UInv, AllLive, Holding
<1>7. rotates => Sole'
  BY <1>2, <1>3, <1>4, <1>5 DEF UInv, Sole, Holding, Fresh
<1>8. rotates => OneFile' /\ SameName'
  BY <1>3, <1>4, <1>5 DEF UInv, OneFile, SameName
<1>9. NamedStaysUsable'
  BY <1>2, <1>4, <1>5 DEF UInv, NamedStaysUsable
<1> QED
  BY <1>5, <1>6, <1>7, <1>8, <1>9 DEF UInv

LEMMA AskTokenKeeps ==
    ASSUME UInv, IInv, NEW c \in Callers, NEW n \in Tokens, AskToken(c, n)
    PROVE  UInv'
<1> DEFINE k == [call[c] EXCEPT !.step = "account", !.cred = Granted(call[c].realm, n)]
<1>1. call[c] \in CallRecord /\ call[c].step = "token"
  BY DEF IInv, CallsOK, AskToken
<1>2. k.step = "account" /\ k.cred.refresh = n
  BY <1>1 DEF CallRecord, Granted
<1>3. Becomes(c, k)
  BY DEF AskToken
<1> HIDE DEF k
<1>4. call'[c] = k /\ \A d \in Callers \ {c} : call'[d] = call[d]
  BY <1>3, Moved DEF IInv
<1>5. live' = live \cup {n} /\ UNCHANGED <<lost, rotates, store>>
  BY DEF AskToken
<1>6. /\ \A d \in Callers : call[d].step \in Holding => call[d].cred.refresh # n
      /\ \A f \in DOMAIN store : store[f].refresh # n
  BY Unheld DEF AskToken, Issue
<1>7. ~rotates => AllLive'
  BY <1>2, <1>4, <1>5 DEF UInv, AllLive, Holding
<1>8. rotates => Sole'
  BY <1>2, <1>4, <1>5, <1>6 DEF UInv, Sole, Holding, Fresh
<1>9. rotates => OneFile' /\ SameName'
  BY <1>2, <1>4, <1>5 DEF UInv, OneFile, SameName
<1>10. NamedStaysUsable'
  BY <1>1, <1>4, <1>5 DEF UInv, NamedStaysUsable
<1> QED
  BY <1>5, <1>7, <1>8, <1>9, <1>10 DEF UInv

LEMMA StartRefreshKeeps ==
    ASSUME UInv, IInv, NEW c \in Callers, NEW f \in Identities, StartRefresh(c, f)
    PROVE  UInv'
<1> DEFINE k == [Idle EXCEPT !.step = "exchange", !.cred = store[f]]
<1>1. f \in DOMAIN store /\ call[c].step = "idle"
  BY DEF StartRefresh
<1>2. k.step = "exchange" /\ k.cred = store[f]
  BY IdleOK DEF CallRecord
<1>3. Becomes(c, k)
  BY DEF StartRefresh
<1> HIDE DEF k
<1>4. call'[c] = k /\ \A d \in Callers \ {c} : call'[d] = call[d]
  BY <1>3, Moved DEF IInv
<1>5. UNCHANGED <<live, lost, rotates, store>>
  BY DEF StartRefresh
<1>6. ~rotates => AllLive'
  BY <1>1, <1>2, <1>4, <1>5 DEF UInv, AllLive
<1>7. rotates => Sole'
  BY <1>1, <1>2, <1>4, <1>5 DEF UInv, Sole, Fresh
<1>8. rotates => OneFile' /\ SameName'
  <2> SUFFICES ASSUME rotates
               PROVE  OneFile' /\ SameName'
    OBVIOUS
  <2>1. OneFile'
    BY <1>5 DEF UInv, OneFile
  <2>2. ASSUME NEW g \in DOMAIN store, store[g].refresh = store[f].refresh
        PROVE  g = f
    BY <1>1, <2>2 DEF UInv, OneFile
  <2>3. SameName'
    BY <1>2, <1>4, <1>5, <2>2 DEF UInv, SameName
  <2> QED
    BY <2>1, <2>3
<1>9. NamedStaysUsable'
  BY <1>1, <1>4, <1>5 DEF UInv, NamedStaysUsable
<1> QED
  BY <1>5, <1>6, <1>7, <1>8, <1>9 DEF UInv

\* With rotation the token that was spent is gone; the only file it was in is
\* the one its replacement is on the way to.
LEMMA ExchangeKeeps ==
    ASSUME UInv, IInv, NEW c \in Callers, NEW n \in Tokens, Exchange(c, n)
    PROVE  UInv'
<1> DEFINE old == call[c].cred
           cred == Refreshed(old, n, rotates)
           k == [call[c] EXCEPT !.step = "refreshed", !.cred = cred]
<1>1. call[c] \in CallRecord /\ call[c].step = "exchange" /\ old \in Credential
  BY DEF IInv, CallsOK, Exchange, Knows, OfOne
<1>2. /\ cred.uid = old.uid /\ (rotates => cred.refresh = n)
      /\ (~rotates => cred.refresh = old.refresh)
  BY <1>1 DEF Refreshed, Credential
<1>3. k.step = "refreshed" /\ k.cred = cred
  BY <1>1 DEF CallRecord
<1>4. Becomes(c, k)
  BY DEF Exchange
<1> HIDE DEF k, cred
<1>5. call'[c] = k /\ \A d \in Callers \ {c} : call'[d] = call[d]
  BY <1>4, Moved DEF IInv
<1>6. UNCHANGED <<lost, rotates, store>>
  BY DEF Exchange
<1>7. live' = IF rotates THEN (live \ {old.refresh}) \cup {n} ELSE live
  BY DEF Exchange, Spend
<1>8. /\ \A d \in Callers : call[d].step \in Holding => call[d].cred.refresh # n
      /\ \A f \in DOMAIN store : store[f].refresh # n
  BY Unheld DEF Exchange, Spend, Issue
<1>9. ~rotates => AllLive'
  BY <1>1, <1>2, <1>3, <1>5, <1>6, <1>7 DEF UInv, AllLive, Holding
<1>10. ASSUME rotates
       PROVE  Sole' /\ OneFile' /\ SameName'
  <2>1. live' = (live \ {old.refresh}) \cup {n} /\ k.cred.refresh = n
    BY <1>2, <1>3, <1>7, <1>10
  <2>2. ASSUME NEW d \in Callers \ {c}, call[d].step \in Fresh
        PROVE  /\ call[d].cred.refresh \in live'
               /\ \A e \in Callers \ {d} :
                     call'[e].step \in Holding => call'[e].cred.refresh # call[d].cred.refresh
    <3>1. /\ call[d].cred.refresh \in live /\ call[d].cred.refresh # old.refresh
          /\ call[d].cred.refresh # n
      BY <1>1, <1>8, <1>10, <2>2 DEF UInv, Sole, Holding, Fresh
    <3> QED
      BY <1>5, <1>10, <2>1, <2>2, <3>1 DEF UInv, Sole
  <2>3. Sole'
    BY <1>5, <1>6, <1>8, <1>10, <2>1, <2>2 DEF UInv, Sole, Fresh
  <2> QED
    BY <1>3, <1>5, <1>6, <1>10, <2>3 DEF UInv, OneFile, SameName
<1>11. ASSUME NEW f \in DOMAIN store, store[f].uid # Nobody
       PROVE  \/ store[f].refresh \in live' \cup lost
              \/ \E d \in Callers : /\ call'[d].step = "refreshed"
                                    /\ accountIdentity(call'[d].cred) = f
  <2>1. CASE store[f].refresh \in lost
    BY <2>1
  <2>2. CASE store[f].refresh \in live'
    BY <2>2
  <2>3. CASE store[f].refresh \in live \ live'
    <3>1. rotates /\ store[f].refresh = old.refresh
      BY <1>7, <2>3
    <3>2. k.cred.uid = store[f].uid
      BY <1>1, <1>2, <1>3, <3>1 DEF UInv, SameName
    <3>3. accountIdentity(k.cred) = f
      BY <1>11, <3>2 DEF IInv, StoreOK, accountIdentity
    <3> QED
      BY <1>3, <1>5, <3>3
  <2>4. CASE \E d \in Callers : /\ call[d].step = "refreshed"
                                /\ accountIdentity(call[d].cred) = f
    BY <1>1, <1>5, <2>4
  <2> QED
    BY <1>11, <2>1, <2>2, <2>3, <2>4 DEF UInv, NamedStaysUsable
<1>12. NamedStaysUsable'
  BY <1>6, <1>11 DEF NamedStaysUsable
<1> QED
  BY <1>6, <1>9, <1>10, <1>12 DEF UInv

LEMMA AnswerLostKeeps ==
    ASSUME UInv, IInv, NEW c \in Callers, NEW n \in Tokens, AnswerLost(c, n)
    PROVE  UInv'
<1> DEFINE t == call[c].cred.refresh
<1>1. call[c].step = "exchange" /\ Becomes(c, Idle) /\ UNCHANGED <<rotates, store>>
  BY DEF AnswerLost
<1>2. call'[c] = Idle /\ \A d \in Callers \ {c} : call'[d] = call[d]
  BY <1>1, Moved DEF IInv
<1>3. Idle.step = "idle"
  BY IdleOK
<1>4. /\ live' = IF rotates THEN (live \ {t}) \cup {n} ELSE live
      /\ lost' = IF rotates THEN lost \cup {t} ELSE lost
  BY DEF AnswerLost, Spend
<1>5. ~rotates => AllLive'
  BY <1>1, <1>2, <1>3, <1>4 DEF UInv, AllLive, Holding
<1>6. ASSUME rotates, NEW d \in Callers \ {c}, call[d].step \in Fresh
      PROVE  call[d].cred.refresh \in live'
  BY <1>1, <1>4, <1>6 DEF UInv, Sole, Holding
<1>7. rotates => Sole'
  BY <1>1, <1>2, <1>3, <1>6 DEF UInv, Sole, Holding, Fresh
<1>8. rotates => OneFile' /\ SameName'
  BY <1>1, <1>2, <1>3 DEF UInv, OneFile, SameName
<1>9. live \cup lost \subseteq live' \cup lost'
  BY <1>4
<1>10. NamedStaysUsable'
  BY <1>1, <1>2, <1>9 DEF UInv, NamedStaysUsable
<1> QED
  BY <1>1, <1>5, <1>7, <1>8, <1>10 DEF UInv

\* A credential that is stored was in one hand; now it is in one file.
LEMMA SavingKeeps ==
    ASSUME UInv, IInv, NEW c \in Callers, call[c].step \in {"success", "refreshed"},
           Save(call[c].cred), Becomes(c, Idle), UNCHANGED <<live, lost, rotates>>
    PROVE  UInv'
<1> DEFINE cred == call[c].cred
           f == accountIdentity(cred)
<1>1. call'[c] = Idle /\ \A d \in Callers \ {c} : call'[d] = call[d]
  BY Moved DEF IInv
<1>2. Idle.step = "idle"
  BY IdleOK
<1>3. /\ DOMAIN store' = DOMAIN store \cup {f} /\ store'[f] = cred
      /\ \A g \in DOMAIN store \ {f} : store'[g] = store[g]
  BY DEF Save, With
<1>4. ~rotates => AllLive'
  BY <1>1, <1>2, <1>3 DEF UInv, AllLive, Holding
<1>5. ASSUME rotates
      PROVE  /\ cred.refresh \in live
             /\ \A d \in Callers \ {c} :
                   call[d].step \in Holding => call[d].cred.refresh # cred.refresh
             /\ \A g \in DOMAIN store : store[g].refresh # cred.refresh
  BY <1>5 DEF UInv, Sole, Fresh
<1> HIDE DEF cred, f
<1>6. ASSUME rotates
      PROVE  Sole' /\ OneFile' /\ SameName'
  <2>1. Sole'
    BY <1>1, <1>2, <1>3, <1>5, <1>6 DEF UInv, Sole, Holding, Fresh
  <2>2. OneFile'
    BY <1>3, <1>5, <1>6 DEF UInv, OneFile
  <2>3. SameName'
    BY <1>1, <1>2, <1>3, <1>5, <1>6 DEF UInv, SameName, Holding
  <2> QED
    BY <2>1, <2>2, <2>3
<1>7. cred.refresh \in live
  BY <1>5 DEF UInv, AllLive, Holding, cred
<1>8. ASSUME NEW g \in DOMAIN store \ {f}, store[g].uid # Nobody
      PROVE  \/ store[g].refresh \in live \cup lost
             \/ \E d \in Callers : /\ call'[d].step = "refreshed"
                                   /\ accountIdentity(call'[d].cred) = g
  <2>1. ASSUME NEW d \in Callers, accountIdentity(call[d].cred) = g
        PROVE  d # c
    BY <2>1 DEF cred, f
  <2> QED
    BY <1>1, <1>8, <2>1 DEF UInv, NamedStaysUsable
<1>9. NamedStaysUsable'
  BY <1>3, <1>7, <1>8 DEF NamedStaysUsable
<1> QED
  BY <1>4, <1>6, <1>9 DEF UInv

LEMMA UsableStep ==
    ASSUME UInv, IInv, [Next]_vars
    PROVE  UInv'
<1>1. CallsOK
  BY DEF IInv
<1>2. Idle.step \notin Holding
  BY IdleOK DEF Holding
<1>3. ASSUME NEW c \in Callers, CallStep(c)
      PROVE  UInv'
  <2>1. ASSUME NEW s \in LoginIds, StartSecondary(c, s)
        PROVE  UInv'
    BY <1>1, <1>2, <2>1, Released DEF StartSecondary
  <2>2. ASSUME SecondaryFails(c) \/ StillPending(c) \/ RefreshRejected(c)
        PROVE  UInv'
    BY <1>1, <1>2, <2>2, Released DEF SecondaryFails, StillPending, RefreshRejected
  <2>3. ASSUME PollSucceeds(c) \/ RefreshSucceeds(c)
        PROVE  UInv'
    BY <2>3, SavingKeeps DEF PollSucceeds, RefreshSucceeds
  <2> QED
    BY <1>3, <2>1, <2>2, <2>3, AskTokenKeeps, AskAccountKeeps, ExchangeKeeps, AnswerLostKeeps
    DEF CallStep
<1>4. ASSUME NEW c \in Callers, NEW realm \in Realms, NEW s \in LoginIds,
             StartLogin(c, realm, s)
      PROVE  UInv'
  <2> DEFINE k == [Idle EXCEPT !.step = "secondary", !.realm = realm]
  <2>1. k.step \notin Holding
    BY IdleOK DEF CallRecord, Holding
  <2>2. Becomes(c, k) /\ call[c].step = "idle" /\ UNCHANGED <<live, lost, rotates, store>>
    BY <1>4 DEF StartLogin
  <2> HIDE DEF k
  <2> QED
    BY <1>1, <2>1, <2>2, Released
<1>5. ASSUME NEW s \in LoginIds, Poll(s)
      PROVE  UInv'
  <2>1. ASSUME NEW c \in Callers, StartPoll(c, s)
        PROVE  UInv'
    <3> DEFINE k == [Idle EXCEPT !.step = "token", !.realm = issued[s], !.login = s]
    <3>1. k.step \notin Holding
      BY IdleOK DEF CallRecord, Holding
    <3>2. Becomes(c, k) /\ call[c].step = "idle" /\ UNCHANGED <<live, lost, rotates, store>>
      BY <2>1 DEF StartPoll
    <3> HIDE DEF k
    <3> QED
      BY <1>1, <3>1, <3>2, Released
  <2>2. ASSUME NEW c \in Callers, PollExpired(c, s)
        PROVE  UInv'
    BY <2>2, Untouched DEF PollExpired
  <2> QED
    BY <1>5, <2>1, <2>2 DEF Poll
<1>6. ASSUME (\E s \in LoginIds, a \in Accounts : SignIn(s, a)) \/ Tick \/ UNCHANGED vars
      PROVE  UInv'
  BY <1>6, Untouched DEF SignIn, Tick, vars
<1> QED
  BY <1>3, <1>4, <1>5, <1>6, StartRefreshKeeps DEF Next

\* A stored credential that has a uid is never left with a refresh token
\* upstream no longer takes, unless its replacement is on the way or its answer
\* got lost, for any number of logins and refreshes of any accounts at once.
THEOREM NamedUsable == Spec => []NamedStaysUsable
<1>1. Init => UInv
  <2> SUFFICES ASSUME Init
               PROVE  UInv
    OBVIOUS
  <2>1. DOMAIN store = {} /\ \A c \in Callers : call[c].step \notin Holding
    BY IdleOK DEF Init, Holding
  <2> QED
    BY <2>1 DEF UInv, AllLive, Sole, OneFile, SameName, NamedStaysUsable, Holding, Fresh
<1>2. IInv /\ UInv /\ [Next]_vars => UInv'
  BY UsableStep
<1>3. UInv => NamedStaysUsable
  BY DEF UInv
<1> QED
  BY <1>1, <1>2, <1>3, Invariant, PTL DEF Spec
=============================================================================
