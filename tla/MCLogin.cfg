CONSTANTS
    a1 = a1
    a2 = a2
    c1 = c1
    c2 = c2
    Nobody = Nobody
    Accounts = {a1, a2}
    RealmOf <- MCRealmOf
    sanitizeIdentity <- MCNames
    LoginIds = {1, 2}
    LoginTTL = 1
    Callers = {c1, c2}
    MaxTokens = 3
SPECIFICATION FairSpec
INVARIANTS
    TypeOK
    AccountsKeepApart
    NamedStaysUsable
PROPERTIES
    PolledLoginEnds
