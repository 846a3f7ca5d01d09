CONSTANTS
    c1 = c1
    hy3 = hy3
    paid = paid
    trial = trial
    r1 = r1
    r2 = r2
    Creds = {c1}
    Models = {hy3, trial}
    CooldownBase = 1
    CooldownMax = 1
    CooldownResetMax = 1
    FailCap = 1
    Reqs = {r1, r2}
    Watched = {}
    FallbackAttempts = 2
    CursorMod = 2
    Catalog <- MCFreeCatalog
    ExtraModels <- MCExtraModels
    Refusals <- MCRefusals
SPECIFICATION FairSpec
PROPERTIES
    BackoffFollowsUpstream
    ImplementsContract
    EveryRequestEnds
