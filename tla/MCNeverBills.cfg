CONSTANTS
    c1 = c1
    hy3 = hy3
    paid = paid
    trial = trial
    r1 = r1
    r2 = r2
    Creds = {c1}
    Models = {hy3, paid, trial}
    CooldownBase = 1
    CooldownMax = 1
    CooldownResetMax = 1
    FailCap = 1
    Reqs = {r1}
    Watched = {}
    FallbackAttempts = 3
    CursorMod = 2
    Catalog <- MCCatalog
    ExtraModels <- MCPricedExtra
    Refusals <- MCRefusals
SPECIFICATION Spec
INVARIANTS
    NeverStartsBilling
