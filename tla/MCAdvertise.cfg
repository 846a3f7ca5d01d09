CONSTANTS
    c1 = c1
    c2 = c2
    hy3 = hy3
    glm = glm
    Creds = {c1, c2}
    Models = {hy3, glm}
    CooldownBase = 1
    CooldownMax = 1
    CooldownResetMax = 2
    FailCap = 1
    Serves <- MCServes
    Routes <- MCRoutes
    Staleness = 0
    Refusals <- MCLongRefusals
    MaxCalls = 1
    Watched = {c1}
SPECIFICATION FairSpec
INVARIANTS
    TypeOK
    HidesOnlyThrottled
    LoneModelStaysListed
    SpentStaysHidden
PROPERTIES
    HiddenComesBack
