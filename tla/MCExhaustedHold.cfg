CONSTANTS
    c1 = c1
    c2 = c2
    hy3 = hy3
    glm = glm
    Creds = {c1}
    Models = {hy3}
    CooldownBase = 1
    CooldownMax = 1
    CooldownResetMax = 3
    FailCap = 1
    Serves <- MCServes
    Routes <- MCRoutes
    Staleness = 1
    Refusals <- MCRefusals
    MaxCalls = 2
    Watched = {}
SPECIFICATION Spec
PROPERTIES
    ExhaustedHoldStands
