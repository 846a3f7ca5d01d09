CONSTANTS
    hy3 = hy3
    glm = glm
    Ids = {hy3, glm}
    HyIds = {hy3}
    Fallbacks = {hy3, glm}
    Requests <- MCRequests
    Lines <- MCLines
    MaxLines = 4
SPECIFICATION Spec
INVARIANTS
    HyThinksHard
