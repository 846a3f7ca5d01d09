CONSTANTS
    p1 = p1
    p2 = p2
    NoId = NoId
    Ids <- MCIds
    ServiceIds = {"nes-1"}
    AliasIds = {"auto"}
    Measured <- MCMeasured
    Nodes <- MCNodes
    DefaultContext = 2
    DefaultOutput = 1
    Keys = {"cn:1"}
    Pollers = {p1, p2}
    Answers <- MCAnswers
    Configs <- MCLeakConfigs
    CacheTTL = 2
    MaxReconfigs = 1
SPECIFICATION Spec
INVARIANTS
    NamespaceWithholds
