SPECIFICATION FairSpec
CONSTANTS
    k1 = k1
    k2 = k2
    c = c
    m0 = m0
    m1 = m1
    plain = plain
    h0 = h0
    h1 = h1
    NoDevice = NoDevice
    Keys <- ThreeKeys
    Clusters <- OneCluster
    Seal <- StoredAs
    Metas <- ThreeMetas
    Levels <- ThreeLevels
    Hooks <- TwoHooks
    FirstDoc <- Start
    Plans <- Mixes
    MaxFaults = 3
    MaxCrashes = 1
INVARIANTS
    AuditBrackets
    AnswersHold
PROPERTIES
    EveryRequestAnswered
