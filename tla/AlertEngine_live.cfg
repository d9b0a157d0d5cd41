SPECIFICATION FairSpec
CONSTANTS
    k1 = k1
    h1 = h1
    Keys <- OneKey
    Hosts <- OneHost
    HostOf <- HostOfOne
    NoEscalation <- OneKey
    Configs <- PlainOnly
    InitialConfig <- Plain
    Retention = 3
    RetryBase = 1
    RetryCap = 2
    Batch = 2
    Concurrency = 1
    StartTimes = {0}
    Horizon = 2
    MaxStamp = 6
    MaxCollects = 2
    MaxSilences = 2
    MaxFaults = 1
    MaxCrashes = 1
    MaxUpdates = 0
    Spent <- LiveScenarios
PROPERTIES
    AlarmGetsOut
    RecoveryGetsOut
