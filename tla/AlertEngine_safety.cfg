SPECIFICATION Spec
CONSTANTS
    k1 = k1
    h1 = h1
    Keys <- OneKey
    Hosts <- OneHost
    HostOf <- HostOfOne
    NoEscalation <- None
    Configs <- SomeConfigs
    InitialConfig <- On
    Retention = 1
    RetryBase = 1
    RetryCap = 1
    Batch = 2
    Concurrency = 1
    StartTimes = {1}
    Horizon = 3
    MaxStamp = 6
    MaxCollects = 3
    MaxSilences = 1
    MaxFaults = 2
    MaxCrashes = 1
    MaxUpdates = 2
    Spent <- Scenarios
INVARIANTS
    ClaimCoversRequests
    HealthyIsDurable
    AlarmOrder
    NoStrayDelivery
