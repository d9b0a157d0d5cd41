SPECIFICATION Spec
CONSTANTS
    Keep = 3
    FileLimit = 4
    InitialFiles <- LegacyFiles
    MaxEvents = 8
    MaxFaults = 2
    MaxCrashes = 2
INVARIANTS
    AuditIsTrue
    HistoryIsSound
PROPERTIES
    HistoryIsKept
CHECK_DEADLOCK FALSE
