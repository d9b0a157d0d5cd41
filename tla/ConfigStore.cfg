SPECIFICATION Spec
CONSTANTS
    ext = ext
    External <- Externals
    MaxNames = 3
    MaxPlain = 2
    MaxHandlers = 1
    MaxFaults = 2
    MaxCrashes = 1
INVARIANTS
    ConfigResolves
    BackupResolves
    RollbackResolves
