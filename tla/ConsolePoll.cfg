\* A poll chain and one request it superseded, one saved edit.
CONSTANTS
    MaxReqs = 2
    Grace = 1
    Base = 1
    MaxWait = 2
    ReqTimeout = 0
    StaleAfter = 1
    MaxFails = 3
    MaxEdits = 1
SPECIFICATION FairSpec
INVARIANTS
    OneChain
    EditHeld
PROPERTIES
    RefinesLoop
    KeepsPolling
    BadgeFollowsServer
