\* A console and the PUTs of others, a state file with room for one mark.
CONSTANTS
    t1 = t1
    k1 = k1
    k2 = k2
    b1 = b1
    Tabs = {t1}
    Keys = {k1, k2}
    BrowserOf <- OneTab
    Cap = 1
    QueueLimit = 2
    MaxEdits = 3
    MaxNetFaults = 2
    MaxStorageFaults = 1
    MaxReloads = 1
SPECIFICATION FairSpec
INVARIANTS
    NoEditLost
PROPERTIES
    ReadYourWrites
    Converges
