\* One console whose browser refuses a write to localStorage twice.
CONSTANTS
    t1 = t1
    k1 = k1
    k2 = k2
    b1 = b1
    Tabs = {t1}
    Keys = {k1}
    BrowserOf <- OneTab
    Cap = 1
    QueueLimit = 2
    MaxEdits = 1
    MaxNetFaults = 0
    MaxStorageFaults = 2
    MaxReloads = 0
SPECIFICATION FairSpec
PROPERTIES
    StorageFaultHeals
