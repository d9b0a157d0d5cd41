SPECIFICATION FairSpec
CONSTANTS
    a = a
    x = x
    m0 = m0
    m1 = m1
    None = None
    Keys <- TwoKeys
    Supported <- Pollable
    Metas <- TwoMetas
    FirstDevices <- StartWith
    FallbackLimit = 2
    MaxOps = 2
    MaxPanics = 1
INVARIANTS
    ChangesStick
    ShownIsObserved
    NoFlicker
PROPERTIES
    WorkersEnd
    DevicePolled
