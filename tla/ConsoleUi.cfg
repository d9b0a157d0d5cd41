SPECIFICATION UiSpec
CONSTANTS
    Screens = {"overview", "incidents"}
    Devices = {"d1"}
    Flaky = {"incidents"}
    MaxHist = 2
    Addresses <- MCAddresses
    MaxLoads = 3
    Fixture = 99
    WarnPct = 78
    CritPct = 90
    TopoFleets <- MCFleets
    MaxFolds = 2
    MAX_D = 3
    MAX_C = 2
    Sites <- MCSites
    MaxPosts = 1
INVARIANTS AddressHolds LayoutSound ActsOnShown DetailIsTrue
PROPERTY ScreenArrives
CHECK_DEADLOCK FALSE
