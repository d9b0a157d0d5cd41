SPECIFICATION DeskSpec
CONSTANTS
    Fixture = 3
    WarnPct = 78
    CritPct = 90
    FlapWindow = 1
    FlapMin = 2
    Reports <- MCReports
    Clicks <- MCClicks
    AckDays = 2
    StaleAfter = 1
    Windows = {1}
    MaxAlerts = 25
    MaxPolls = 2
    MaxActs = 2
    MaxNow = 3
    ScreenReports <- MCScreenReports
    ScreenClicks <- MCScreenClicks
    CardMax = 3
    CardCap = 2
    LogCap = 2
    AgoUnit = 2
    MaxShow = 5
    OldIds <- MCOldIds
    DemoIds <- MCDemoIds
    AddDrafts <- MCAddDrafts
    DelDrafts <- MCDelDrafts
    FormTypes = {"SRV"}
    Marks = {"notes"}
    MaxMoves = 1
    MaxFlight = 2
    MaxForms = 2
    Runtimes = {"failing", "healthy"}
    Levels <- MCLevels
    Hours = {4}
    MaxSets = 3
    AckKeys = {"k1", "k2"}
    MaintIds = {"d1"}
    MaxOps = 3
INVARIANTS ModelFresh SurfacesAgree AckHolds ScreenFresh PageNeverLocks UndoRestores
PROPERTY AnswersStayHome
CHECK_DEADLOCK FALSE
