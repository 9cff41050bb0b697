CONSTANTS
    Markets = {{"a"}, {"b", "c"}}
    LastDay = 3
    Mondays = {2}
    Dated = {"a"}
    Visited = {"a", "b"}
    Missing = Missing
    Report = {"r1"}
    Trade = {"buy", "sell"}
    Whole = "report"
    Visitor = {"v", "w"}
    Job = "job"
    MaxChecks = 4
    DailyCall = {"d"}
    SessionCall = {"s"}
    Slots = 1
    Day = 4
    Opens = 1
    Closes = 2
    Settle = 1
    Waits = 2
    MaxOrphans = 1
    LastTick = 7
    Kinds <- MCKinds
    Rates <- MCRates
    Nothing = Nothing
    MaxRows = 3
    MaxLevels = 3
    PageSize = 2
    Past <- MCPast
    Small = {}
    Reported <- MCReported
    ScanDay = 9
    RatingWindow = 6
    PageWindow = 8
    Signals <- MCSignals
    Forward = 1
    MinBars = 3
    TurnoverDays = 2
    MinTurnover = 2
    MaxLag = 1
    StrengthBack <- MCBack
    StrengthWeight <- MCWeight
    RecentDays = 2
    BaselineDays = 1
    MinRatio = 3
    MaxScans = 2
SPECIFICATION Spec
INVARIANTS
    ArchiveCompletes
    FetchedIsStored
    FinishedBarsAreFinished
    TableIsInOrder
    ScansAgree
PROPERTY ReportsStayKnown
CHECK_DEADLOCK FALSE
