CONSTANTS
    Week = 3
    Template <- MCTemplate
    Breakout <- MCBreakout
    Stage <- MCStage
    Pivot <- MCPivot
    Gate <- MCGate
    Classic <- MCClassic
    Configs <- MCConfigs
    RewardRisk = 1
    Commission = 1
    Slippage = 1
    InitialCapital = 100
    LiveSessions = 2
    FirstClose = 30
    MaxBars = 7
    Tick = 1
    BaselineWindow = 2
    AtrWindow = 2
    TrendWindow = 1
    StructureWindow = 2
    TestWindow = 3
    SequenceWindow = 2
    ConfirmationWindow = 2
    PivotLeft = 1
    PivotRight = 1
    MaxPivotGap = 3
    Stocks = {"a", "b"}
    LastDay = 7
    Year = 3
    Horizon = 1
    MaxGap = 3
    MinStocks = 2
    Embargo = 2
    MinTrainYears = 1
    Holdout = 8
    Deep = {0, 1}
    PageDays = 3
    RunUp = 5
    Intraday <- MCIntraday
    Visitors = {"v"}
    MaxPrints = 4
SPECIFICATION Spec
CHECK_DEADLOCK FALSE
INVARIANTS
    SetupsAreSequences
    AccountAddsUp
    LiveIsStillOpen
    ChartsAgree
    ReadingsAgree
    RowsKnowTheirPast
    LeaksAreBounded
