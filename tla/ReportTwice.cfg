CONSTANTS
    Report = {"r1"}
    Trade = {"buy", "sell"}
    Whole = "report"
    Visitor = {"v", "w"}
    Job = "job"
    MaxChecks = 4
SPECIFICATION InsiderSpec
INVARIANT ReportIsNoExtraTrade
CHECK_DEADLOCK FALSE
