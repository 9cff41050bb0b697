SPECIFICATION MCSpec
CONSTANTS
    LogEntries = {e1, e2, e3}
    QueueMax = 2
    BatchMax = 2
    Off = Off
    Portfolios = {p1, p2}
    Trades <- AllTrades
    Files <- Reports
    Settings = {s1, s2}
    NoSettings = none
    Workers = {w1, w2}
    MaxPortfolios = 1
    MaxTransactions = 3
    MaxVersion = 6
    MaxRequests = 4
    Markets = {"us"}
    Days = 3
    Weekend = {2}
    Hours = {15, 20}
    Crashes = TRUE
INVARIANTS
    RowsInOrder NothingOutlivesTheEngine
    WithinLimits NeverShort TradesOnce AnswersAreTrue
    NightlyHasTheDay LiveIsOfASession
PROPERTIES
    EntriesGetTheirTurn OnlyTheFlushHoldsUp SessionsAreStored ChangesWhatWasSeen ImplementsTradeLedger
