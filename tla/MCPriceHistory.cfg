\* The ingest alone, and beside one reader; every call fails at will.
CONSTANTS
    LastDay = 5
    ReaderDays = 4
    MaxScale = 2
    IncrementalDays = 1
    GapOverlapDays = 1
    FullHistoryDays = 4
    GapRetryDays = 2
    BackfillTolerance = 0
    Readers = {r1}
    Faults = {"read", "gapspan", "span", "fetch", "refetch", "write"}
SPECIFICATION MCSpec
INVARIANTS VouchedOneScale VouchedNoHole
