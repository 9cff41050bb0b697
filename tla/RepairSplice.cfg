\* A repair that cannot read the stored span.
CONSTANTS
    LastDay = 6
    MaxScale = 2
    IncrementalDays = 1
    GapOverlapDays = 1
    FullHistoryDays = 4
    GapRetryDays = 0
    BackfillTolerance = 0
    Readers = {}
    Faults = {"span"}
SPECIFICATION Spec
INVARIANT RepairNeverSplices
