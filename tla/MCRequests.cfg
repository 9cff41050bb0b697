CONSTANTS
    Callers = {c1, c2}
    Passwords = {p1, p2}
    Usable = {p1, p2}
    Absent = Absent
    Slots = 1
    MaxFailures = 2
    MaxVersion = 2
    MaxAttempts = 3
    Devices = {d1, d2}
    ListIds = {l1, l2, l3}
    Names = {"a", "b"}
    Tickers = {"x", "y"}
    EntryIds = {i1, i2}
    Texts = {"t"}
    Reviews = {"r"}
    Foreign = {}
    Nothing = Nothing
    MaxLists = 2
    MaxTickers = 1
    MaxEntries = 1
    MaxEdits = 3
    Kinds = {k1, k2, k3}
    Threads = {t1, t2}
    MaxGroups = 2
    MaxReports = 4
    Visitors = {v1, v2, v3}
    Baselines = {"baseline1", "baseline2"}
    Variants = {"variant"}
    Tests = {"test1", "test2"}
    MaxCached = 2
    MaxTasks = 2
    Misses = 1
    MaxLocks = 1
    MaxGeneration = 2
SPECIFICATION Spec
SYMMETRY Symmetry
INVARIANTS SignInsShowThePassword LimitsCountTheWork LimitsHold
           HitsAddUp WaitersHaveWork
PROPERTIES SomeListStays ReviewsReplaceWhatWasSeen BaselineOutlivesChurn
           RefusalsAreFree
CHECK_DEADLOCK FALSE
