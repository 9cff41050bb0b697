CONSTANTS
    Markets = {gpw, us}
    NoMarket = none
    Pages = {p1}
    Companies = 10
    FailurePercent = 10
    MaxConcurrent = 2
    MaxVersion = 2
    MaxGeneration = 2
    MaxSpawned = 1
    Requests = {"scan", "page", "browse"}
    Faults = {"ticker", "post", "rank", "snapshot"}
SPECIFICATION MCSpec
SYMMETRY Symmetry
INVARIANTS AnswersAreCurrent CachesAreCurrent SuccessIsServed
