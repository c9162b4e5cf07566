CONSTANTS
    Hosts = {h1, h2, h3, h4}
    Addresses = {a1}
    Entries = {e1, e2, e3, e4}
    NoEntry = NoEntry
    RecordsMax = 2
    limit = 1
    TimeLives <- MCTimeLives
    TimeMod = 8
    Horizon = 1
    QueriesMax = 2
SYMMETRY Symmetry
SPECIFICATION Spec
INVARIANTS
    TypeOK
    MapAndQueueInStep
    QueueByFreshness
    CacheBounded
PROPERTIES
    EvictsLeastFresh
    ValidResultsStay
CHECK_DEADLOCK FALSE
