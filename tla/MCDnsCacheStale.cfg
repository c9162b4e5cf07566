CONSTANTS
    Hosts = {h1, h2}
    Addresses = {a1, a2}
    Entries = {e1, e2}
    NoEntry = NoEntry
    RecordsMax = 2
    limit = 1
    TimeLives <- MCTimeLives
    TimeMod = 8
    Horizon = 2
    QueriesMax = 1
SPECIFICATION Spec
INVARIANTS
    ServedAddressValid
CHECK_DEADLOCK FALSE
