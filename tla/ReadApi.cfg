SPECIFICATION Spec
CONSTANTS
    r1 = r1
    r2 = r2
    Requests <- Two
    NoKey = NoKey
    LIMIT = 2
    WINDOW = 3
    TTL = 2
    MaxSaved = 2
INVARIANTS WindowBound
PROPERTIES LimitLifts EventuallyFresh
