SPECIFICATION Spec
CONSTANTS
    Owners = {o1}
    PauseValues = {TRUE, FALSE}
    RATE_LIMIT_COUNT = 2
    RATE_LIMIT_WINDOW = 3
    DEFAULT_TTL = 3
    MIN_TTL = 1
    MaxLedger = 9
INVARIANTS
    WindowCountsGrants
    BurstsBounded
