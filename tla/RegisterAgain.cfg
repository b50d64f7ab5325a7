SPECIFICATION Spec
CONSTANTS
    None = None
    Admins = {a1, a2}
    Watchers = {w1, w2}
    Expiries = {0, 1}
    PauseValues = {TRUE, FALSE}
    BatchSizes = {0, 2}
    MAX_WATCHERS = 4
    MAX_BATCH_SIZE = 2
    MAX_PAGE_LIMIT = 3
    U32_MAX = 4
    MIN_TTL = 1
    DEFAULT_TTL = 1
    LedgerSeconds = 1
    MaxTime = 2
    Archival = TRUE
INVARIANT ListedOnce
