SPECIFICATION FairSyncSpec
CONSTANTS
    None = None
    Owners = {o1}
    Admins = {}
    Targets = {t1}
    Registries = {}
    Hashes = {h1}
    ValidHashes = {h1}
    Labels = {1}
    RuleLists <- OneRuleList
    TagLists = {}
    Limits = {}
    PauseValues = {}
    BumpTtls = {1}
    BatchSizes = {}
    U64_MAX = 2
    U32_MAX = 2
    MIN_TTL = 0
    DEFAULT_TTL = 0
    MAX_TTL = 1
    MAX_BATCH_SIZE = 1
    LedgerSeconds = 1
    MaxTime = 1
    Archival = TRUE
INVARIANTS
    PagesTile
    ReadsAgree
    UpdatedSinceIsPage
    NothingMissedByPolling
PROPERTIES
    AlertsReachMirror
\* No call executes once the instance is archived.
CHECK_DEADLOCK FALSE
