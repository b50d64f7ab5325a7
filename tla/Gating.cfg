SPECIFICATION GatingSpec
CONSTANTS
    None = None
    Idle = Idle
    Deployed = Deployed
    ZeroAddress = ZeroAddress
    Owners = {o1}
    Admins = {a1}
    Targets = {t1}
    Registries = {Deployed, ZeroAddress}
    Hashes = {h1}
    ValidHashes = {h1}
    Labels = {1}
    RuleLists <- OneRuleList
    TagLists = {}
    Limits = {}
    PauseValues = {}
    BumpTtls = {}
    BatchSizes = {}
    U64_MAX = 2
    U32_MAX = 3
    MIN_TTL = 2
    DEFAULT_TTL = 0
    MAX_TTL = 0
    MAX_BATCH_SIZE = 2
    LedgerSeconds = 1
    MaxTime = 1
    Archival = FALSE
    Watchers = {w1}
    Expiries = {0}
    MAX_WATCHERS = 1
    MAX_PAGE_LIMIT = 1
    PageSize = 1
INVARIANTS
    PagesMissNothing
