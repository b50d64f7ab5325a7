SPECIFICATION Spec
CONSTANTS
    None = None
    Owners = {o1, o2}
    Admins = {a1}
    Targets = {t1, t2}
    Registries = {}
    Hashes = {h1}
    ValidHashes = {h1}
    Labels = {1}
    RuleLists <- OneRuleList
    TagLists = {}
    Limits = {1}
    PauseValues = {}
    BumpTtls = {2}
    BatchSizes = {}
    U64_MAX = 2
    MIN_TTL = 1
    DEFAULT_TTL = 1
    MAX_TTL = 1
    MAX_BATCH_SIZE = 2
    LedgerSeconds = 0
    MaxTime = 0
    Archival = TRUE
SYMMETRY OwnerTargetSymmetry
INVARIANTS
    TypeOK
    IdsBelowCounter
    IndexesWellFormed
    IndexesSound
    ActiveFlagAgrees
PROPERTIES
    IdsNeverReused
    ListedStaysListed
