SPECIFICATION Spec
CONSTANTS
    None = None
    Owners = {o1, o2}
    Admins = {a1, a2}
    Targets = {t1}
    Registries = {r1}
    Hashes = {h1, bad}
    ValidHashes = {h1}
    Labels = {128, 129}
    RuleLists <- SomeRuleLists
    TagLists <- SomeTagLists
    Limits = {}
    PauseValues = {TRUE, FALSE}
    BumpTtls = {2}
    BatchSizes = {1}
    U64_MAX = 1
    MIN_TTL = 1
    DEFAULT_TTL = 1
    MAX_TTL = 2
    MAX_BATCH_SIZE = 2
    LedgerSeconds = 1
    MaxTime = 2
    Archival = FALSE
SYMMETRY OwnerSymmetry
INVARIANTS
    StoredPayloadsValid
    AdminsNeverEmpty
PROPERTIES
    ChangesAreStamped
    WebhookRotationKept
    PausedKeepsAlerts
