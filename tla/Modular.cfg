SPECIFICATION Spec
CONSTANTS
    None = None
    Owners = {o1, o2}
    Admins = {a1}
    Targets = {t1, t2}
    Hashes = {h1}
    Labels = {128, 129}
    RuleLists <- SomeRuleLists
    Limits = {1}
    PauseValues = {TRUE, FALSE}
    U64_MAX = 2
    MIN_TTL = 0
    DEFAULT_TTL = 1
    RENEW_TTL = 1
    MAX_BATCH_SIZE = 2
    LedgerSeconds = 0
    MaxTime = 0
    Archival = TRUE
SYMMETRY PartySymmetry
INVARIANTS
    SoundUntilRestart
PROPERTIES
    OwnersKeptUntilRestart
    LimitRespected
