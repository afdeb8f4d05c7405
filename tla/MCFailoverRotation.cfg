SPECIFICATION Spec
CONSTANTS
    a1 = a1
    a2 = a2
    b = b
    A = A
    B = B
    s1 = s1
    s2 = s2
    m1 = m1
    k1 = k1
    Candidate <- MCCandidate
    Profile <- MCProfile
    ProfileOf <- MCProfileOf
    ProfileIndex <- MCProfileIndex
    KeyIndex <- MCKeyIndex
    Signature <- MCSignature
    Configs <- PoolConfigs
    Model = {m1}
    Key = {k1}
    Context <- PoolContexts
    Request = {r1}
    FAILOVER_FAILURE_THRESHOLD = 1
    TRANSIENT_COOLDOWN = 1
    TRANSIENT_COOLDOWN_MAX = 1
    ACCOUNT_QUARANTINE = 1
    MODEL_DISABLE = 1
    RateLimitCooldown = {1}
    StickyReserve = {1}
    UNBLOCK_JITTER = 1
    NoProfile = NoProfile
    NoCandidate = NoCandidate
    NoModel = NoModel
    NoKey = NoKey
    Absent = Absent
    MaxTime = 1
    MaxGeneration = 1
    MaxVersion = 1
PROPERTIES
    BlockedKeysGetNoTraffic
    OptedOutKeysNeedOperator
