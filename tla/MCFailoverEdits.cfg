SPECIFICATION Spec
CONSTANTS
    a1 = a1
    a2 = a2
    b = b
    A = A
    B = B
    s1 = s1
    s2 = s2
    m1 = m1
    k1 = k1
    Candidate <- MCCandidate
    Profile <- MCProfile
    ProfileOf <- MCProfileOf
    ProfileIndex <- MCProfileIndex
    KeyIndex <- MCKeyIndex
    Signature <- MCSignature
    Configs <- EditConfigs
    Model = {}
    Key = {k1}
    Context <- EditContexts
    Request = {r1, r2}
    FAILOVER_FAILURE_THRESHOLD = 2
    TRANSIENT_COOLDOWN = 1
    TRANSIENT_COOLDOWN_MAX = 2
    ACCOUNT_QUARANTINE = 2
    MODEL_DISABLE = 2
    RateLimitCooldown = {1}
    StickyReserve = {1}
    UNBLOCK_JITTER = 0
    NoProfile = NoProfile
    NoCandidate = NoCandidate
    NoModel = NoModel
    NoKey = NoKey
    Absent = Absent
    MaxTime = 1
    MaxGeneration = 2
    MaxVersion = 2
SYMMETRY Slots
INVARIANTS
    InFlightExact
    EvidenceMatchesCredential
    PinsFollowCredential
PROPERTY
    BlockLiftedOnlyByLaterSuccess
