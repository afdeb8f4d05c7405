CONSTANTS
    \* Claude key pool
    ClaudeProfile = {"A"}
    ClaudeRoute <- MCClaudeRoute
    ClaudeRequest = {r1, r2, r3}
    Session = {s1}
    NoKey = NoKey
    NoSession = NoSession
    AUTH_QUARANTINE = 2
    TRANSIENT_THRESHOLD = 2
    TRANSIENT_COOLDOWN = 1
    TRANSIENT_COOLDOWN_MAX = 1
    RATE_LIMIT_MAX = 2
    RATE_LIMIT_FALLBACK = 1
    SESSION_STICKY_TTL = 1
    UNBLOCK_JITTER = 1
    RetryAfter = {0, 3}
    MaxKeyTime = 2
    MaxKeyEdits = 2
    \* State recovery
    Turn = {t1, t2}
    Domain = {a, b}
    Nowhere = Nowhere
    Situation <- MCSituation
    CallId = {"c", "gone"}
    BindingTTL = 1
    HealthTTL = 1
    LegacyTTL = 1
    LegacyThreshold = 2
    MaxRecoveryTime = 1
    \* Compaction bridge
    Codex = {c1, c2}
    Model = {m1, m2}
    Cipher = {x1, x2}
    NoState = NoState
    BridgeConfig <- MCBridgeConfig
    BridgeTTL = 2
    ReplayTTL = 1
    MaxBridged = 1
    MaxReplays = 1
    MaxBridgeTime = 2
    MaxBridgeEdits = 1
    MaxCompactions = 2
    \* Upstream connection agents
    Proxy = {px, py}
    Target = {ta, tb}
    Server = {sv1, sv2}
    Exchange = {e1, e2}
    Connection = {k1, k2}
    NoneOf = NoneOf
    MaxCachedAgents = 1
    MaxIdlePerTarget = 1
    MaxIdlePerAgent = 1
    MaxDraining = 1
    MaxAgents = 2
    \* Shutdown
    Client = {cl1, cl2}
    Served = {q1, q2}
    MaxIdentityChanges = 1
    \* Claude routing
    Ask = {a1}
    Generation <- MCGeneration
    AskedBody <- MCAskedBody
    Caller <- MCCaller
    Words <- MCWords
    Provider <- MCProvider
    AgentFor <- MCAgentFor
    NoModel = ""
    NoProfile = ""
    NoCredential = ""
    NoAccount = ""
    NoAgent = ""
    NoEffort = ""
    NoBudget = 0
    AnthropicHost = "anthropic"
    MimoHost = "mimo"
    StrippingHosts = {"relay"}
    CountlessHosts = {"relay"}
    MaxSaves = 2
    \* Codex routing
    CodexAsk = {ca1}
    CodexGeneration <- MCCodexGeneration
    CodexBody <- MCCodexBody
    CodexCaller <- MCCodexCaller
    CompactName <- MCCompactName
    AgentRouters = {"router"}
    MaxCodexSaves = 2
SPECIFICATION GatewaySpec
PROPERTY KeysAnswerForThemselves
PROPERTY ForeignStateIsShed
PROPERTY RequestsSuitTheirUpstream
INVARIANT BindingsIgnoreFinishOrder
INVARIANT CompactionsComeBack
INVARIANT ConnectionsAreAccountedFor
INVARIANT CleanExitAwaitsRequests
INVARIANT ThinkingFitsTheModel
CHECK_DEADLOCK FALSE
