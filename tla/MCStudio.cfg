CONSTANTS
    \* Log feed
    MaxRows = 2
    MaxDisturbances = 2
    PageLimit = 1
    ClientBuffer = 3
    NoFeedLoad = NoFeedLoad
    \* Captures
    c1 = c1
    c2 = c2
    Capture = {c1, c2}
    Size <- MCSize
    Caps = {2, 4}
    Unknown = Unknown
    MaxEdits = 1
    MaxRestarts = 1
    MaxFailures = 1
    \* Drafts
    Url = {"u0", "u1"}
    DefaultUrl = "u0"
    Secret = {"k1", "k2"}
    NoSecret = "none"
    PoolId = {"p1"}
    Rest = {"d", "x"}
    DefaultRest = "d"
    Setting = {"auto", "manual"}
    Manual = "manual"
    Title = {"t1", "t2"}
    Unset = Unset
    Refused = Refused
    Kept = Kept
    Page = {a, b}
    Routing = {t, u}
    FirstConfig <- MCFirstConfig
    LegacyDocument <- MCLegacyDocument
    Mixes <- MCMixes
    MaxDrafted = 2
    \* Client identity
    Kind = {codex}
    UserAgent = {ua}
    FactoryAgent = uf
    Blank = Blank
    PublishedRelease = {rel}
    Absent = Absent
    Automatic = Automatic
    DayLength = 1
    RefreshRetry = 1
    RemoteTtl = 1
    MaxTime = 2
    MaxWrites = 3
SPECIFICATION StudioSpec
SYMMETRY Interchangeable
INVARIANT QuietFeedIsExact
INVARIANT CapturesAreAccountedFor
INVARIANT TypedIdentitiesStay
PROPERTY UnseenEditsSurvive
PROPERTY SyncRespectsChoice
PROPERTY SwitchesKeepCredentials
CHECK_DEADLOCK FALSE
