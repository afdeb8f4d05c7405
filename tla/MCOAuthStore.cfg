SPECIFICATION FairSpec
CONSTANTS
    Session = {s1, s2}
    MaxPending = 2
    None = None
    MaxCalls = 2
INVARIANTS
    EndedSessionsTellTheTruth
PROPERTIES
    DisconnectedStaysDisconnected
    EndedSessionsStayEnded
    TokensNeverGoBack
    SessionsEnd
