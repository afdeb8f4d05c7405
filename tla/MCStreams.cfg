CONSTANTS
    Pipe = {"messages to responses", "messages to compaction", "messages repaired",
            "chat to responses", "chat to messages", "responses to messages"}
    Dialect = {"indexed", "unindexed", "ids", "restarting", "named late"}
    None = None
    MaxBlocks = 2
    MaxN = 2
    MaxLost = 1
SPECIFICATION Spec
INVARIANT ClientCanRead
INVARIANT TruncationShows
INVARIANT StreamedAsWhole
INVARIANT HistoryComesBack
CHECK_DEADLOCK FALSE
