------------------------------- MODULE LogFeed -------------------------------
(***************************************************************************)
(* The request log as Studio shows it: rows are recorded, updated and      *)
(* pruned by the server, told over server-sent events                      *)
(* (StudioEventBroadcaster, src/server/studio-events.ts) and read in pages *)
(* over HTTP; the hook useLogFeed (src/ui/hooks/useLogFeed.ts) builds the  *)
(* window on screen from both, whose order nothing fixes.                  *)
(*                                                                         *)
(* One Studio tab.  A row is its sequence, whether the filter hits it and  *)
(* the version of what it says; sequences order every page, so a page's    *)
(* rows are a function from sequences to versions.                         *)
(***************************************************************************)
EXTENDS Integers, Sequences, FiniteSets, TLC, SequencesExt, FiniteSetsExt, Functions

CONSTANTS
    MaxRows,         \* rows recorded
    MaxDisturbances, \* updates, prunes, snapshots, lost connections, failures and filters together
    PageLimit,       \* logging.keep_recent: rows of a page
    ClientBuffer,    \* MAX_STUDIO_EVENT_CLIENT_BUFFER_BYTES, in events
    NoFeedLoad

VARIABLES
    feedRows,        \* request_logs: sequence -> [hit, version]
    feedSequence,    \* the last sequence given out
    pruning,         \* rows are gone and storage-pruned is not dispatched yet
    eventStream,     \* the server's client: "open", "cut" or "refused"
    eventQueue,      \* what the tab has yet to read from it
    logPage,         \* logState.page
    appliedQuery,    \* appliedQueryRef
    requestedQuery,  \* the filters on screen
    pendingLoad,     \* pendingLogLoadRef
    pendingRefresh,
    pendingMore,     \* pendingMoreLoadRef
    isLoadingLogs,   \* isLoadingLogsRef
    requestError,    \* the operation and the query of the failed request on show
    streamInterrupted,
    requeryRefused,  \* a re-query was refused for a request that does not make up for it
    overtaken,       \* the snapshot merged last was older than the page on screen
    disturbances     \* what happened besides rows being recorded

feedVars == << feedRows, feedSequence, pruning, eventStream, eventQueue, logPage, appliedQuery,
               requestedQuery, pendingLoad, pendingRefresh, pendingMore, isLoadingLogs,
               requestError, streamInterrupted, requeryRefused, overtaken, disturbances >>

rowVars  == << feedRows, feedSequence, pruning >>
viewVars == << logPage, overtaken, appliedQuery, requestedQuery, requestError >>
loadVars == << pendingLoad, pendingRefresh, pendingMore, isLoadingLogs, requeryRefused >>
tabVars  == << viewVars, loadVars, streamInterrupted >>

FeedQuery == {"all", "filtered"}      \* isUnfilteredQuery(query) is query = "all"

\* ProxyLogPage and PendingLogLoad.
FeedLogs == UNION {[rows -> {0, 1}] : rows \in SUBSET (1 .. MaxRows)}
FeedPage == [logs : FeedLogs, limit : {rows \in Nat : rows >= PageLimit}, latest : Nat,
             total : Nat, more : BOOLEAN]
RowEvent == [kind : {"insert"}, row : 1 .. MaxRows, hit : BOOLEAN, version : {0}]
            \cup [kind : {"update"}, row : 1 .. MaxRows, version : {1}]
FeedLoad == [query : FeedQuery, for : {"poll", "reconnect", "always"}, baseline : Seq(FeedPage),
             superseded : BOOLEAN, live : Seq(RowEvent), snapshot : BOOLEAN, answer : Seq(FeedPage)]

ASSUME FeedAssumption ==
    MaxRows \in Nat /\ PageLimit \in Nat \ {0} /\ NoFeedLoad \notin FeedLoad
--------------------------------------------------------------------------
\* RequestLogger.page
NewestOf(logs, n) ==
    Restrict(logs, {row \in DOMAIN logs : Cardinality({other \in DOMAIN logs : other > row}) < n})

Matching(query) == {row \in DOMAIN feedRows : query = "all" \/ feedRows[row].hit}
Versions(rows)  == [row \in rows |-> feedRows[row].version]

LogPage(query, offset) ==
    LET after == {row \in Matching(query) :
                     Cardinality({other \in Matching(query) : other > row}) >= offset}
        logs  == NewestOf(Versions(after), PageLimit)
    IN  [logs |-> logs, limit |-> PageLimit,
         latest |-> IF feedRows = << >> THEN 0 ELSE Max(DOMAIN feedRows),
         total |-> Cardinality(Matching(query)),
         more |-> offset + Cardinality(DOMAIN logs) < Cardinality(Matching(query))]

emptyLogPage == [logs |-> << >>, limit |-> PageLimit, latest |-> 0, total |-> 0, more |-> FALSE]

\* The page functions of log-utils.ts: rows of the same sequence are one row,
\* the first one given wins, and the newest come first.
mergeUniqueLogs(first, second) ==
    [row \in DOMAIN first \cup DOMAIN second |->
        IF row \in DOMAIN first THEN first[row] ELSE second[row]]

WithLogs(page, logs) ==
    [page EXCEPT !.logs = logs, !.more = Cardinality(DOMAIN logs) < page.total]

appendLogPage(previous, next) ==
    WithLogs(next, NewestOf(mergeUniqueLogs(previous.logs, next.logs), next.total))

mergeSnapshotLogPage(previous, snapshot) ==
    WithLogs(snapshot, mergeUniqueLogs(snapshot.logs, previous.logs))

LoadedWindow(page) ==
    IF Cardinality(DOMAIN page.logs) > page.limit THEN Cardinality(DOMAIN page.logs) ELSE page.limit

IsDuplicate(page, event) == event.row <= page.latest \/ event.row \in DOMAIN page.logs

mergeLiveLogPage(page, event, query) ==
    IF event.kind = "update"
    THEN IF event.row \in DOMAIN page.logs
         THEN [page EXCEPT !.logs[event.row] = event.version] ELSE page
    ELSE LET hit   == query = "all" \/ event.hit
             live  == [row \in {event.row} |-> event.version]
             logs  == IF hit THEN NewestOf(mergeUniqueLogs(live, page.logs), LoadedWindow(page))
                      ELSE page.logs
             total == page.total + (IF hit /\ ~IsDuplicate(page, event) THEN 1 ELSE 0)
         IN  WithLogs([page EXCEPT !.latest = IF event.row > @ THEN event.row ELSE @,
                                   !.total = total], logs)

replayLiveLogEvents(page, events, query) ==
    FoldLeft(LAMBDA current, event : mergeLiveLogPage(current, event, query), page, events)
--------------------------------------------------------------------------
\* PendingLogLoad.  for: what keeps its page wanted; superseded: generationRef
\* has moved on; answer: what the server has answered, once it has.
Pending(query, for, baseline) ==
    [query |-> query, for |-> for, baseline |-> baseline, superseded |-> FALSE,
     live |-> << >>, snapshot |-> FALSE, answer |-> << >>]

First == << >>                       \* no baseline: a first page

isStillRelevant(for, interrupted) ==
    CASE for = "poll"      -> interrupted
      [] for = "reconnect" -> ~interrupted
      [] for = "always"    -> TRUE

isCurrentRefresh(load, interrupted) ==
    ~load.superseded /\ isStillRelevant(load.for, interrupted)

\* Variant: a pending load hears the rows only.
HearingRows(load, event) ==
    IF load = NoFeedLoad \/ event.kind = "snapshot" \/ (load # NoFeedLoad /\ load.superseded) THEN load
    ELSE [load EXCEPT !.live = Append(@, event)]

\* Pending loads of this generation hear every event.
Hearing(load, event) ==
    IF load = NoFeedLoad \/ (load # NoFeedLoad /\ load.superseded) THEN load
    ELSE IF event.kind = "snapshot" THEN [load EXCEPT !.snapshot = TRUE]
    ELSE [load EXCEPT !.live = Append(@, event)]

\* A request in flight that asks again because of the snapshot being read.
MakesUpFor(refresh) ==
    \/ pendingLoad # NoFeedLoad
    \/ refresh # NoFeedLoad /\ isCurrentRefresh(refresh, FALSE)

\* refreshAppliedLogPage as far as its first await, in a handler that has
\* already changed the pending refresh and the pending load of more rows.
Refreshed(for, refresh, more) ==
    IF pendingLoad # NoFeedLoad \/ refresh # NoFeedLoad
    THEN /\ pendingRefresh' = refresh /\ pendingMore' = more
         /\ requeryRefused' = CASE for = "poll"      -> requeryRefused
                                [] for = "reconnect" -> TRUE
                                [] for = "always"    -> ~MakesUpFor(refresh)
         /\ UNCHANGED isLoadingLogs
    ELSE /\ pendingRefresh' = Pending(appliedQuery, for, First)
         /\ pendingMore' = NoFeedLoad
         /\ isLoadingLogs' = TRUE
         /\ requeryRefused' = FALSE
--------------------------------------------------------------------------
\* The broadcaster: writeSseFrame to the tab; past the cap the connection is
\* destroyed with whatever of its queue the tab has not received.
Cut ==
    /\ eventStream' = "cut"
    /\ \E received \in 0 .. Len(eventQueue) :
          eventQueue' = Append(SubSeq(eventQueue, 1, received), [kind |-> "error"])

Broadcasts(event) ==
    IF eventStream # "open" THEN UNCHANGED << eventStream, eventQueue >>
    ELSE IF Len(eventQueue) >= ClientBuffer THEN Cut
    ELSE eventQueue' = Append(eventQueue, event) /\ UNCHANGED eventStream

FeedSnapshot(invalidated) ==
    [kind |-> "snapshot", page |-> LogPage("all", 0), invalidated |-> invalidated]

\* One synchronous turn of writeProxyLogAndCapture: the row and its broadcast.
RecordRow(hit) ==
    /\ feedSequence < MaxRows
    /\ feedSequence' = feedSequence + 1
    /\ feedRows' = [row \in DOMAIN feedRows \cup {feedSequence'} |->
                       IF row = feedSequence' THEN [hit |-> hit, version |-> 0] ELSE feedRows[row]]
    /\ Broadcasts([kind |-> "insert", row |-> feedSequence', hit |-> hit, version |-> 0])
    /\ UNCHANGED << pruning, tabVars >>

\* updateCapture or markCapturesPurged, and the broadcast of the row.
SettleRow(row) ==
    /\ feedRows[row].version = 0
    /\ feedRows' = [feedRows EXCEPT ![row].version = 1]
    /\ Broadcasts([kind |-> "update", row |-> row, version |-> 1])
    /\ UNCHANGED << feedSequence, pruning, tabVars >>

\* A slice of the storage prune; storage-pruned is dispatched after the last.
PruneRows(kept) ==
    /\ kept < Cardinality(DOMAIN feedRows)
    /\ feedRows' = NewestOf(feedRows, kept)
    /\ pruning' = TRUE
    /\ UNCHANGED << feedSequence, eventStream, eventQueue, tabVars >>

\* notifyLogPrune
AnnouncePrune ==
    /\ pruning
    /\ pruning' = FALSE
    /\ Broadcasts(FeedSnapshot(TRUE))
    /\ UNCHANGED << feedRows, feedSequence, tabVars >>

\* A snapshot for another change: a configuration, an identity.
BroadcastSnapshot ==
    /\ Broadcasts(FeedSnapshot(FALSE))
    /\ UNCHANGED << rowVars, tabVars >>

LoseStream ==
    /\ eventStream = "open"
    /\ Cut
    /\ UNCHANGED << rowVars, tabVars >>

\* subscribe, once the browser that saw the error connects again.
Subscribe ==
    /\ eventStream = "cut" /\ eventQueue = << >>
    /\ eventStream' = "open"
    /\ eventQueue' = << [kind |-> "open"], FeedSnapshot(FALSE) >>
    /\ UNCHANGED << rowVars, tabVars >>

\* 429: an event source that is answered so does not try again.
RefuseSubscription ==
    /\ eventStream = "cut" /\ eventQueue = << >>
    /\ eventStream' = "refused"
    /\ UNCHANGED << eventQueue, rowVars, tabVars >>

AnswerPage(load) ==
    [load EXCEPT !.answer = << LogPage(load.query, IF load.baseline = First THEN 0
                                   ELSE Cardinality(DOMAIN load.baseline[1].logs)) >>]

AskedFor(load) == load # NoFeedLoad /\ (load # NoFeedLoad => load.answer = << >>)

AnswerLoad ==
    /\ AskedFor(pendingLoad)
    /\ pendingLoad' = AnswerPage(pendingLoad)
    /\ UNCHANGED << pendingRefresh, pendingMore, isLoadingLogs, requeryRefused >>
    /\ UNCHANGED << rowVars, eventStream, eventQueue, viewVars, streamInterrupted >>

AnswerRefresh ==
    /\ AskedFor(pendingRefresh)
    /\ pendingRefresh' = AnswerPage(pendingRefresh)
    /\ UNCHANGED << pendingLoad, pendingMore, isLoadingLogs, requeryRefused >>
    /\ UNCHANGED << rowVars, eventStream, eventQueue, viewVars, streamInterrupted >>

AnswerMore ==
    /\ AskedFor(pendingMore)
    /\ pendingMore' = AnswerPage(pendingMore)
    /\ UNCHANGED << pendingLoad, pendingRefresh, isLoadingLogs, requeryRefused >>
    /\ UNCHANGED << rowVars, eventStream, eventQueue, viewVars, streamInterrupted >>
--------------------------------------------------------------------------
\* The tab reads its events.
Reads(kind) ==
    /\ eventQueue # << >> /\ Head(eventQueue).kind = kind
    /\ eventQueue' = Tail(eventQueue)
    /\ UNCHANGED << rowVars, eventStream, appliedQuery, requestedQuery, requestError >>

\* markStreamConnected.  "open" is the first event of a connection: the other
\* handlers that call it find the stream connected.
handleOpen ==
    /\ Reads("open")
    /\ streamInterrupted' = FALSE
    /\ IF streamInterrupted THEN Refreshed("reconnect", pendingRefresh, pendingMore)
       ELSE UNCHANGED << pendingRefresh, pendingMore, isLoadingLogs, requeryRefused >>
    /\ UNCHANGED << pendingLoad, logPage, overtaken >>

handleSnapshot ==
    LET event == Head(eventQueue) IN
    /\ Reads("snapshot")
    /\ pendingLoad' = Hearing(pendingLoad, event)
    /\ IF event.invalidated
       THEN /\ Refreshed("always", Hearing(pendingRefresh, event), NoFeedLoad)
            /\ UNCHANGED << logPage, overtaken >>
       ELSE /\ IF appliedQuery = "all"
               THEN /\ logPage' = mergeSnapshotLogPage(logPage, event.page)
                    /\ overtaken' = \E row \in {logPage.latest} \cup DOMAIN logPage.logs :
                                       row > event.page.latest
               ELSE UNCHANGED << logPage, overtaken >>
            /\ pendingRefresh' = Hearing(pendingRefresh, event)
            /\ pendingMore' = Hearing(pendingMore, event)
            /\ requeryRefused' = (requeryRefused /\ ~MakesUpFor(pendingRefresh))
            /\ UNCHANGED isLoadingLogs
    /\ UNCHANGED streamInterrupted

handleLog(operation) ==
    LET event == Head(eventQueue) IN
    /\ Reads(operation)
    /\ pendingLoad' = Hearing(pendingLoad, event)
    /\ pendingRefresh' = Hearing(pendingRefresh, event)
    /\ pendingMore' = Hearing(pendingMore, event)
    /\ logPage' = mergeLiveLogPage(logPage, event, appliedQuery)
    /\ UNCHANGED << isLoadingLogs, requeryRefused, streamInterrupted, overtaken >>

handleError ==
    /\ Reads("error")
    /\ streamInterrupted' = TRUE
    /\ Refreshed("poll", pendingRefresh, pendingMore)
    /\ UNCHANGED << pendingLoad, logPage, overtaken >>

\* pollWhileStreamInterrupted, by its timer
Poll ==
    /\ streamInterrupted
    /\ Refreshed("poll", pendingRefresh, pendingMore)
    /\ UNCHANGED << pendingLoad, rowVars, eventStream, eventQueue, viewVars, streamInterrupted >>
--------------------------------------------------------------------------
\* The requests of the tab.
serverSide == << rowVars, eventStream, eventQueue, streamInterrupted >>

\* fetchPendingLogPage: a snapshot heard meanwhile makes it ask again.
AskAgain(load) == [load EXCEPT !.live = << >>, !.snapshot = FALSE, !.answer = << >>, !.baseline = First]

Answered(load) == load # NoFeedLoad /\ (load # NoFeedLoad => load.answer # << >>)

Replayed(load) == replayLiveLogEvents(load.answer[1], load.live, load.query)

\* The effect of the filters on screen: a new generation, and its load.
LoadFirstPage(query) ==
    /\ requestedQuery' = query
    /\ pendingLoad' = Pending(query, "always", First)
    /\ pendingRefresh' = IF pendingRefresh = NoFeedLoad THEN NoFeedLoad
                         ELSE [pendingRefresh EXCEPT !.superseded = TRUE]
    /\ pendingMore' = NoFeedLoad
    /\ isLoadingLogs' = TRUE
    /\ requeryRefused' = FALSE
    /\ UNCHANGED << logPage, overtaken, appliedQuery, requestError, serverSide >>

SetFilter == \E query \in FeedQuery \ {requestedQuery} : LoadFirstPage(query)

retryLogs == ~isLoadingLogs /\ requestError # << >> /\ LoadFirstPage(requestedQuery)

FinishLoad ==
    /\ Answered(pendingLoad)
    /\ IF pendingLoad.snapshot
       THEN /\ pendingLoad' = AskAgain(pendingLoad)
            /\ UNCHANGED << logPage, overtaken, appliedQuery, requestError, isLoadingLogs >>
       ELSE /\ pendingLoad' = NoFeedLoad
            /\ appliedQuery' = pendingLoad.query
            /\ logPage' = Replayed(pendingLoad)
            /\ requestError' = << >>
            /\ isLoadingLogs' = FALSE
            /\ overtaken' = FALSE
    /\ UNCHANGED << pendingRefresh, pendingMore, requestedQuery, requeryRefused, serverSide >>

FailLoad ==
    /\ pendingLoad # NoFeedLoad
    /\ pendingLoad' = NoFeedLoad
    /\ requestError' = << "first-page", pendingLoad.query >>
    /\ isLoadingLogs' = FALSE
    /\ UNCHANGED << pendingRefresh, pendingMore, requeryRefused >>
    /\ UNCHANGED << logPage, overtaken, appliedQuery, requestedQuery, serverSide >>

\* The finally of refreshAppliedLogPage.
RefreshEnds ==
    /\ pendingRefresh' = NoFeedLoad
    /\ isLoadingLogs' = (isLoadingLogs /\ (pendingRefresh.superseded \/ pendingLoad # NoFeedLoad))

FinishRefresh ==
    /\ Answered(pendingRefresh)
    /\ IF ~isCurrentRefresh(pendingRefresh, streamInterrupted)
       THEN /\ RefreshEnds
            /\ UNCHANGED << logPage, overtaken, requestError, pendingMore >>
       ELSE IF pendingRefresh.snapshot
       THEN /\ pendingRefresh' = AskAgain(pendingRefresh)
            /\ UNCHANGED << logPage, overtaken, requestError, pendingMore, isLoadingLogs >>
       ELSE /\ RefreshEnds
            /\ pendingMore' = NoFeedLoad
            /\ logPage' = Replayed(pendingRefresh)
            /\ requestError' = IF requestError # << >> /\ requestError[2] = pendingRefresh.query
                               THEN << >> ELSE requestError
            /\ overtaken' = FALSE
    /\ UNCHANGED << pendingLoad, appliedQuery, requestedQuery, requeryRefused, serverSide >>

\* catch: the error on show is kept when it is a first page's.
ErrorOf(operation, query) ==
    IF requestError # << >> /\ requestError[1] = "first-page" THEN requestError
    ELSE << operation, query >>

FailRefresh ==
    /\ pendingRefresh # NoFeedLoad
    /\ RefreshEnds
    /\ requestError' = IF isCurrentRefresh(pendingRefresh, streamInterrupted)
                       THEN ErrorOf("refresh", pendingRefresh.query) ELSE requestError
    /\ UNCHANGED << pendingLoad, pendingMore, requeryRefused, logPage, overtaken,
                    appliedQuery, requestedQuery, serverSide >>

hasStaleLogs ==
    \/ requestError # << >> /\ requestError[1] # "more"
    \/ appliedQuery # requestedQuery

loadMoreLogs ==
    /\ ~hasStaleLogs /\ ~isLoadingLogs /\ pendingMore = NoFeedLoad /\ logPage.more
    /\ pendingMore' = Pending(appliedQuery, "always", << logPage >>)
    /\ UNCHANGED << pendingLoad, pendingRefresh, isLoadingLogs, requeryRefused >>
    /\ UNCHANGED << viewVars, serverSide >>

\* The baseline grown by the page and by what was heard meanwhile.
MorePage(load) ==
    LET baseline == load.baseline[1]
        grown    == [appendLogPage(baseline, load.answer[1])
                        EXCEPT !.limit = Cardinality(DOMAIN baseline.logs) + PageLimit]
    IN  [replayLiveLogEvents(grown, load.live, load.query) EXCEPT !.limit = PageLimit]

FinishMore ==
    /\ Answered(pendingMore)
    /\ IF pendingMore.snapshot
       THEN /\ pendingMore' = AskAgain(pendingMore)
            /\ UNCHANGED << logPage, overtaken, requestError >>
       ELSE /\ pendingMore' = NoFeedLoad
            /\ logPage' = IF pendingMore.baseline = First THEN Replayed(pendingMore)
                          ELSE MorePage(pendingMore)
            /\ requestError' = IF requestError = << "more", pendingMore.query >> THEN << >>
                               ELSE requestError
            /\ overtaken' = FALSE
    /\ UNCHANGED << pendingLoad, pendingRefresh, isLoadingLogs, requeryRefused >>
    /\ UNCHANGED << appliedQuery, requestedQuery, serverSide >>

FailMore ==
    /\ pendingMore # NoFeedLoad
    /\ pendingMore' = NoFeedLoad
    /\ requestError' = ErrorOf("more", pendingMore.query)
    /\ UNCHANGED << pendingLoad, pendingRefresh, isLoadingLogs, requeryRefused >>
    /\ UNCHANGED << logPage, overtaken, appliedQuery, requestedQuery, serverSide >>
--------------------------------------------------------------------------
\* Studio opens: the first effect has run and the stream is subscribed to.
FeedInit ==
    /\ feedRows = << >> /\ feedSequence = 0 /\ pruning = FALSE
    /\ eventStream = "open"
    /\ eventQueue = << [kind |-> "open"], FeedSnapshot(FALSE) >>
    /\ logPage = emptyLogPage
    /\ appliedQuery = "all" /\ requestedQuery = "all"
    /\ pendingLoad = Pending("all", "always", First)
    /\ pendingRefresh = NoFeedLoad /\ pendingMore = NoFeedLoad
    /\ isLoadingLogs = TRUE
    /\ requestError = << >>
    /\ streamInterrupted = FALSE
    /\ requeryRefused = FALSE /\ overtaken = FALSE
    /\ disturbances = 0

FeedNext ==
    \/ /\ UNCHANGED disturbances
       /\ \/ \E hit \in BOOLEAN : RecordRow(hit)
          \/ AnnouncePrune
          \/ Subscribe \/ RefuseSubscription
          \/ AnswerLoad \/ AnswerRefresh \/ AnswerMore
          \/ handleOpen \/ handleSnapshot \/ handleLog("insert") \/ handleLog("update") \/ handleError
          \/ Poll
          \/ FinishLoad \/ FinishRefresh \/ FinishMore
    \/ /\ disturbances < MaxDisturbances /\ disturbances' = disturbances + 1
       /\ \/ \E row \in DOMAIN feedRows : SettleRow(row)
          \/ \E kept \in 1 .. MaxRows : PruneRows(kept)
          \/ BroadcastSnapshot
          \/ LoseStream
          \/ SetFilter \/ retryLogs \/ loadMoreLogs
          \/ FailLoad \/ FailRefresh \/ FailMore

FeedSpec == FeedInit /\ [][FeedNext]_feedVars
--------------------------------------------------------------------------
\* Nothing is on its way to the tab, and it shows no failed request.
FeedQuiet ==
    /\ eventStream = "open" /\ eventQueue = << >> /\ ~pruning
    /\ pendingLoad = NoFeedLoad /\ pendingRefresh = NoFeedLoad /\ pendingMore = NoFeedLoad
    /\ requestError = << >> \/ requestError[1] = "more"

ShowsNewestRows ==
    LET logs == logPage.logs IN
    /\ logs = NewestOf(Versions(Matching(appliedQuery)), Cardinality(DOMAIN logs))
    /\ \/ Cardinality(DOMAIN logs) >= PageLimit
       \/ DOMAIN logs = Matching(appliedQuery)

CountsRows ==
    /\ logPage.total = Cardinality(Matching(appliedQuery))
    /\ logPage.more = (Cardinality(DOMAIN logPage.logs) < logPage.total)

\* Whatever the order in which pages, live rows, updates, prunes and lost
\* connections reached the tab, when nothing is on its way it shows the newest
\* rows of the query applied, each as the server has it and without a gap, and
\* counts them right.  Two cases are set aside: a re-query refused because of a
\* request that will not make up for it, and the counts of a snapshot that was
\* read after a newer page.
QuietFeedIsExact ==
    FeedQuiet /\ ~requeryRefused => ShowsNewestRows /\ (overtaken \/ CountsRows)

\* "A reconnect snapshot may not overlap the loaded window. Re-query even
\* unfiltered pages so subsequent offsets start from a contiguous page"
\* (useLogFeed.ts:340).
ReconnectsRequery == FeedQuiet => ShowsNewestRows
=============================================================================
