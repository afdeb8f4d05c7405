# CompactGate verification

TLA+ specifications of CompactGate, model-checked with TLC, and theorems about
them checked with TLAPS. CompactGate is a local gateway: coding agents send
OpenAI- and Claude-style requests to it, it routes each one to a configured
upstream, moves sessions between keys as they fail, keeps a log of what
happened and serves a Studio in which the operator edits the configuration.
It is one Node.js process; everything below is about what may happen between
two turns of its event loop, between two processes, and between the process
and its disk.

Contents: [the system](#the-system) · [the plan](#the-plan) ·
[modules](#modules) · [runs](#runs) · [fairness](#fairness) ·
[proofs](#proofs) · [disagreements](#where-code-and-documentation-disagree) ·
[assumptions](#modelling-assumptions) · [not modelled](#not-modelled)

## The system

Paths are relative to `src/src/server` unless they begin with `ui`.
"Correct" says what makes the part correct; the hazards of `PROJECT.json` list
the lines where that is hard to test.

| Part | State | Operations | Hard | Correct |
|---|---|---|---|---|
| **Codex primary scheduler** `primary-failover*.ts` | health record per key, three maps of session pins, signatures, generation, forced profile | preview, reserve, record a result, force | requests stay open for minutes and report in any order, over edits | load is exact; nothing is learned about, or pinned to, a credential that did not earn it; blocks hold; blocked keys and keys that opted out get no traffic |
| **Claude key pool** `claude-key-pool.ts` | the same, per Claude profile, reconciled when a profile is used | select, record a result | as above, and reconciliation that comes late | as above |
| **Configuration store** `config.ts`, `config-file-repository.ts` | configuration and revision in memory, one queue of mutations, file, ring of backups | patch, profile mutations, import, restore, delete a backup, load | every file-system call may fail or be the last; saves whose durability is in doubt | acknowledged edits survive, memory and file agree, patches land on what their author saw, nothing is overwritten without a backup |
| **Configuration profiles** `config-profile-*.ts`, `config-runtime.ts`, `config-route-presets.ts` | none: pure functions of a configuration | upsert, apply, delete, reorder; validation; runtime view | profiles and the live routes mirror each other | switching profiles keeps what every other one holds |
| **OAuth connections** `oauth-store.ts`, `oauth-*.ts` | sessions, accounts in memory and file, refreshes under way, one write queue | start, begin, complete, cancel, expire, refresh, disconnect, close, load | the provider, the disk and the user answer in any order | ended sessions tell the truth and are not revived; a disconnect is for good; tokens never go back |
| **Request log** `logger.ts` | rows, bodies, WAL; a paused prune | add, configure, prune in stages, purge, close, queries | writes arrive between the stages of a prune | bodies go before rows, Studios learn of every change, a prune that was asked for runs |
| **Debug captures** `debug-capture.ts` | files, byte estimate, prune loop, `capture_status` of the rows | write, read, prune, configure, flush, reconcile at start-up | writes during a scan | a row that offers a capture has it; the directory comes back below its cap |
| **Studio events and feed** `studio-events.ts`, `ui/hooks/useLogFeed.ts` | connected streams; the window of rows a page shows | broadcast, drop a slow client; fetch, replay | events arrive while a page is fetched | the page shows the rows there are, each once |
| **OpenAI proxy transaction** `openai-proxy*.ts`, `routing.ts` | one request from its body to its log row | plan, select, send, retry, finish | configuration and schedule move while a body is read | what leaves the server suits the upstream it goes to, in one configuration |
| **Provider-state migration** `provider-state-*.ts`, tables in `logger.ts` | the attempts made; bindings and recovery evidence in SQLite | try, recognise a refusal, change strategy; upsert by generation and version, expire | a request must not be replayed twice; requests finish in any order | a conversation survives the change of its provider; where it is bound does not depend on who finishes first |
| **Compaction bridge** `compaction-bridge.ts` | three caches of compaction states and fallback items | remember, rewrite a follow-up | caches with different caps | a follow-up never refers to what the upstream cannot know |
| **Upstream exchange** `upstream-client.ts`, `upstream-*.ts` | one attempt with its timers and listeners | send, settle, retry, drain | timeout, client, upstream and end of stream race | settled exactly once; never retried after bytes went out |
| **Upstream connection agents** `upstream-proxy-agent.ts` | a cache of agents, their idle sockets and tails, the servers that use them | connect, release, evict, drain | an agent is retired while requests use it | no connection outlives its use |
| **Protocol conversion** `protocol-conversion.ts`, `protocol-stream.ts` | translators with open blocks | one event in, events out | early ends, interleaved blocks, dialects | the client can read its stream, a cut answer never passes for a whole one, and streaming loses nothing |
| **Claude proxy and models** `claude-proxy.ts`, `claude-models.ts` | none of its own | route, map scenes and models | as the OpenAI proxy | as the OpenAI proxy |
| **Client identity, Codex version** `client-identity*.ts`, `codex-version.ts` | observed versions, file | observe, persist, fall back | late writes after close | what the operator typed stays |
| **HTTP server and shutdown** `http.ts`, `main.ts`, `api-*.ts` | open requests, owners | start, drain, close | the order of closing | nothing is used after it was closed, a clean exit has waited for every request and file |
| **Studio editor** `ui/config/*`, `ui/hooks/useConfigActions.ts` | drafts and the revision they began with | edit, save, apply, reload | other tabs and the scheduler save meanwhile | a draft is neither lost nor saved over somebody else's edit |
| **Usage** `usage*.ts` | none: pure functions | read and merge token counts | frames that restate or omit counts | a stream costs what the same answer costs whole |
| Model lists, launcher, static files, pages, scripts | | | | no protocol |

How they interact. A request handler awaits the body, reads the configuration
(`ConfigStore.get`), asks the scheduler or the key pool for a key, lets the
compaction bridge and the model rules rewrite the body, sends the exchange
through an agent, with a translator on the way back, and possibly again with a
migrated body; it reports the verdict (`recordResult`), binds the conversation
to its provider, adds a log row and writes a capture, whose outcome it records
in the row. Edits come from Studio handlers and from the scheduler
(`syncScheduledPrimaryProfile`) through the one queue of the store; handlers
then push snapshots to the Studios and configure the log and the captures.
Shutdown closes the owners in a fixed order: events, version monitor, identity,
OAuth; then it awaits the requests, flushes captures, identity and OAuth, and
closes the log.

## The plan

Done, in this order:

1. **PrimaryFailover** - every Codex request depends on it, and no test reaches
   its interleavings.
2. **ConfigStore** over the abstract **ConfigRegister** - what users lose when
   it is wrong cannot be had again.
3. **OAuthStore**, **CaptureFiles**, **LogPrune** - the other owners of files,
   with their queues and loops.
4. **UpstreamExchange** over the abstract **UpstreamAnswer** - where a timeout,
   a client, an upstream and the end of a stream race for one verdict.
5. **StreamPipes** with the translators **AnthropicToResponses**,
   **ResponsesToAnthropic**, **ChatToResponses**, over
   **ProtocolConversion** as the reference: what streaming an answer should give.
6. **Gateway**, a running server: **ClaudeKeyPool**, **StateRecovery** with
   **StatePortability**, **CompactionBridge**, **ProxyAgents**,
   **ServerShutdown**, **ClaudeRouting**, **CodexRouting**.
7. **Studio**, what the operator sees and saves: **LogFeed**, **CaptureFiles**,
   **StudioDraft** over **ConfigProfiles**, **ClientIdentity**.

8. Theorems about the parts of the Gateway (`GatewayProofs`): keys answer for
   themselves, bindings ignore the order in which requests finish, foreign state
   is shed, connections are accounted for, requests suit their upstream,
   compactions come back, a clean exit has waited for every request.
9. Theorems about the parts of the Studio (`LogFeedProofs`, `StudioProofs`):
   typed identities stay, drafts keep the edits and credentials they did not see,
   the sync respects the operator's choice, captures are accounted for, a quiet
   feed is exact.

Next:

10. The Codex version monitor, next to the identity store.
11. One request end to end: PrimaryFailover, ConfigStore, CodexRouting and
    UpstreamExchange with their interfaces in common, and the reservation
    released once over all migrations of a request.
12. The rest of the conversions (images, documents, tool definitions), import
    validation and route presets, as operators checked over small inputs.

## Modules

| Module | Models | Code |
|---|---|---|
| `PrimaryFailover` | the scheduler with its health and stickiness stores | `primary-failover*.ts`, `credentials.ts` |
| `ConfigRegister` | what the store promises: one configuration, edits that are whole, nothing acknowledged taken back | (abstract) |
| `ConfigStore` | the queue, the revision check, saving, backups, restarts; refines `ConfigRegister` | `config.ts`, `config-file-repository.ts` |
| `OAuthStore` | sessions, accounts, refreshes, write queue | `oauth-store.ts` |
| `CaptureFiles` | the capture writer, its prune loop, the rows' `capture_status` | `debug-capture.ts`, parts of `logger.ts`, handlers |
| `LogPrune` | the storage cap of the log | `logger.ts` |
| `UpstreamAnswer` | what a client is promised: one head at the most, no attempt after it | (abstract) |
| `UpstreamExchange` | the attempt, its timers and listeners, the retry loop, the handler's answer; refines `UpstreamAnswer` | `upstream-client.ts`, the end of the handlers in `openai-proxy.ts` and `claude-proxy.ts` |
| `StreamStage`, `UsageMetrics` | what the translators share; reading and merging token counts | `protocol-stream.ts`, `usage*.ts` |
| `AnthropicToResponses`, `ResponsesToAnthropic`, `ChatToResponses` | the translators | `protocol-stream.ts` |
| `ProtocolConversion` | whole answers converted, and the history a client sends back | `protocol-conversion.ts` |
| `StreamObserver` | how a stream ended, what it cost | `upstream-openai-stream.ts`, `sse-frames.ts` |
| `StreamPeers` | upstreams and clients at the two ends | (external) |
| `StreamPipes` | one answer through a transform, between two observers | `protocol-stream.ts`, `openai-proxy.ts`, `claude-proxy.ts` |
| `ClaudeKeyPool` | keys of Claude profiles: selection, pins, verdicts, quarantine | `claude-key-pool.ts` |
| `StatePortability`, `StateRecovery` | bodies without foreign state; the loop of attempts, evidence, bindings | `provider-state-*.ts`, `host-quirks.ts`, `logger.ts`, `openai-proxy.ts` |
| `CompactionBridge` | compactions by one provider, continued on another | `compaction-bridge.ts`, `compact-response-normalizer.ts`, `openai-proxy.ts` |
| `ProxyAgents` | agents, their sockets and tails | `upstream-proxy-agent.ts` |
| `ServerShutdown` | the order in which the server stops | `http.ts`, `main.ts` |
| `ClaudeRouting` | a request of `/anthropic` on its way to an upstream | `claude-proxy.ts`, `claude-models.ts`, `protocol-conversion.ts` |
| `CodexRouting` | a request of `/v1` on its way to an upstream | `openai-proxy*.ts`, `routing.ts`, `request-profile.ts` |
| `Gateway` | `ClaudeKeyPool` to `CodexRouting`, side by side | |
| `LogFeed` | rows, event stream and the window of a page | `studio-events.ts`, `useLogFeed.ts`, `log-utils.ts`, queries of `logger.ts` |
| `ConfigProfiles` | patching, saving, applying, deleting, reordering profiles | `config-*.ts` |
| `StudioDraft` | pages that edit the configuration, scripts and the background sync | `ui/config/*`, `ui/hooks/*`, `config.ts`, `openai-proxy.ts` |
| `ClientIdentity` | the identity store, its queue and file | `client-identity-store.ts`, `client-identity.ts` |
| `Studio` | LogFeed, CaptureFiles, StudioDraft and ClientIdentity, side by side | |
| `MC*` | the instances TLC checks (`oauth` and `streams` need no definitions of their own and check `OAuthStore` and `StreamPipes` directly) | |
| `*Proofs` | the theorems | |

`PROJECT.json` maps every definition to its lines. The correspondence in short:

**PrimaryFailover.** `config` is what `ConfigStore.get` returns. `health[c]` is
the record in the health store, with its load, strikes, five kinds of deadline
(cooldown, quarantine, rate limit, sticky-only reserve, per-model cooldown) and
`version`; `pins` are the three maps of the stickiness store; `req[r]` is the
selection an open request holds. `Route` is preview and reserveSelection in one
synchronous block: it reconciles with the configuration (`Reconcile`), follows a
pin or draws among the contenders (`Choices`), and counts the load.
`RouteUnscheduled` is a request the scheduler has no say in. `Observe` is a
preview for display. The verdicts are actions of their own: `Succeed`,
`RefuseAccount` (401, 402, 403), `RefuseRate` (429), `FailTransiently`,
`RefuseModel`, and `Return` without a verdict; each discards what
`recordResult` discards. `ApplyProfile` is forceNextProfileSelection,
`EditConfig` any other committed edit. Latency and error rates only widen the
set a draw is made from.

**ConfigStore.** A configuration is the set of edits it incorporates.
`running.stage` is the file-system call that is awaited: back up, sync the
backup, prune the ring, write and flush the temporary file, rename, sync the
directory. Each is an action, and `Fail` is the failure of any. `file` is what
the directory shows, `olderFiles` what a machine crash may bring back because
the directory was not synced since; `backups` and `unsettled` likewise.
`ProcessRestart` and `MachineRestart` may happen at any state.

**OAuthStore.** `status` is a session's, `asking` and `refreshes` are the calls
to the provider under way, `queue` is the write queue and `writing` the file
write that is awaited, which ends written, failed or in doubt. `overdue` are the
sessions whose deadline has passed, ended ones included: `requireSession` and the
timer look at it only for a session that is pending (`Lapsed`), `assertPending`
for any that is not being saved (`PastDeadline`). So a session that was cancelled
while the provider was asked, or while its account was queued, is finished a
second time, as `expired`, when the late answer or the queue comes to it after
the deadline. `EndedSessionsStayEnded` names that as the one change an ended
session can go through; what test/oauth-store.test.ts:110 ("cancellation wins over
a late token response") is about, that nothing connects it, holds.

**CaptureFiles.** `prune` is the loop with the list, sizes and protected paths
of the pass under way; `List`, `Measure` and `Delete` are its awaits.
`orphaned` and `skipped` are history: files a crash kept the loop from
reporting, and writes that asked for no scan while one was running.

**LogPrune.** Each `Advance` is one call of the timer: `Begin` (measure,
checkpoint), `ClearBodies`, `Reclaim` (VACUUM) and `LoopStep` (checkpoint,
measure, delete). `size` is the database file, which shrinks only in a VACUUM,
`wal` what a checkpoint gives back. `Add`, `Configure`, `PurgeStoredBodies`,
`Close` and `Restart` come between any two.

**UpstreamExchange.** `stage` is where the loop stands, `tries` the attempts that
reached the upstream, `timer` the deadline of an attempt or the end of a delay,
`up` the upstream's request and then its response, `verdict` is `settled` and
how. `resp` is the active response: `source` and `sink` say whether its terminal
event was seen before and after the adapter, `cut` that it outgrew its buffer,
`started` is `responseResolutionStarted`, `left` a client that left after the
terminal event. `heads` and `client` are the client's response. `Begin`, `Retry`,
`Wake` and `Answer` are the loop. The endings that race are actions of their own:
`RequestFails`, `Respond` (an answer that no adapter takes), `Receive` and
`Translate` (too large), `ResponseEnds`, `ResponseBreaks`, `Flush`, `Resolve`,
`ClientLeaves` and `TimeIsUp`. `DrainEnds` and `PausedBreaks` are what becomes
of a response whose client left.

**StreamPipes.** An upstream (`up`) offers the frames it may send next; `first`
and `second` are the translators a transform composes, records with the fields
of the code's closures; `client` reads what comes out and notes the first frame
that has no place in its protocol; `source` and `sink` are the observers. The
reader of a Responses stream adds every fragment to the text its item came with,
and notes in `twice` the items whose text it was told a second time.
`Frame` is one frame all the way through, `GarbledFrame` one whose JSON a relay
broke, `LargeFrame` one the observer does not keep, `EndOfStream` the flush.
Text and arguments are counted in fragments. `ProtocolConversion` gives the
reference twice: what converting the whole answer would have given, and what the
next request makes of the history the client then holds.

**ClaudeKeyPool.** `RouteClaude` reconciles the profile and reserves a key in
one block, `SendClaude` marks the attempt; the verdicts are `SucceedClaude`,
`RefuseCredential`, `LimitRate`, `FailTransiently`, and `ReleaseClaude` for an
answer that says nothing. `EditClaudeRoute` and `PassClaudeTime` come between.

**StateRecovery.** `turns[r]` is one run of the loop: its body, strategy, the
bodies tried. `ArriveTurn` takes the time that becomes the version of the binding
(`startedAt`); between it and `SendTurn`, which begins the loop with what binding
and evidence then say, lie the waits for the body, the token and the pointer, so
that requests may read bindings in another order than they arrived in.
`RefuseTurn` is an answer that ends it or asks for another body, `RepairTurn`
the next attempt, `SucceedTurn` and `EndTurn` write binding and evidence.
`claims` is history: of each identity, what every success said of it since it has
a row.
`StatePortability` has the bodies: the client's, the ones a cleanup and a strict
cleanup make of it, and the repairs a refusal names. A cleanup keeps the items
it does not drop in their places (`Keeping`), where the code closes the gaps: on
the instance the reachable states are the same.

**CompactionBridge.** `AskForCompaction`, `ReceiveCompaction` or
`LoseCompaction`, and `FollowUp`, the turn that sends the item back, over
`EditBridgeConfig` and `PassBridgeTime`. A map goes from keys to entries, and an
entry counts the writes since its own (`age`), which is the order the code evicts
in; the three maps keep their caps and their lifetimes.

**ProxyAgents.** Actions are named for the code's functions
(`resolveUpstreamAgent`, `drainResponse`, `retainUpstreamProxyAgents`) or for
the event a listener hears (`ConnectSucceeds`, `SocketFreed`, `IdleTimerFires`,
`PeerCloses`, `RequestDestroyed`, `FinishesDrain`).

**ServerShutdown.** A request is served, responded, logged, captured; `Shutdown`
begins the drain, `GraceEnds` cuts it, `Drains`, `AllSettle`, `CapturesFlush`
and `ClosesDatabase` are its awaits, `Exits*` the exit codes. A capture prune
and an identity write run beside it. A request whose finalization throws
(`FinalizationFails`) is `dropped` from the set of those awaited if the drain has
not begun, and may then be without its row or its capture at a clean exit, which
`CleanExitAwaitsRequests` says; during the drain it is `rejected` and costs the
exit code.

**ClaudeRouting, CodexRouting.** A request is what has become of it: the body
as far as it was read, the plan, the prepared request, the status. The actions
lie between the awaits of the handlers: in `ClaudeRouting` the body (`Route`,
`LoseBody`), the OAuth token (`Prepare`, `FailPreparing`) and the upstream
(`Conclude`); in `CodexRouting` the body (`PlanPrimary`, `PlanCompact`,
`CodexLoseBody`), the token (`PrepareAccount`, `FailAccount`), the save that
moves the active profile (`LeavePointer`, `MovePointer`, `FailPointer`), the
replay of a compaction, the attempt and the upstream. `Save` and `CodexSave` are
edits at any of them.

**LogFeed.** `feedRows` is the table; `eventQueue` what the tab has yet to read
of the stream; `pendingLoad`, `pendingRefresh` and `pendingMore` are its three
kinds of request with the answer on its way, `logPage` and `appliedQuery` what
is on screen. The hook's handlers are actions of their own.

**StudioDraft.** `versions[r]` is the configuration of revision r, `pages[p]`
the form, the baseline, the revision, the snapshots on their way and the request
under way. `Hears` takes a snapshot, `Receives` an answer, in any order;
`ServesMutation`, `ServesLoad` and `Refuses` are the server. Scripts move the
pointer and rename, `RestoresBackup` replaces everything. `TurnArrives` is a
request that takes a configuration before its body is read, `TurnRoutes` the
second look it routes and reconciles with, `TurnChecks` and `TurnSyncs` its
background sync. Three fields are
history: `mine`, the fields of the form its operator edited or chose (an import
adopted while a request is under way counts as an edit); `refilled` of a request,
the revision a snapshot filled the form with after it was sent; and `astray`, that
an answer then moved `formRevision` although the form stems from another
revision.

**ClientIdentity.** `writes` is the queue, whose head is composed, renamed over
the file and committed (`WriteStarts`, `WriteCommits`) or fails; observations,
typed values and registry answers arrive meanwhile.

## Runs

| Run | States | Question |
|---|---|---|
| `failover_edits` | 547k, 2 min | Keys of two profiles are rotated, disabled and come back while requests with every verdict class are open. Is load exact, are evidence and pins those of the credential, and does only a success routed after the last failure lift a block? |
| `failover_rotation` | 324k, 2 min | A pool with priorities and spread, opt-out, manual mode. Whom may the scheduler send a request to? |
| `failover_apply` | violation | See below. |
| `store` | 784k, 1 min | Two clients, three edits, one restart, a ring of one backup, any call failing, crashes anywhere. Does a restart find what was saved, is every edit answered, is the store a register? |
| `oauth` | 200k, 12 s | Two sessions, two refreshes or disconnects, writes that fail or stay in doubt, close and restart. |
| `captures_cap` | violation | See below. |
| `logs` | 87k, 8 s | Five rows with or without bodies, two edits or purges, one restart, one failed statement. |
| `logs_reclaim` | violation | See below. |
| `upstream` | 87k, 3 s | All combinations of the callers' options, up to two retries, a budget of four ticks, every order of the endings. Is a request answered once, in time, by the right verdict, and is its upstream let go? |
| `streams` | 1.25M, 1 min | Six transforms, five dialects of Chat; answers of up to two blocks of up to two fragments; one frame garbled or too large; silence anywhere. Can the client read it, does a cut show, is streaming as good as converting, and does the history come back? |
| `gateway` | 1.14M, 2 min | The seven parts of a server. Can late verdicts, requests that finish in another order than they arrived, compactions that change models, retired agents, a drain or a save in the middle of a request send a request where it does not belong, or lose what the server owes? |
| `studio` | 1.71M, 2 min | A feed of two rows with a page of one and three events on their way; two captures whose sum exceeds either cap; two pages with two drafts, three scripts and the background syncs of two requests; an identity with three writes. Is what the Studio shows and saves so? |

**Compositions.** The parts of `Gateway` meet in one process but share no
variable, and no property relates two of them: each behaviour of one part is
explored while the others stay as they start, which leaves out reorderings of
independent steps only. The same goes for `Studio`. Each part is a module of its
own with its own `Init` and `Next`, and can be instantiated alone. What one part
hands to another is nondeterministic in the other: which key the pool picks is
any key of the route in `ClaudeRouting`, what the scheduler picks and what the
bridge knows is anything they may say in `CodexRouting`.

**Why the bounds are enough.** Every hazard listed needs at most two requests
and one actor that interferes, except a late success after an unrelated
failure, for which the pools have three. Two values of a cap, a
credential or a configuration are what it takes to change one. A restart or a
failure matters by what it interrupts, and one can interrupt every state.
`MaxTime`, `MaxGeneration`, `MaxVersion`, `MaxBoot`, `MaxCalls`, `MaxRows`,
`MaxEdits`, `MaxRestarts`, `MaxFailures`, `MaxKeyTime`, `MaxKeyEdits`,
`MaxRecoveryTime`, `MaxBridgeTime`, `MaxBridgeEdits`, `MaxCompactions`,
`MaxAgents`, `MaxIdentityChanges`, `MaxSaves`, `MaxCodexSaves`,
`MaxDisturbances`, `MaxWrites` and the bounds of a mix of actors
(`MaxDrafted`, `mix.versions`, `mix.sent`) only occur in guards; the theorems
hold for all values of those in the modules they are about. `UpstreamExchange`
needs no such bound: its budget and
its retries are the code's own, and four ticks let a delay be asked for, be
capped and be refused because it would outlast the budget. In the streams,
two blocks (`MaxBlocks`) let one be open while another begins and one follow a
closed one, two fragments (`MaxN`) let one be lost or doubled, and one
disturbed frame (`MaxLost`) can be any frame. In the routing modules one request
with two saves sees a different configuration at every await, and the saved
configurations differ in protocol, host, pool, credentials, scenes and models.
Thresholds of the code (three strikes, eight pending sessions, a hundred rows,
twenty passes, the caps of the bridge and of the agents) are constants with
small values, so that the runs reach them. Each property of a passing run has a
mutant of the code, listed in `PROJECT.json`, that breaks it on the same
instance.

Two instances leave a part of a property to the proofs. In `failover_edits` no
request names a model, so that `BlockLiftedOnlyByLaterSuccess` is about the
deadlines of a whole key there; `BlocksHold` is about those for one model, too.
In `studio` a page of one row over two rows cannot have a gap between its rows,
so that `QuietFeedIsExact` is about rows that are missing at the end, stale or
counted wrong; `FeedIsExact` and `StudioFeedIsExact` hold for any rows and pages.

Symmetry is used where actors are interchangeable and no property is a liveness
property: the requests of `failover_edits` and `failover_apply`, and the pages of
the Studio.

Deadlock is checked in the `failover`, `store` and `oauth` runs. The other
systems may stop: a process that was closed and is not started again (`logs`,
`gateway`, `studio` and the captures), a request that was answered or a stream
that ended, with nothing else to come (`upstream`, `streams`, `gateway`).

## Fairness

Liveness is claimed in four places, each under weak fairness of what the
runtime does by itself, never of what a client or an operator does:

- `ConfigStore`: `ServerStep`. The event loop runs queued continuations, and a
  file-system call returns, with success or an error. `EveryEditIsAnswered`.
- `OAuthStore`: the write step, the passing of time and the expiry timer. The
  provider is not assumed to answer. `SessionsEnd`.
- `LogPrune`: `Advance`, the timer. `PrunesAreServed`.
- `UpstreamExchange`: time passes, timers fire, continuations run, drains end
  (they have limits of their own). Neither the upstream nor the client nor an
  adapter owes anything: the deadline alone ends a request. `EveryRequestEnds`.

The modules of `Gateway`, `Studio` and `StreamPipes` state what holds at
quiescence as invariants instead ("when nothing is on its way", "once the stream
ended"), which needs no fairness.

## Proofs

All theorems hold for every value of the constants that satisfies the named
assumptions: any sets of keys, profiles, requests, clients, edits, sessions and
rows, any thresholds, and without the bounds.

**PrimaryFailoverProofs** - `TypeCorrect`, `LoadExact`, `EvidenceIsOwn`,
`PinsAreOwn`, `BlocksHold`, `BlockedAreSpared`, `OptedOutAreLeftAlone`. None of the properties is inductive: that a verdict is credited to
the right credential depends on how old its reservation is. `IInv` adds that
records are kept for exactly the keys the last preview saw (`Tracked`), and that
a reservation is no younger than the generation, older than it once its key is
gone, and sent with the record's credential while the record it names is kept
(`Dated`). The invariant is stated over the parts of a state, to be carried
through the two halves of a `Route` step. For the blocks, `JInv` adds that an open
request never knows a later version than its record, and an earlier one if a
failure came in since it was routed (`Ordered`); so a success that finds its own
version was routed after the last failure. The last two are about one step of
routing: whatever the strategy, the pins and the draw, `Choices` offers a
blocked key only while no other takes new sessions.

**ConfigStoreProofs** - `StoreTypeCorrect`, `WholeFiles`, `AcknowledgedStay`,
`MemoryAgrees`, `StoreIsARegister`, `PatchesAreNotBlind`, `NothingIsLost`. The
layers: who waits for the queue (`Waiting`); that memory and file agree except
between rename and confirmation, and that what is being written holds what it
must (`Agrees`, `Merging`); what a revision says about the configuration its
holder saw (`RevisionInv`, `Checked`); that the configuration about to be
replaced is in a settled backup (`BackupInv`). `StoreIsARegister` is the
refinement: initial states map to initial states, and every step to a step of
the register or to none.

**OAuthStoreProofs** - `OAuthTypeCorrect`, `MemoryIsTheFile`,
`DisconnectedForGood`, `EndingsAreTrue`, `EndingsStand`, `TokensAdvance`.
`OAuthInv` says that memory and file move together, that a session has no
account before its own write, and that whoever wants to write an account back
began with an active one. It also says which sessions a late
answer or a queued account can still belong to, and that a session has one
queued account at most (`Traded`, `OneConnect`): those that have failed or are
connected are not among them, which is why only a cancelled one can end twice.
That an ending tells the truth needs what a write under way may still change
(`Truthful`); that tokens advance needs that whatever
is queued or written carries tokens no older than those it replaces and none
that was not issued (`TokensInOrder`).

**LogPruneProofs** - `LogTypeCorrect`, `BodiesFirst`, `StudiosAreTold`.
`PruneInv` says that, once bodies were cleared, none is stored unless a write has
asked for another prune, and that a prune that has not begun has changed
nothing. That the newest row stays needs an argument about cardinalities
(`NewestStays`).

**UpstreamExchangeProofs** - `ExchangeTypeCorrect`, `BudgetIsShared`,
`UpstreamIsReleased`, `TerminalDecides`, `AnswersOnce`. `ExchangeInvariant` is
the induction. It says that timers end within the budget (`TimersInBudget`), that
between two attempts nothing was sent and another one is allowed
(`BetweenAttempts`), in which states anything is still expected of the upstream
(`Waited`), that a head was written only for a response that is not deferred
(`Written`), and when the observers can have seen what they claim (`Observed`).
That no attempt follows a head comes from `Written`: what is retried was
deferred. `AnswersOnce` is the refinement of `UpstreamAnswer`.

**GatewayProofs** - eight theorems about behaviours of the Gateway, at least one for
each part; every step of the Gateway is a step of the part or leaves it alone.
`CleanExits` rests on `ShutdownInv`: each stage of the drain keeps what the one
before it waited for. It does not say that every request has its row and capture:
one whose finalization threw before the drain began is its one exception.
`KeysAnswer` rests on `KeysInv`, the same distinction as in the Codex scheduler
(records, reservations and pins are of the credential that was routed), over
reconciliation that comes late. `BindingsInOrder` rests on
`RowsInv`: the row of an identity is one of the claims made on it since it has
one, version included, and outranks all others.
`StateIsShed` follows a request whose provider is well and is not the one that
issued its state (`ByTheBook`). Each body it was refused carried foreign state, it
was sent at most three before the strict cleanup, and in a known order
(`OnCourse`). The body of the strict cleanup carries none, so it is none of those
that were refused, and a refusal always finds the next body. What an attempt
keeps of a body is proved for every body (`AttemptIs`).
`ConnectionsAccounted` carries `ConnectionsOk`, what each idle socket, timer and
tail says of its agent, through every way of letting go of a connection
(`AgentsInv`). `ThinkingFits` and `RequestsSuit` say of a request that waits for a
token that what was planned still suits the configuration it was planned from
(`RoutingInv`, `CodexInv`); their lemmas go through the rules of the models and
the body once, for all bodies. `CompactionsReturn` says what the bridge keeps of
each compaction of each client, and that whatever is evicted is older
(`BridgeInv`). The assumptions are `KeyPoolAssumption`, `AgentsAssumption`,
`RoutingAssumption`, `CodexAssumption`, `SituationAssumption` and
`BridgeAssumption`, each beside the constants it is about.

**LogFeedProofs** - `FeedIsExact`. `QuietFeedIsExact` says nothing of a feed on
which something is on its way; the inductive invariant `FeedInv` says what such a
feed still lacks, and where it is to come from.

- The queue, read as one stream, tells every row recorded after the first it
  tells of, in order, and the update of every row it tells as first recorded
  (`EventStream`); a snapshot in it is right but for what follows it, unless rows
  are gone (`QueueSound`).
- A page is right from an event of a stream on when what it lacks in rows
  (`ShownBy`) or in its counts (`CountedBy`) is told by a later event. The page on
  screen is right from the head of the queue on (`LogPageOK`), what a request will
  show from the first event it has buffered, whether it is answered yet or not
  (`HeardBy`, `LoadsOK`). The exception is a page that will be asked for again
  (`Due`: a stream that is cut, a prune that is not announced, a refused
  re-query; `Unsettled`).
- The work is in three facts: an event merged into a window moves it one event
  on (`InsertKeeps`, `UpdateKeeps`), a replay moves it past the events it has
  buffered (`ReplayKeeps`), and a window grown by the page that follows it is
  exact although the two were read at different times (`MoreRead`). The replay
  is a fold of the community modules; that it merges one event after the other is
  proved from its definition, by the smallest size of a set of events for which
  it would not (`ReplaysExistUpTo`).

`FeedInv` was checked by TLC before it was proved. The assumption is
`FeedAssumption`: a page has room for a row, and `NoFeedLoad` is no request.

**StudioProofs** - `TypedValuesStay`, `DraftsLoseNothing`,
`SyncsFollowTheChoice`, `SwitchesLoseNothing`, `CapturesAccountedFor`, and
`StudioFeedIsExact`, which carries `FeedInv` through the steps of the Studio.

- `TypedValuesStay` rests on `IdentityInv`: the write under way is what the head
  of the queue makes of the file, and nothing that waits refreshes a source that
  was typed when it was asked for, so that a queue of any length leaves what the
  operator typed (`StillOwed`, `OfTheBackground`).
- `CapturesAccountedFor` rests on `CaptureInv`. The directory lists each file
  once, a file is empty while it is written and whole afterwards (`FileOK`), and
  a pass that nobody asked to repeat has every finished file in its list, with
  its size, so that what it has measured is no less than what there is (`CapOK`).
  The sums are those of the community modules' fold. Their laws (an entry may be
  counted apart, larger entries make a larger sum) are proved for all finite sets
  from `WFMin`: among the sets that break a law there would be a smallest.
  The assumption is `CaptureAssumption`.
- The other three rest on `DraftInv`. None of the properties is inductive:
  that a save changes only edited fields depends on where the form came from. The
  invariant says that every stored revision is well-formed (`WellFormed`: it is
  valid, and the active profile mirrors the connection), that the form of a page
  differs from the revision it may replace only in the fields its operator
  edited (`Built`), that a picked preset brought its URL and its credential
  along (`Picked`), and, while a request is under way, how the form now relates
  to the one that was sent and what the answer will find in the store
  (`UnderWay`). Its lemmas say of each mutation of `ConfigProfiles` that it keeps
  `WellFormed` and what it leaves of the fields the patch does not name; they
  hold for every configuration, which no instance could show. The assumptions
  are `ClockAssumption`, `AbsentAssumption`, `DefaultAssumption`,
  `UnsetAssumption` and `DocumentAssumption`.

`RestartsKeepPromises` puts three of the store's theorems together with what a
restart finds. `TypeCorrect` and its like, `BudgetIsShared`, `MemoryIsTheFile`
and `StudiosAreTold` are proved and have no run of their own: the runs spend
their properties on what is not proved, or on what an instance also shows.

Only model-checked:

- liveness (`EveryEditIsAnswered`, `SessionsEnd`, `PrunesAreServed`,
  `EveryRequestEnds`), out of the prover's reach with ENABLED and fairness;
- the streams (`ClientCanRead`, `TruncationShows`, `StreamedAsWhole`,
  `HistoryComesBack`): the translators, the readers and the conversions fold over
  sequences, and what they compute for every stream is induction over data. Each
  fold would need an argument of its own, as the replay in `LogFeedProofs` has
  one; that has not been done, and these four rest on the `streams` run.

No module declares a RECURSIVE operator.

## Where code and documentation disagree

Three runs find a state or step that the documentation excludes.

- `failover_apply`: a comment (`primary-failover.ts:283`) and `README.md:385`
  say that applying a profile moves everyone onto it. A request that was routed
  before the apply and succeeds after it pins its session back to the old
  profile.
- `captures_cap`: `README.md:354` gives a cap for all managed captures. A
  capture that is written while a scan runs may be neither measured by the scan
  nor left in the estimate the scan overwrites, so that the directory stays
  above a small cap until the next scan. `CapturesAreAccountedFor`, which
  holds, says among other things that this is the only way.
- `logs_reclaim`: `README.md:657` says that rows are deleted only if the
  database is over its cap after its space was reclaimed. If a prune ends
  between clearing bodies and VACUUM (an error, a stop), the next one finds no
  bodies, skips VACUUM and deletes rows instead.

Modelling met more places worth a look. They have no run of their own; the
property that excepts them, if one does, says so in its comment, and where the
modelled inputs leave a case out the assumptions below name it.

Studio and configuration:

- `config-form-state.ts:43` says that an unchanged URL can own a different
  secret and that a draft must never rebase its keys silently. A direct key
  that another page changed is invisible to `isFormDirty`, so
  `adoptBaselineKeepingDraft` advances the form's revision, and a draft with an
  edited URL and a blank key is saved with the other page's key.
- An HTTP answer older than a snapshot that was heard before it moves the page's
  configuration and revision back; an override then resends the old revision
  and is refused once more.
- A snapshot refills a clean form while a request of the page is under way; the
  answer to that request, on a connection of its own, then sets `formRevision` to
  its own revision (`studio-config-state.ts:68-129`; `set_config`, `apply_profile`
  and `commit_config` assign it whatever the form was filled from). What is
  typed into that form afterwards is saved as if it were built on the answer, and
  puts back what changed in between. `UnseenEditsSurvive` excepts such drafts
  (`astray`).
- `useLogFeed.ts:341` says that a reconnect queries again even for unfiltered
  pages; the query is refused while a poll is under way. `QuietFeedIsExact` sets
  such pages aside. A snapshot read after a newer HTTP page resets the totals
  (`mergeSnapshotLogPage`), which it sets aside as well.

Providers and compactions:

- A request that arrived earlier but read the binding after a later one had
  moved it does not record what it found, unless it migrated the conversation
  itself: at equal generations the arrival decides (`openai-proxy.ts:499`).
  `BindingsIgnoreFinishOrder` is stated with that order.
- `README.md:381` says that a strict cleanup may follow an error-specific
  repair. A repair that changes nothing ends the loop instead
  (`provider-state-migration.ts`); `ForeignStateIsShed` has that exception.
- A compaction that is replayed to a request for another model is stored under
  the first model's scope, so that its follow-up is refused in split mode.
- A `remote_v2` compaction recognised by its metadata alone is translated for an
  Anthropic upstream as an ordinary request, while the answer's transform is
  that of a compaction.

Translators:

- The text a Claude block starts with reaches Codex with its item and again as
  the first delta (`protocol-stream.ts:140` and 150), while the part announced
  between the two is empty. A client that adds deltas to the item it was given
  shows that text twice until the part is done; one that starts from the part
  does not. `ClientCanRead` excepts exactly this, for this translator.
- An item of a Responses stream that `finishMessage` closes twice repeats its
  signature; a lost `output_item.added` loses all the arguments that follow, where
  a comment (`protocol-stream.ts:1769`) has a junk frame cost that one event.
- In the compaction stream usage takes the last word, where the ordinary one
  only grows.
- The stop reason of a whole Chat answer and of a streamed one differ for
  `content_filter` with tool calls.
- The repair appends a terminator after `error`, or when no `message_start`
  came.

Requests and shutdown:

- A refused `x-compactgate-profile` is answered on `/v1` before the handler's
  `try`, so that, unlike on `/anthropic`, it is not logged.
- An explicit effort is dropped when thinking of a fixed budget is converted for
  a Responses upstream.
- Counting tokens for a host without that endpoint is answered locally only
  after the conversion, which refuses it for a Chat upstream.
- A request that fails while the server drains ends the drain without flushing
  captures and without closing the log (`http.ts:234`); the exit code says so.
- After its store was closed, the identity refresh goes on to the next kind,
  which makes a new agent for a proxy that no server owns any more.

## Modelling assumptions

- JavaScript runs to completion: what has no await in it is one step. An awaited
  call of the file system or of SQLite is one step, which may fail.
- A directory sync settles all renames before it; file times of backups
  increase; the revision of a boot differs from that of every other boot.
- The contents of a backup are whole. That a configuration is a set of edits
  abstracts what a patch does to fields.
- Monotonic time passes in ticks; the wall clock does not run backwards.
  A rate limit's cooldown is any of a set of positive numbers.
- Pins that the size caps of the maps evict are expired arbitrarily.
- An OAuth account has the name of its session, and its identity as an object is
  a number. The OAuth file survives a machine crash as `ConfigStore` shows for
  the same way of writing.
- There is one capture directory. Updates of a row succeed. Asking for a prune
  in the `finally` of the loop cannot happen, for nothing runs between the end of
  the loop and that block.
- SQLite: a VACUUM writes the new file to the WAL and the next checkpoint
  truncates the file; a checkpoint by SQLite itself does not shorten the WAL;
  committed rows survive a restart of the process. `max_database_bytes` is a
  positive integer, as `config-runtime.ts` demands, so that the branches for a
  cap that is switched off are out of reach.
- A timer of an exchange does not fire late, and nothing of a response is
  delivered after its request was destroyed. Destroying a client's response
  that was ended may or may not cut its tail: if the deadline passes while the
  observers finish, a client may have a complete answer that is logged as a
  timeout. A connection error of the client counts as its leaving. The loop
  that migrates provider state around deferred errors is StateRecovery's.
- Streams: text, arguments and summaries are counted in fragments, names are
  sequences, times are left out. A garbled frame is one that does not parse; a
  large one is forwarded and known to the observer by its name only. A Chat
  upstream that restarts its indices and labels only the first chunk of a call
  is not among the dialects: nothing in its stream tells its calls apart.
- `ClaudeKeyPool`: a credential stands for all that `keySignature` hashes; the
  two clocks advance together; any key of the window may be drawn.
- `StateRecovery`: all the code between two answers is one step, as it has no
  await. A provider accepts a body, refuses it for a state it names, or fails;
  whether it is well, and whether it is the one that issued the state, is part of
  the situation. A retry of the transport belongs to UpstreamExchange. No two
  requests arrive in the same microsecond, and arrival times, which the code keeps
  across restarts, are those of one run of the server.
- `CompactionBridge`: an item is known by its content; a ciphertext is read by
  its provider only.
- `ProxyAgents`: Node's agent (the free list of a target, the order in which
  listeners of "free" run) is external. No server asks for an agent after it
  released them; the identity refresh named above is the one caller that does.
- `ServerShutdown`: one request at a time on a connection; prune, row and capture
  of a request end in any order.
- `ClaudeRouting`, `CodexRouting`: a body is a record of what the rules look at,
  its text a number of bytes; a model name is the words it contains; a client's
  credential is its authorization header. Which key a pool or the scheduler
  picks, what the bridge replays and how a refused body is repaired is left open.
- `LogFeed`: one Studio tab and one filter; a row's content is a version, a
  page's rows are a function of sequences. The stream's buffer is counted in
  events. Recording a row and dispatching its event is one step.
- `StudioDraft`, `ConfigProfiles`: the compact route of a scope goes through the
  same merge as its primary one and is folded into it; settings outside the
  scopes are one value. Snapshots of one page arrive in order, answers on other
  connections in any. `MCMixes` names the combinations of actors that are
  explored together.
- `ClientIdentity`: what a registry answers is one release or a failure; the
  file is written whole or not at all, as `ConfigStore` shows for the same way
  of writing.

## Not modelled

What the plan above lists under "next", and, for good:

- model lists, the launcher, static files, service scripts, rendering and the
  analytics of the Studio, which have no state that two actors share;
- the providers' side of OAuth, and the exchange of codes and tokens with them;
- the schema migrations of the log, which run once, alone and in sequence before
  the server listens;
- redaction, truncation and decoding of captured bodies; what a log row says of a
  request beyond the model it names; error summaries; diagnostics;
- images, documents, citations and the field checks of request conversions,
  which map one value to another without a protocol;
- the size and age limits of the evidence tables, and of the log's counters.

`PROJECT.json` gives for each component what is left out of it.
