-------------------------- MODULE CompactionBridge --------------------------
(***************************************************************************)
(* A conversation compacted by one provider and continued on another:      *)
(* class CompactionBridgeStore (src/server/compaction-bridge.ts) as the    *)
(* compact and primary handlers of src/server/openai-proxy.ts use it.      *)
(*                                                                         *)
(* A client asks for a compaction, holds the compaction item the answer    *)
(* brought, and sends it back with its next turns.  The item's ciphertext  *)
(* is opaque to every provider but the one that made it; a readable or a   *)
(* CompactGate-signed summary is not.  An item is modelled by its content. *)
(***************************************************************************)
EXTENDS Integers, FiniteSets, Functions

CONSTANTS
    Codex,           \* clients
    Model,           \* models a client may ask for
    Cipher,          \* opaque compaction states
    NoState,
    BridgeConfig,    \* configurations an operator may save
    BridgeTTL, ReplayTTL, MaxBridged, MaxReplays,
    MaxBridgeTime, MaxBridgeEdits, MaxCompactions

\* What providers return other than a ciphertext.  A signed summary is
\* recognised by its prefix, which no ciphertext has.
Signed == "signed summary"
Readable == "readable summary"

ASSUME BridgeAssumption ==
    /\ Signed \notin Cipher
    /\ {BridgeTTL, ReplayTTL, MaxBridged, MaxReplays} \subseteq Nat

VARIABLES
    bridgeConfig, bridgeEdits, bridgeClock,
    compactions,     \* compactions asked for so far
    fallbacks,       \* fallbackItemsByKey
    knownStates,     \* knownCompactionStateByContent
    replays,         \* compactResponsesByKey
    compacting,      \* client -> the compaction it waits for
    held             \* client -> the compaction item of its history

bridgeVars == << bridgeConfig, bridgeEdits, bridgeClock, compactions, fallbacks, knownStates, replays,
                 compacting, held >>

--------------------------------------------------------------------------
\* classifyOpenAiRequest: the path, a trigger in the input, the body's turn
\* metadata, then the header's; metadata of another kind settles the question.
Classified(request) ==
    IF request.path = "compact" THEN "remote_v1"
    ELSE IF request.path # "responses" THEN "primary"
    ELSE IF request.trigger THEN "remote_v2"
    ELSE IF request.body = "other" THEN "primary"
    ELSE IF request.body # "unavailable" THEN request.body
    ELSE IF request.header \in {"local", "remote_v2"} THEN request.header
    ELSE "primary"

\* hasRemoteV2CompactionState
IsV2FollowUp(request) ==
    /\ request.path # "compact" /\ request.state # NoState
    /\ request.v2

Compact1 == [path |-> "compact", trigger |-> FALSE, body |-> "unavailable",
             header |-> "unavailable", state |-> NoState, v2 |-> FALSE]

FollowUpOf(state) == [Compact1 EXCEPT !.path = "responses", !.body = "other", !.state = state]

\* compactUpstreamBaseUrl, deriveCompactModel and the scope both sides key by.
compactUpstream(config) ==
    IF config.split THEN config.compactUpstream ELSE config.primaryUpstream

compactProtocol(config) ==
    IF config.split THEN config.compactProtocol ELSE config.primaryProtocol

deriveCompactModel(model, config) == IF config.custom THEN "custom" ELSE model

Scope(model, config) ==
    << compactUpstream(config), model, deriveCompactModel(model, config) >>

\* compactDedupeKey: the client's headers and body, but not the model it named.
DedupeKey(c, model, config) ==
    << c, compactUpstream(config), deriveCompactModel(model, config) >>

--------------------------------------------------------------------------
\* Maps that forget the least recently written: rememberMapEntry,
\* enforceMaxEntries and pruneExpired.  The age of an entry is the number of
\* writes since its own, which is the order the keys of a Map are in.

Remember(map, key, entry) ==
    [k \in DOMAIN map \cup {key} |->
        IF k = key THEN entry ELSE [map[k] EXCEPT !.age = @ + 1]]

Younger(map, k) == {l \in DOMAIN map : map[l].age < map[k].age}

AtMost(map, n) == Restrict(map, {k \in DOMAIN map : Cardinality(Younger(map, k)) < n})

Live(map) == Restrict(map, {k \in DOMAIN map : map[k].expiresAt > bridgeClock})

LiveStates == [x \in {x \in DOMAIN knownStates : knownStates[x] > bridgeClock} |-> knownStates[x]]

--------------------------------------------------------------------------
\* normalizeCompactResponse: a JSON object with an output is kept; a stream
\* keeps its compaction and assistant items; anything else becomes a readable
\* summary.  The result is stored, the client receives the answer itself.

isNormalized(answer, protocol) == protocol = "responses" /\ answer.form # "json"

StoredState(answer, protocol) ==
    CASE protocol # "responses" -> IF answer.form = "json" THEN answer.state ELSE NoState
      [] answer.form = "json" -> answer.state
      [] answer.form = "stream" /\ answer.state # NoState -> answer.state
      [] OTHER -> Readable

\* extractFallbackItems: the messages beside the item, else its own text.
hasFallback(answer, state) == answer.text \/ state \notin Cipher

\* Mutant: a state without a fallback is not remembered.
KnownWithFallback(answer, state, expiresAt) ==
    IF ~hasFallback(answer, state) THEN LiveStates
    ELSE [x \in DOMAIN LiveStates \cup {state} |->
            IF x = state THEN expiresAt ELSE LiveStates[x]]

KnownStates(answer, state, expiresAt) ==
    [x \in DOMAIN LiveStates \cup {state} |-> IF x = state THEN expiresAt ELSE LiveStates[x]]

\* storeCompactResponse
StoreCompactResponse(answer, q) ==
    LET state == StoredState(answer, q.protocol)
        until == bridgeClock + BridgeTTL
        entry == [expiresAt |-> until, age |-> 0,
                  synthetic |-> isNormalized(answer, q.protocol)]
    IN  IF state = NoState
        THEN fallbacks' = Live(fallbacks) /\ knownStates' = LiveStates
        ELSE /\ knownStates' = KnownStates(answer, state, until)
             /\ fallbacks' = AtMost(IF hasFallback(answer, state)
                                    THEN Remember(Live(fallbacks), << q.scope, state >>, entry)
                                    ELSE Live(fallbacks), MaxBridged)

\* storeCompactDedupeResponse
StoreReplay(answer, q) ==
    replays' = IF q.protocol # "responses" THEN Live(replays)
               ELSE AtMost(Remember(Live(replays), q.dedupe,
                                    [expiresAt |-> bridgeClock + ReplayTTL, age |-> 0,
                                     held |-> [state |-> answer.state, scope |-> q.scope,
                                               text |-> answer.text,
                                               since |-> bridgeClock]]), MaxReplays)

--------------------------------------------------------------------------
NoHold == [state |-> NoState, scope |-> << >>, text |-> FALSE, since |-> 0,
           asked |-> << >>]

NotCompacting == [waiting |-> FALSE, scope |-> << >>, dedupe |-> << >>,
                  protocol |-> ""]

Holding(what, scope) ==
    [state |-> what.state, scope |-> what.scope, text |-> what.text, since |-> what.since,
     asked |-> scope]

\* proxyCompactRequest up to the send: a chat upstream is refused, a cached
\* answer is replayed, and only otherwise is the upstream asked.
AskForCompaction(c) ==
    /\ ~compacting[c].waiting
    /\ compactions < MaxCompactions
    /\ compactions' = compactions + 1
    /\ Classified(Compact1) = "remote_v1"
    /\ compactProtocol(bridgeConfig) # "chat"
    /\ \E model \in Model :
         LET scope == Scope(model, bridgeConfig)
             key == DedupeKey(c, model, bridgeConfig)
             protocol == compactProtocol(bridgeConfig)
             cached == protocol = "responses" /\ key \in DOMAIN Live(replays)
         IN  /\ held' = [held EXCEPT ![c] =
                    IF cached THEN Holding(replays[key].held, scope) ELSE @]
             /\ compacting' = [compacting EXCEPT ![c] =
                    IF cached THEN @
                    ELSE [waiting |-> TRUE, scope |-> scope, dedupe |-> key,
                          protocol |-> protocol]]
             \* getCachedCompactResponse prunes, and only it is called so far.
             /\ fallbacks' = IF protocol = "responses" THEN Live(fallbacks) ELSE fallbacks
             /\ knownStates' = IF protocol = "responses" THEN LiveStates ELSE knownStates
             /\ replays' = IF protocol = "responses" THEN Live(replays) ELSE replays
    /\ UNCHANGED << bridgeConfig, bridgeEdits, bridgeClock >>

\* A complete answer: what the upstream may return, by protocol.
CompactAnswers(protocol) ==
    IF protocol = "responses"
    THEN {[form |-> form, state |-> state, text |-> text] :
            form \in {"json", "stream"}, state \in Cipher \cup {Readable}, text \in BOOLEAN}
         \cup {[form |-> "bare", state |-> NoState, text |-> TRUE]}
    ELSE {[form |-> form, state |-> Signed, text |-> FALSE] : form \in {"json", "stream"}}

ReceiveCompaction(c) ==
    LET q == compacting[c]
    IN  /\ q.waiting
        /\ \E answer \in CompactAnswers(q.protocol) :
             /\ StoreCompactResponse(answer, q)
             /\ StoreReplay(answer, q)
             /\ held' = [held EXCEPT ![c] =
                    Holding([state |-> answer.state, scope |-> q.scope, text |-> answer.text,
                             since |-> bridgeClock], q.scope)]
        /\ compacting' = [compacting EXCEPT ![c] = NotCompacting]
        /\ UNCHANGED << bridgeConfig, bridgeEdits, bridgeClock, compactions >>

\* An error, or a stream that broke off: nothing is stored.
LoseCompaction(c) ==
    /\ compacting[c].waiting
    /\ compacting' = [compacting EXCEPT ![c] = NotCompacting]
    /\ UNCHANGED << bridgeConfig, bridgeEdits, bridgeClock, compactions, fallbacks, knownStates, replays,
                    held >>

--------------------------------------------------------------------------
\* The bridge of a primary request: rewritePrimaryBody and the refusals of
\* buildPrimaryOpenAiProxyPlan.

\* synthesizeAssistantMessage
isReadable(state, allowReadableFallback) ==
    state = Signed \/ (state = Readable /\ allowReadableFallback)

Bridged(scope, state) ==
    /\ << scope, state >> \in DOMAIN Live(fallbacks)
    /\ fallbacks[<< scope, state >>].synthetic \/ bridgeConfig.split

HandOver(request, model) ==
    LET responses == bridgeConfig.primaryProtocol = "responses"
        scope == Scope(model, bridgeConfig)
        state == request.state
    IN  IF IsV2FollowUp(request) /\ responses THEN "intact"
        ELSE IF Bridged(scope, state) \/ isReadable(state, bridgeConfig.split) THEN "readable"
        ELSE IF ~responses \/ (bridgeConfig.split /\ state \in DOMAIN LiveStates) THEN "refused"
        ELSE "intact"

\* A turn that carries the compaction: rewritePrimaryBody prunes as it reads.
FollowUp(c) ==
    /\ held[c].state # NoState
    /\ Classified(FollowUpOf(held[c].state)) = "primary"
    /\ fallbacks' = Live(fallbacks)
    /\ knownStates' = LiveStates
    /\ replays' = Live(replays)
    /\ UNCHANGED << bridgeConfig, bridgeEdits, bridgeClock, compactions, compacting, held >>

EditBridgeConfig ==
    /\ bridgeEdits < MaxBridgeEdits
    /\ bridgeEdits' = bridgeEdits + 1
    /\ \E config \in BridgeConfig \ {bridgeConfig} : bridgeConfig' = config
    /\ UNCHANGED << bridgeClock, compactions, fallbacks, knownStates, replays, compacting, held >>

PassBridgeTime ==
    /\ bridgeClock < MaxBridgeTime
    /\ bridgeClock' = bridgeClock + 1
    /\ UNCHANGED << bridgeConfig, bridgeEdits, compactions, fallbacks, knownStates, replays, compacting,
                    held >>

BridgeInit ==
    /\ bridgeConfig \in BridgeConfig
    /\ bridgeEdits = 0
    /\ bridgeClock = 0
    /\ compactions = 0
    /\ fallbacks = << >>
    /\ knownStates = << >>
    /\ replays = << >>
    /\ compacting = [c \in Codex |-> NotCompacting]
    /\ held = [c \in Codex |-> NoHold]

BridgeNext ==
    \/ \E c \in Codex : \/ AskForCompaction(c) \/ ReceiveCompaction(c) \/ LoseCompaction(c)
                        \/ FollowUp(c)
    \/ EditBridgeConfig
    \/ PassBridgeTime

BridgeSpec == BridgeInit /\ [][BridgeNext]_bridgeVars

--------------------------------------------------------------------------
\* In split mode a compaction comes back as history the primary provider can
\* read, or the turn is refused; its ciphertext is not passed on while the
\* bridge remembers states that long, whatever else was compacted, replayed or
\* evicted meanwhile.  And it does come back when its answer brought text, the
\* model and the configuration are those it was asked with, and the bridge is
\* not full of later ones.  (A replay is stored under the scope of the
\* request it was first asked by, which names another model when one custom
\* compact model serves them all: such a turn is refused.)
CompactionsComeBack ==
    \A c \in Codex :
        LET h == held[c]
            outcome == HandOver(FollowUpOf(h.state), h.asked[2])
        IN  h.state # NoState /\ bridgeConfig.split /\ bridgeClock < h.since + BridgeTTL =>
                /\ h.state \in Cipher => outcome # "intact"
                /\ \/ ~h.text
                   \/ Scope(h.asked[2], bridgeConfig) # h.asked
                   \/ h.scope # h.asked
                   \/ /\ << h.scope, h.state >> \notin DOMAIN fallbacks
                      /\ Cardinality(DOMAIN fallbacks) = MaxBridged
                      /\ \A k \in DOMAIN fallbacks :
                             fallbacks[k].expiresAt >= h.since + BridgeTTL
                   \/ outcome = "readable"
=============================================================================
