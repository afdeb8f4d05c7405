------------------------- MODULE PrimaryFailover -------------------------
(***************************************************************************)
(* The Codex primary scheduler: class PrimaryFailoverState and its health, *)
(* stickiness and candidate helpers (src/server/primary-failover*.ts).     *)
(*                                                                         *)
(* Requests are routed one at a time (preview and reserveSelection run in  *)
(* one synchronous block), stay in flight for as long as their upstream    *)
(* takes, and report their verdict in any order.  Between those two points *)
(* the operator may edit the configuration, apply a profile, or let other  *)
(* requests trip the same key.                                             *)
(***************************************************************************)
EXTENDS Integers, FiniteSets

CONSTANTS
    Candidate,       \* schedulable keys: "profile" or "profile#key" ids
    Profile,         \* Codex profiles
    ProfileOf,       \* the profile a candidate belongs to
    ProfileIndex,    \* position of a profile in the saved list
    KeyIndex,        \* position of a key in its profile's pool
    Signature,       \* what profileSignature hashes: URL, protocol, credential
    Configs,         \* the configurations an operator may save
    Model,           \* client-supplied model names
    Key,             \* session keys, response ids, compaction-state hashes
    Context,         \* the affinity contexts requests arrive with
    Request,         \* request slots: the requests open at one time
    FAILOVER_FAILURE_THRESHOLD,
    TRANSIENT_COOLDOWN, TRANSIENT_COOLDOWN_MAX,
    ACCOUNT_QUARANTINE, MODEL_DISABLE,
    RateLimitCooldown,  \* the values rateLimitCooldownMs may return
    StickyReserve,      \* the values of sticky_reserve_seconds
    UNBLOCK_JITTER,
    NoProfile, NoCandidate, NoModel, NoKey, Absent,
    \* Bounds of the explored instance, used in guards only.
    MaxTime, MaxGeneration, MaxVersion

Kind == {"continuation", "compaction", "session"}

ConfigRecord ==
    [sig : [Candidate -> Signature \cup {Absent}],
     active : Profile \cup {NoProfile},
     auto : BOOLEAN,
     optOut : SUBSET Profile,
     spread : SUBSET Profile,
     priority : [Candidate -> Nat]]

ASSUME CandidateAssumption ==
    /\ ProfileOf \in [Candidate -> Profile]
    /\ ProfileIndex \in [Profile -> Nat]
    /\ KeyIndex \in [Candidate -> Nat]
    /\ IsFiniteSet(Request)
    /\ Configs \subseteq ConfigRecord
    /\ Configs # {}

ASSUME ContextAssumption ==
    Context \subseteq [Kind -> Key \cup {NoKey}]

ASSUME SentinelAssumption ==
    /\ NoProfile \notin Profile
    /\ NoCandidate \notin Candidate
    /\ NoModel \notin Model
    /\ NoKey \notin Key
    /\ Absent \notin Signature

ASSUME DurationAssumption ==
    /\ FAILOVER_FAILURE_THRESHOLD \in Nat \ {0}
    /\ TRANSIENT_COOLDOWN \in Nat \ {0}
    /\ TRANSIENT_COOLDOWN_MAX \in Nat \ {0}
    /\ ACCOUNT_QUARANTINE \in Nat \ {0}
    /\ MODEL_DISABLE \in Nat \ {0}
    /\ RateLimitCooldown \subseteq Nat \ {0}
    /\ StickyReserve \subseteq Nat
    /\ UNBLOCK_JITTER \in Nat
    /\ MaxTime \in Nat /\ MaxGeneration \in Nat /\ MaxVersion \in Nat

VARIABLES
    config,      \* the committed configuration (ConfigStore.current)
    signatures,  \* the signatures the last preview saw
    generation,  \* bumped when a known candidate changes or disappears
    forced,      \* forcedProfileId
    health,      \* the health record of every known candidate
    pins,        \* the three stickiness maps
    req,         \* the open requests and the selections they hold
    now          \* the monotonic clock

vars == <<config, signatures, generation, forced, health, pins, req, now>>

-----------------------------------------------------------------------------
(* Types.  Health, NoHealth, Pin and Idle name the shapes of the state.    *)

Health ==
    [born : Nat,            \* generation it was created in: its identity
     version : Nat,
     inFlight : Nat,
     transientFailures : Nat,
     emptyStreamFailures : Nat,
     cooldownUntil : Nat,
     quarantineUntil : Nat,
     rateLimitUntil : Nat,
     stickyOnlyUntil : Nat,
     modelFailures : [Model \cup {NoModel} -> Nat],
     modelCooldown : [Model -> Nat],
     heard : SUBSET Signature]   \* history: credentials whose verdicts count

NoHealth == [born |-> -1]

FreshHealth(g) ==
    [born |-> g, version |-> 0, inFlight |-> 0,
     transientFailures |-> 0, emptyStreamFailures |-> 0,
     cooldownUntil |-> 0, quarantineUntil |-> 0,
     rateLimitUntil |-> 0, stickyOnlyUntil |-> 0,
     modelFailures |-> [m \in Model \cup {NoModel} |-> 0],
     modelCooldown |-> [m \in Model |-> 0],
     heard |-> {}]

\* A pin names a candidate; sig is history: the credential that earned it.
Pin == [cand : Candidate, sig : Signature]
NoPin == [cand |-> NoCandidate, sig |-> Absent]

Selection ==
    [cand : Candidate \cup {NoCandidate},
     born : Nat,          \* the health instance the reservation holds
     generation : Nat,
     version : Nat,       \* healthVersion at selection time
     context : Context,
     model : Model \cup {NoModel},
     sig : Signature \cup {Absent},   \* the credential it was sent with
     behind : BOOLEAN,    \* history: a failure was recorded after routing
     early : BOOLEAN]     \* history: a profile was applied after routing

Idle == [born |-> -1]

TypeOK ==
    /\ config \in Configs
    /\ signatures \in [Candidate -> Signature \cup {Absent}]
    /\ generation \in Nat
    /\ forced \in Profile \cup {NoProfile}
    /\ health \in [Candidate -> Health \cup {NoHealth}]
    /\ pins \in [Kind -> [Key -> Pin \cup {NoPin}]]
    /\ req \in [Request -> Selection \cup {Idle}]
    /\ now \in Nat

InFlight(r) == req[r] # Idle
Known(c) == health[c] # NoHealth

-----------------------------------------------------------------------------
(* Candidates: codexPrimaryCandidates.                                     *)

Offered ==
    IF config.active = NoProfile
    THEN {}
    ELSE {c \in Candidate : config.sig[c] # Absent}

OfferedProfile == {ProfileOf[c] : c \in Offered}

SavedPosition(p) ==
    Cardinality({q \in OfferedProfile : ProfileIndex[q] < ProfileIndex[p]})

\* Rotated so that the active profile comes first.
ProfileOrder(p) ==
    IF config.active \in OfferedProfile
    THEN (SavedPosition(p) - SavedPosition(config.active)
             + Cardinality(OfferedProfile)) % Cardinality(OfferedProfile)
    ELSE SavedPosition(p)

\* A pool lists its keys by priority, then as saved (enabledApiKeyPool).
PoolRank(c) ==
    Cardinality({d \in Offered :
        /\ ProfileOf[d] = ProfileOf[c]
        /\ \/ config.priority[d] > config.priority[c]
           \/ config.priority[d] = config.priority[c] /\ KeyIndex[d] < KeyIndex[c]})

Position(c) == <<ProfileOrder(ProfileOf[c]), PoolRank(c)>>

\* A spread profile's keys share one slot; fill_first gives each key its own.
Slot(c) ==
    IF ProfileOf[c] \in config.spread
    THEN <<ProfileOrder(ProfileOf[c]), 0>>
    ELSE Position(c)

Before(s, t) == s[1] < t[1] \/ (s[1] = t[1] /\ s[2] < t[2])

Order(c) ==
    Cardinality({Slot(d) : d \in {e \in Offered : Before(Slot(e), Slot(c))}})

\* The first of a set of candidates in list order.
Foremost(S) == {c \in S : \A d \in S : ~Before(Position(d), Position(c))}

Active(c) == ProfileOf[c] = config.active
RotationOptOut(c) == ProfileOf[c] \in config.optOut

-----------------------------------------------------------------------------
(* preview, first half: reconcile the state with the candidates on offer.  *)

\* The signatures a preview computes; an empty list returns before it does.
Seen ==
    IF Offered = {}
    THEN signatures
    ELSE [c \in Candidate |-> IF c \in Offered THEN config.sig[c] ELSE Absent]

Changed ==
    {c \in Candidate : signatures[c] # Absent /\ Seen[c] # Absent
                          /\ Seen[c] # signatures[c]}
Removed ==
    {c \in Candidate : signatures[c] # Absent /\ Seen[c] = Absent}

ReconciledGeneration ==
    IF Changed \cup Removed # {} THEN generation + 1 ELSE generation

ReconciledHealth ==
    [c \in Candidate |->
        IF Seen[c] = Absent
        THEN NoHealth
        ELSE IF c \in Changed \/ ~Known(c)
        THEN FreshHealth(ReconciledGeneration)
        ELSE health[c]]

LivePins == {kx \in Kind \X Key : pins[kx[1]][kx[2]] # NoPin}

\* Variant: the pins of removed keys are left to expire.
PinsOfRemovedSurvive(expired) ==
    [k \in Kind |-> [x \in Key |->
        IF pins[k][x].cand \in Changed \/ <<k, x>> \in expired
        THEN NoPin
        ELSE pins[k][x]]]

\* Pins that survive the edit and the clean-up.  The affinity clock is not
\* the cooldown clock, so any set of pins may have expired or been evicted.
SurvivingPins(expired) ==
    [k \in Kind |-> [x \in Key |->
        IF pins[k][x].cand \in Changed \cup Removed \/ <<k, x>> \in expired
        THEN NoPin
        ELSE pins[k][x]]]

ReconciledForce ==
    IF Offered # {} /\ forced \notin OfferedProfile THEN NoProfile ELSE forced

-----------------------------------------------------------------------------
(* preview, second half: whom a request may be sent to, given the          *)
(* reconciled health h and pins p.                                         *)

Latest(S) == CHOOSE t \in S : \A u \in S : u <= t

\* The clean-up before a selection drops the model cooldowns that are over.
BlockedUntil(h, c, model) ==
    Latest({h[c].cooldownUntil, h[c].quarantineUntil, h[c].rateLimitUntil}
        \cup {t \in {h[c].modelCooldown[m] : m \in Model \cap {model}} : t > now})

Usable(h, c, model) == BlockedUntil(h, c, model) <= now
StickyOnly(h, c) == h[c].stickyOnlyUntil > now

RotationPool ==
    LET willing == {c \in Offered : ~RotationOptOut(c)}
    IN  IF willing = {} THEN Offered ELSE willing

\* Variant: a failover may reach the keys that opted out.
FreeOfAll(h, model) ==
    {c \in Offered : Usable(h, c, model) /\ ~StickyOnly(h, c)}

\* New sessions go to usable keys outside the sticky-only zone.
Free(h, model) ==
    {c \in RotationPool : Usable(h, c, model) /\ ~StickyOnly(h, c)}

\* Variant: a pin is followed into a block.
PinnedByName(h, p, ctx, model, kind) ==
    {c \in Offered : ctx[kind] # NoKey /\ p[kind][ctx[kind]].cand = c}

PinnedBy(h, p, ctx, model, kind) ==
    {c \in Offered : /\ ctx[kind] # NoKey
                     /\ p[kind][ctx[kind]].cand = c
                     /\ Usable(h, c, model)}

Pinned(h, p, ctx, model) ==
    LET by(kind) == PinnedBy(h, p, ctx, model, kind)
    IN  IF by("continuation") # {} THEN by("continuation")
        ELSE IF by("compaction") # {} THEN by("compaction")
        ELSE by("session")

\* Only the highest priority tier of each profile's free keys competes.
TopTier(S) ==
    {c \in S : \A d \in S : ProfileOf[d] = ProfileOf[c] =>
                   config.priority[d] <= config.priority[c]}

\* The part of scoreCandidate this state determines.
Score(h, c) ==
    (IF Active(c) THEN 1000 ELSE 0)
        - 500 * Order(c) - 80 * h[c].inFlight - 40 * h[c].transientFailures

TOP_K_SCORE_WINDOW == 100
\* Error rate (60) and latency (200): the part left to history.
HISTORY_PENALTY == 260

\* The weighted draw may return any candidate inside the score window.
Contenders(h, S) ==
    {c \in S : \A d \in S :
        Score(h, d) - Score(h, c) <= TOP_K_SCORE_WINDOW + HISTORY_PENALTY}

\* c can come first for some draw of the jitter; equal times go by list order.
SoonestToUnblock(h, model) ==
    {c \in RotationPool : \A d \in RotationPool :
        LET mine == BlockedUntil(h, c, model)
            latest == BlockedUntil(h, d, model) + UNBLOCK_JITTER
        IN  mine < latest \/ (mine = latest /\ ~Before(Position(d), Position(c)))}

Fixed == ~config.auto \/ \E c \in Offered : Active(c) /\ RotationOptOut(c)

Choices(h, p, ctx, model) ==
    LET forcedKeys == {c \in Offered : ProfileOf[c] = forced}
        activeKeys == {c \in Offered : Active(c)}
        pinnedKeys == Pinned(h, p, ctx, model)
        freeKeys   == Free(h, model)
    IN  IF forcedKeys # {} THEN Foremost(forcedKeys)
        ELSE IF Fixed
        THEN Foremost(IF activeKeys # {} THEN activeKeys ELSE Offered)
        ELSE IF pinnedKeys # {} THEN pinnedKeys
        ELSE IF freeKeys # {} THEN Contenders(h, TopTier(freeKeys))
        ELSE SoonestToUnblock(h, model)

-----------------------------------------------------------------------------
Init ==
    /\ config \in Configs
    /\ signatures = [c \in Candidate |-> Absent]
    /\ generation = 0
    /\ forced = NoProfile
    /\ health = [c \in Candidate |-> NoHealth]
    /\ pins = [k \in Kind |-> [x \in Key |-> NoPin]]
    /\ req = [r \in Request |-> Idle]
    /\ now = 0

(* Operator actions.                                                       *)

\* Any saved edit, a background sync of the active profile included: the
\* scheduler learns of it at its next preview.
EditConfig ==
    /\ generation < MaxGeneration
    /\ config' \in Configs
    /\ config' # config
    /\ UNCHANGED <<signatures, generation, forced, health, pins, req, now>>

\* POST /api/config/profiles/apply: commit, then forceNextProfileSelection.
ApplyProfile(p) ==
    /\ generation < MaxGeneration
    /\ config' = [config EXCEPT !.active = p]
    /\ config' \in Configs
    /\ IF \E c \in Candidate : ProfileOf[c] = p /\ config'.sig[c] # Absent
       THEN /\ pins' = [k \in Kind |-> [x \in Key |-> NoPin]]
            /\ forced' = p
       ELSE UNCHANGED <<pins, forced>>
    /\ req' = [r \in Request |->
                  IF InFlight(r) THEN [req[r] EXCEPT !.early = TRUE] ELSE req[r]]
    /\ UNCHANGED <<signatures, generation, health, now>>

(* Routing.                                                                *)

Reconcile ==
    /\ signatures' = Seen
    /\ generation' = ReconciledGeneration

\* A preview that reserves nothing: the route tester, or a plan that threw.
Observe(expired) ==
    /\ Reconcile
    /\ health' = ReconciledHealth
    /\ pins' = SurvivingPins(expired)
    /\ forced' = ReconciledForce
    /\ UNCHANGED <<config, req, now>>

\* rememberRequest
PinRequest(p, ctx, pin) ==
    [k \in Kind |-> [x \in Key |->
        IF k \in {"session", "continuation"} /\ ctx[k] = x THEN pin ELSE p[k][x]]]

Reserved(h, c) == [h EXCEPT ![c].inFlight = @ + 1]

Selected(c, h, ctx, model) ==
    [cand |-> c, born |-> h[c].born,
     generation |-> ReconciledGeneration, version |-> h[c].version,
     context |-> ctx, model |-> model, sig |-> config.sig[c],
     behind |-> FALSE, early |-> FALSE]

Unrouted(ctx, model) ==
    [cand |-> NoCandidate, born |-> 0, generation |-> generation,
     version |-> 0, context |-> ctx, model |-> model, sig |-> Absent,
     behind |-> FALSE, early |-> FALSE]

\* preview and reserveSelection, in one synchronous block.
Route(r, ctx, model, expired) ==
    /\ ~InFlight(r)
    /\ Offered # {}
    /\ Reconcile
    /\ LET h == ReconciledHealth
           p == SurvivingPins(expired)
       IN  \E c \in Choices(h, p, ctx, model) :
             /\ health' = Reserved(h, c)
             /\ pins' = IF config.auto
                        THEN PinRequest(p, ctx,
                                 [cand |-> c, sig |-> config.sig[c]])
                        ELSE p
             /\ forced' = IF ProfileOf[c] = ReconciledForce
                          THEN NoProfile ELSE ReconciledForce
             /\ req' = [req EXCEPT ![r] = Selected(c, h, ctx, model)]
    /\ UNCHANGED <<config, now>>

\* No profile is configured: the request goes out on the plain primary block.
RouteUnscheduled(r, ctx, model) ==
    /\ ~InFlight(r)
    /\ Offered = {}
    /\ req' = [req EXCEPT ![r] = Unrouted(ctx, model)]
    /\ UNCHANGED <<config, signatures, generation, forced, health, pins, now>>

-----------------------------------------------------------------------------
(* recordResult.                                                           *)

\* r's reservation is counted on the record now kept for c.
Holds(r, c) ==
    InFlight(r) /\ req[r].cand = c /\ req[r].born = health[c].born

\* Variant: a verdict is filed under the name of its key.
AcceptedByName(r) ==
    /\ InFlight(r)
    /\ req[r].cand # NoCandidate
    /\ Known(req[r].cand)

\* The verdict still belongs to the record now kept for the candidate.
Accepted(r) ==
    /\ InFlight(r)
    /\ req[r].cand # NoCandidate
    /\ Known(req[r].cand)
    /\ health[req[r].cand].born = req[r].born
    /\ req[r].generation = generation

\* Variant: the release goes to the record now kept under the name.
ReleasedByName(r) ==
    [c \in Candidate |->
        IF c = req[r].cand /\ Known(c)
        THEN [health[c] EXCEPT !.inFlight = IF @ > 0 THEN @ - 1 ELSE 0]
        ELSE health[c]]

\* Release the original instance once, never below zero.
Released(r) ==
    [c \in Candidate |->
        IF c = req[r].cand /\ health[c].born = req[r].born
        THEN [health[c] EXCEPT !.inFlight = IF @ > 0 THEN @ - 1 ELSE 0]
        ELSE health[c]]

\* Nothing but the release: no upstream was reached, the client left or sent
\* a bad request, the verdict is out of date, or no profile was selected.
Return(r) ==
    /\ InFlight(r)
    /\ health' = Released(r)
    /\ req' = [req EXCEPT ![r] = Idle]
    /\ UNCHANGED <<config, signatures, generation, forced, pins, now>>

\* The record a verdict is applied to.
Struck(r) ==
    [Released(r)[req[r].cand] EXCEPT !.heard = @ \cup {req[r].sig}]

\* Variant: every success counts as news.
NeverStale(r) == FALSE /\ InFlight(r)

Stale(r) == req[r].version # health[req[r].cand].version

\* What a success clears: every counter and block, but of the per-model
\* cooldowns only the one of its own model.
Cleared(h, model) ==
    [h EXCEPT !.transientFailures = 0, !.emptyStreamFailures = 0,
              !.cooldownUntil = 0, !.quarantineUntil = 0,
              !.rateLimitUntil = 0, !.stickyOnlyUntil = 0,
              !.modelFailures = [m \in Model \cup {NoModel} |-> 0],
              !.modelCooldown = [m \in Model |->
                                    IF m = model THEN 0 ELSE h.modelCooldown[m]],
              !.version = @ + 1]

\* rememberResponse: id is the response id, or NoKey.
PinResponse(ctx, id, pin) ==
    [k \in Kind |-> [x \in Key |->
        IF \/ k = "continuation" /\ x = id
           \/ k \in {"session", "compaction"} /\ ctx[k] = x
        THEN pin
        ELSE pins[k][x]]]

Succeed(r, id) ==
    /\ Accepted(r)
    /\ LET c == req[r].cand
       IN  /\ Stale(r) \/ health[c].version < MaxVersion
           /\ health' = [health EXCEPT
                  ![c] = IF Stale(r) THEN Struck(r)
                                     ELSE Cleared(Struck(r), req[r].model)]
           /\ pins' = PinResponse(req[r].context, id,
                          [cand |-> c, sig |-> req[r].sig])
    /\ req' = [req EXCEPT ![r] = Idle]
    /\ UNCHANGED <<config, signatures, generation, forced, now>>

\* The requests a failure on r's key leaves behind: routed before it.
LeftBehind(r) ==
    {q \in Request \ {r} : Holds(q, req[r].cand)}

\* Every verdict against a key moves its version.
Fail(r, h) ==
    /\ Accepted(r)
    /\ h.version < MaxVersion
    /\ health' = [health EXCEPT
                     ![req[r].cand] = [h EXCEPT !.version = @ + 1]]
    /\ req' = [q \in Request |->
                  IF q = r THEN Idle
                  ELSE IF q \in LeftBehind(r)
                  THEN [req[q] EXCEPT !.behind = TRUE]
                  ELSE req[q]]
    /\ UNCHANGED <<config, signatures, generation, forced, pins, now>>

Later(t, u) == IF t < u THEN u ELSE t
Earlier(t, u) == IF t < u THEN t ELSE u

\* auth and quota
Quarantined(h) ==
    [h EXCEPT !.transientFailures = 0, !.emptyStreamFailures = 0,
              !.quarantineUntil = Later(@, now + ACCOUNT_QUARANTINE)]

RateLimited(h, cooldown, reserve) ==
    LET until == Later(h.rateLimitUntil, now + cooldown)
    IN  [h EXCEPT !.rateLimitUntil = until,
                  !.stickyOnlyUntil =
                      IF reserve > 0 THEN Later(@, until + reserve) ELSE @]

Backoff(n) ==
    Earlier(TRANSIENT_COOLDOWN_MAX,
            TRANSIENT_COOLDOWN * (n - FAILOVER_FAILURE_THRESHOLD + 1))

\* reconnect: a dropped or empty stream, which needs a streak of its own.
TransientlyFailed(h, reconnect) ==
    LET n == h.transientFailures + 1
        e == IF reconnect THEN h.emptyStreamFailures + 1
                          ELSE h.emptyStreamFailures
        trip == /\ n >= FAILOVER_FAILURE_THRESHOLD
                /\ reconnect => e >= FAILOVER_FAILURE_THRESHOLD
    IN  [h EXCEPT !.transientFailures = n, !.emptyStreamFailures = e,
                  !.cooldownUntil =
                      IF trip THEN Later(@, now + Backoff(n)) ELSE @]

\* The per-model maps are also capped; the cap is out of these bounds.
ModelRefused(h, model) ==
    LET n == h.modelFailures[model] + 1
        trip == n >= FAILOVER_FAILURE_THRESHOLD
    IN  [h EXCEPT !.modelFailures[model] = IF trip THEN 0 ELSE n,
                  !.modelCooldown = [m \in Model |->
                      IF trip /\ m = model THEN now + MODEL_DISABLE ELSE @[m]],
                  !.cooldownUntil =
                      IF trip /\ model = NoModel
                      THEN Later(@, now + TRANSIENT_COOLDOWN) ELSE @]

RefuseAccount(r) == Fail(r, Quarantined(Struck(r)))

RefuseRate(r, cooldown, reserve) ==
    Fail(r, RateLimited(Struck(r), cooldown, reserve))

FailTransiently(r, reconnect) == Fail(r, TransientlyFailed(Struck(r), reconnect))

RefuseModel(r) == Fail(r, ModelRefused(Struck(r), req[r].model))

Tick ==
    /\ now < MaxTime
    /\ now' = now + 1
    /\ UNCHANGED <<config, signatures, generation, forced, health, pins, req>>

Verdict(r) ==
    \/ Return(r)
    \/ \E id \in Key \cup {NoKey} : Succeed(r, id)
    \/ RefuseAccount(r)
    \/ \E d \in RateLimitCooldown, s \in StickyReserve : RefuseRate(r, d, s)
    \/ \E reconnect \in BOOLEAN : FailTransiently(r, reconnect)
    \/ RefuseModel(r)

Next ==
    \/ EditConfig
    \/ \E p \in Profile : ApplyProfile(p)
    \/ \E expired \in SUBSET LivePins : Observe(expired)
    \/ \E r \in Request, ctx \in Context, model \in Model \cup {NoModel} :
          \/ \E expired \in SUBSET LivePins : Route(r, ctx, model, expired)
          \/ RouteUnscheduled(r, ctx, model)
    \/ \E r \in Request : Verdict(r)
    \/ Tick

Spec == Init /\ [][Next]_vars

-----------------------------------------------------------------------------
(* Properties.                                                             *)

\* The load of a key is exactly the number of open requests that reserved the
\* record kept for it: edits that replace or drop the record, verdicts that
\* come late and verdicts that are discarded neither leak nor double-release.
InFlightExact ==
    \A c \in Candidate :
        Known(c) => health[c].inFlight = Cardinality({r \in Request : Holds(r, c)})

\* Whatever was learned about a key was learned from requests sent with the
\* credential it has now: no verdict crosses a rotation, or a removal that is
\* undone while the request is open.
EvidenceMatchesCredential ==
    \A c \in Candidate : Known(c) => health[c].heard \subseteq {signatures[c]}

\* A pin leads to a key on offer, with the credential that earned the pin.
PinsFollowCredential ==
    \A k \in Kind, x \in Key :
        pins[k][x] # NoPin => signatures[pins[k][x].cand] = pins[k][x].sig

\* This step brings forward a deadline that keeps c out of rotation.
Lowered(c) ==
    \/ health'[c].cooldownUntil < health[c].cooldownUntil
    \/ health'[c].quarantineUntil < health[c].quarantineUntil
    \/ health'[c].rateLimitUntil < health[c].rateLimitUntil
    \/ health'[c].stickyOnlyUntil < health[c].stickyOnlyUntil

LoweredModel(c, m) ==
    health'[c].modelCooldown[m] < health[c].modelCooldown[m]

Kept(c) == Known(c) /\ health'[c].born = health[c].born

\* r ends now, was sent to c, and was routed after every failure on c so far.
EndsAfterFailures(r, c) ==
    InFlight(r) /\ req'[r] = Idle /\ Holds(r, c) /\ ~req[r].behind

\* A block on a key is lifted early only by a request that was routed after
\* the last failure on that key, and a block on one model only by a request
\* for that model: an older success that comes in late proves nothing.
BlockLiftedOnlyByLaterSuccess ==
    [][\A c \in Candidate :
          Kept(c) =>
             /\ Lowered(c) => \E r \in Request : EndsAfterFailures(r, c)
             /\ \A m \in Model : LoweredModel(c, m) =>
                   \E r \in Request :
                       EndsAfterFailures(r, c) /\ req[r].model = m]_vars

\* The scheduler, not the operator, gave a new request r the key c.
Scheduled(r, c) ==
    /\ ~InFlight(r) /\ req'[r] # Idle /\ req'[r].cand = c
    /\ config.auto
    /\ ProfileOf[c] # forced

Blocked(c, model) ==
    \/ health'[c].cooldownUntil > now
    \/ health'[c].quarantineUntil > now
    \/ health'[c].rateLimitUntil > now
    \/ \E m \in Model : m = model /\ health'[c].modelCooldown[m] > now

\* A key in any kind of block gets no request, not even from the sessions
\* bound to it, as long as one key takes new sessions.  An active profile that
\* opts out of rotation is the operator's own choice and is exempt.
BlockedKeysGetNoTraffic ==
    [][\A r \in Request, c \in Offered :
          ( /\ Scheduled(r, c)
            /\ \A d \in Offered : ~(Active(d) /\ RotationOptOut(d))
            /\ \E d \in Offered : /\ ~RotationOptOut(d)
                                  /\ ~Blocked(d, req'[r].model)
                                  /\ health'[d].stickyOnlyUntil <= now )
          => ~Blocked(c, req'[r].model)]_vars

\* A key that opts out of rotation is given a request only if the operator
\* applied its profile or the session is already pinned to it, however badly
\* the other keys are doing.
OptedOutKeysNeedOperator ==
    [][\A r \in Request, c \in Offered :
          ( /\ Scheduled(r, c) /\ RotationOptOut(c)
            /\ \E d \in Offered : ~RotationOptOut(d) )
          => \/ Active(c)
             \/ \E k \in Kind, x \in Key :
                   req'[r].context[k] = x /\ pins[k][x].cand = c]_vars

\* Applying a profile moves everyone onto it: no session is pinned to another
\* profile by a request that was routed before the apply.
AppliedProfileKeepsSessions ==
    [][\A k \in Kind, x \in Key, r \in Request :
          ( /\ InFlight(r) /\ req'[r] = Idle /\ req[r].early
            /\ pins'[k][x] # pins[k][x] /\ pins'[k][x] # NoPin )
          => ProfileOf[pins'[k][x].cand] = config.active]_vars

=============================================================================
