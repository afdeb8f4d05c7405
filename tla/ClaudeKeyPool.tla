--------------------------- MODULE ClaudeKeyPool ---------------------------
(***************************************************************************)
(* Which key of a Claude profile carries a request: class                  *)
(* ClaudeKeyPoolState (src/server/claude-key-pool.ts), as the request      *)
(* handler of src/server/claude-proxy.ts calls it.  A key is chosen and    *)
(* reserved in one synchronous block when the request's body has been      *)
(* read; its verdict is recorded when the answer, if one was asked for,    *)
(* has been written.  Between the two the operator may replace the key.    *)
(*                                                                         *)
(* A credential stands for all that keySignature hashes: the address, the  *)
(* protocol, the proxy, the headers and the key itself.  Both clocks of    *)
(* the code (monotonic for blocks, wall for pins) advance together.        *)
(***************************************************************************)
EXTENDS Integers, Sequences, FiniteSets, FiniteSetsExt, SequencesExt

CONSTANTS
    ClaudeProfile,  \* Claude profiles
    ClaudeRoute,    \* the routes an operator may save for a profile
    ClaudeRequest,  \* requests, each served once
    Session,        \* session ids clients send
    NoKey, NoSession,
    AUTH_QUARANTINE, TRANSIENT_THRESHOLD, TRANSIENT_COOLDOWN, TRANSIENT_COOLDOWN_MAX,
    RATE_LIMIT_MAX, RATE_LIMIT_FALLBACK, SESSION_STICKY_TTL, UNBLOCK_JITTER,
    RetryAfter,     \* the Retry-After headers of a 429
    MaxKeyTime, MaxKeyEdits

\* A route: the direct key leads the stored ones within its priority.
StoredKey(id, cred, enabled, priority) ==
    [id |-> id, cred |-> cred, enabled |-> enabled, priority |-> priority]

Direct == "direct"

VARIABLES
    claudeRoute,  \* profile -> its route in the configuration
    health,       \* <<profile, key id>> -> its health, for keys that have one
    signatures,   \* profile -> key id -> credential, as of the last reconcile
    stickiness,   \* session -> its pin
    claudeOpen,   \* request -> what it is doing and the reservation it holds
    claudeClock,
    claudeEdits,
    trippedSince  \* observed: requests whose key failed after they were routed

keyVars == << claudeRoute, health, signatures, stickiness, claudeOpen, claudeClock,
              claudeEdits, trippedSince >>

--------------------------------------------------------------------------
\* enabledApiKeyPool: by priority, then as saved; an OAuth route has no keys.
ClaudePool(route) ==
    LET direct == IF route.cred = NoKey THEN << >>
                  ELSE << StoredKey(Direct, route.cred, TRUE, route.priority) >>
        all == direct \o SelectSeq(route.keys, LAMBDA k : k.enabled)
        order == SetToSortSeq(DOMAIN all, LAMBDA i, j :
                     \/ all[i].priority > all[j].priority
                     \/ all[i].priority = all[j].priority /\ i < j)
    IN  IF route.oauth THEN << >> ELSE [n \in DOMAIN all |-> all[order[n]]]

\* null is not a key, and times are whole numbers.
ASSUME KeyPoolAssumption ==
    /\ IsFiniteSet(ClaudeRequest)
    /\ ClaudeRoute # {}
    /\ \A route \in ClaudeRoute, p \in ClaudeProfile :
          \A n \in DOMAIN ClaudePool(route) : << p, ClaudePool(route)[n].id >> # NoKey
    /\ {AUTH_QUARANTINE, TRANSIENT_THRESHOLD, TRANSIENT_COOLDOWN, TRANSIENT_COOLDOWN_MAX,
        RATE_LIMIT_MAX, RATE_LIMIT_FALLBACK, SESSION_STICKY_TTL} \subseteq Int
    /\ RetryAfter \subseteq Int

Fresh == [version |-> 0, inFlight |-> 0, transientFailures |-> 0, quarantineUntil |-> 0,
          rateLimitUntil |-> 0, cooldownUntil |-> 0, stickyOnlyUntil |-> 0,
          earnedBy |-> {}]

HealthOf(h, k) == IF k \in DOMAIN h THEN h[k] ELSE Fresh

Latest(h) == Max({h.quarantineUntil, h.rateLimitUntil, h.cooldownUntil})

blockedUntil(h, k) == Latest(HealthOf(h, k))

isBlocked(h, k) == blockedUntil(h, k) > claudeClock

isStickyOnly(h, k) == HealthOf(h, k).stickyOnlyUntil > claudeClock

--------------------------------------------------------------------------
\* reconcile: a key of this profile whose credential is not what it was loses
\* its health and its pins; a reservation of it keeps the old health object.

SignaturesOf(route) ==
    LET pool == ClaudePool(route)
    IN  [id \in {pool[n].id : n \in DOMAIN pool} |->
            pool[CHOOSE n \in DOMAIN pool : pool[n].id = id].cred]

\* Mutant: only a key that is gone is forgotten.
OnlyRemoved(p) ==
    {<< p, id >> : id \in DOMAIN signatures[p] \ DOMAIN SignaturesOf(claudeRoute[p])}

Replaced(p) ==
    LET now == SignaturesOf(claudeRoute[p])
    IN  {<< p, id >> : id \in {id \in DOMAIN signatures[p] :
                                  id \notin DOMAIN now \/ now[id] # signatures[p][id]}}

KeptHealth(p) == [k \in DOMAIN health \ Replaced(p) |-> health[k]]

KeptPins(p) ==
    [s \in {s \in DOMAIN stickiness : stickiness[s].key \notin Replaced(p)} |-> stickiness[s]]

Orphaned(p) ==
    [r \in ClaudeRequest |->
        IF claudeOpen[r].key \in Replaced(p)
        THEN [claudeOpen[r] EXCEPT !.orphan = TRUE] ELSE claudeOpen[r]]

\* cleanupStickiness
Unexpired(pins) == [s \in {s \in DOMAIN pins : pins[s].expiresAt > claudeClock} |-> pins[s]]

--------------------------------------------------------------------------
\* select.  The keys it may settle on: the fixed one, the session's own, one of
\* the first in line, or the soonest to come back when none takes traffic.

Candidates(p, pool) == {<< p, pool[n].id >> : n \in DOMAIN pool}

PinnedKey(h, pins, p, pool, s) ==
    IF s \in DOMAIN pins /\ pins[s].key \in Candidates(p, pool) /\ ~isBlocked(h, pins[s].key)
    THEN {pins[s].key} ELSE {}

FirstInLine(h, p, pool) ==
    LET eligible == {n \in DOMAIN pool : /\ ~isBlocked(h, << p, pool[n].id >>)
                                         /\ ~isStickyOnly(h, << p, pool[n].id >>)}
        top == {n \in eligible : \A m \in eligible : pool[n].priority >= pool[m].priority}
        picked == IF claudeRoute[p].spread THEN top ELSE {n \in top : \A m \in top : n <= m}
    IN  {<< p, pool[n].id >> : n \in picked}

SoonestBack(h, p, pool) ==
    {k \in Candidates(p, pool) :
        \A other \in Candidates(p, pool) :
            blockedUntil(h, k) <= blockedUntil(h, other) + UNBLOCK_JITTER}

SelectableKeys(h, pins, p, s) ==
    LET pool == ClaudePool(claudeRoute[p])
        own == PinnedKey(h, pins, p, pool, s)
        first == FirstInLine(h, p, pool)
        lead == {n \in DOMAIN pool : \A m \in DOMAIN pool : n <= m}
    IN  CASE claudeRoute[p].optOut -> {<< p, pool[n].id >> : n \in lead}
          [] ~claudeRoute[p].optOut /\ own # {} -> own
          [] ~claudeRoute[p].optOut /\ own = {} /\ first # {} -> first
          [] OTHER -> SoonestBack(h, p, pool)

\* A request whose body has arrived is routed to a profile by the
\* configuration as it is now.  A pool of one key is left to the resolver.
RouteClaude(r) ==
    /\ claudeOpen[r].phase = "reading"
    /\ \E p \in ClaudeProfile, s \in Session \cup {NoSession} :
         /\ signatures' = [signatures EXCEPT ![p] = SignaturesOf(claudeRoute[p])]
         /\ IF Len(ClaudePool(claudeRoute[p])) <= 1
            THEN /\ health' = KeptHealth(p)
                 /\ stickiness' = KeptPins(p)
                 /\ claudeOpen' = [Orphaned(p) EXCEPT ![r].phase = "routed"]
            ELSE LET h == KeptHealth(p)
                     pins == Unexpired(KeptPins(p))
                 IN  \E k \in SelectableKeys(h, pins, p, s) :
                       LET used == HealthOf(h, k)
                       IN  /\ health' = [x \in DOMAIN h \cup {k} |->
                                           IF x = k THEN [used EXCEPT !.inFlight = @ + 1]
                                           ELSE h[x]]
                           /\ stickiness' = pins
                           /\ claudeOpen' = [Orphaned(p) EXCEPT ![r] =
                                 [phase |-> "routed", key |-> k, session |-> s,
                                  version |-> used.version, orphan |-> FALSE,
                                  cred |-> SignaturesOf(claudeRoute[p])[k[2]],
                                  reserve |-> claudeRoute[p].reserve]]
    /\ UNCHANGED << claudeRoute, claudeClock, claudeEdits, trippedSince >>

SendClaude(r) ==
    /\ claudeOpen[r].phase = "routed"
    /\ claudeOpen' = [claudeOpen EXCEPT ![r].phase = "sent"]
    /\ UNCHANGED << claudeRoute, health, signatures, stickiness, claudeClock, claudeEdits,
                    trippedSince >>

--------------------------------------------------------------------------
\* recordResult

NoReservation(phase) ==
    [phase |-> phase, key |-> NoKey, session |-> NoSession, version |-> 0,
     orphan |-> FALSE, cred |-> NoKey, reserve |-> 0]

\* A reservation is settled once, on the health object it was made on: a
\* replaced one is in the map no longer.
Release(r) ==
    LET k == claudeOpen[r].key
    IN  IF k = NoKey \/ claudeOpen[r].orphan THEN health
        ELSE [health EXCEPT ![k].inFlight = @ - 1]

\* A header of zero seconds or of a date gone by is as good as none.
retryAfterCooldown(header) ==
    IF header <= 0 THEN Min({RATE_LIMIT_MAX, RATE_LIMIT_FALLBACK})
    ELSE Min({RATE_LIMIT_MAX, header})

Failed(h, r, changed) ==
    [changed EXCEPT !.version = h.version + 1, !.earnedBy = @ \cup {claudeOpen[r].cred}]

Quarantined(h) ==
    [h EXCEPT !.quarantineUntil = Max({@, claudeClock + AUTH_QUARANTINE})]

RateLimited(h, header, reserve) ==
    LET until == Max({h.rateLimitUntil, claudeClock + retryAfterCooldown(header)})
    IN  [h EXCEPT !.rateLimitUntil = until,
                  !.stickyOnlyUntil = IF reserve > 0 THEN Max({@, until + reserve}) ELSE @]

Stumbled(h) ==
    LET failures == h.transientFailures + 1
        times == Max({1, failures - TRANSIENT_THRESHOLD + 1})
    IN  [h EXCEPT !.transientFailures = failures,
                  !.cooldownUntil =
                     IF failures < TRANSIENT_THRESHOLD THEN @
                     ELSE Max({@, claudeClock + Min({TRANSIENT_COOLDOWN_MAX,
                                                     TRANSIENT_COOLDOWN * times})})]

\* Mutant: any success heals.
AnySuccessHeals(h, version) ==
    [h EXCEPT !.transientFailures = 0, !.quarantineUntil = 0, !.rateLimitUntil = 0,
              !.cooldownUntil = 0, !.stickyOnlyUntil = 0, !.earnedBy = {}]

\* A success of a reservation older than the latest failure proves nothing.
Whole(h, version) ==
    IF version # h.version THEN h
    ELSE [h EXCEPT !.transientFailures = 0, !.quarantineUntil = 0, !.rateLimitUntil = 0,
                   !.cooldownUntil = 0, !.stickyOnlyUntil = 0, !.earnedBy = {}]

\* Every request that holds a reservation of k when k fails.
Outstanding(k) ==
    {x \in ClaudeRequest : claudeOpen[x].key = k /\ claudeOpen[x].phase \in {"routed", "sent"}}

\* A verdict about the key, unless the key is not what it was.
Judge(r, Verdict(_), failed, pins) ==
    LET o == claudeOpen[r]
        released == Release(r)
        judged == o.key # NoKey /\ ~o.orphan
    IN  /\ health' = IF judged THEN [released EXCEPT ![o.key] = Verdict(@)] ELSE released
        /\ stickiness' = IF judged THEN pins ELSE stickiness
        /\ trippedSince' = IF judged /\ failed THEN trippedSince \cup Outstanding(o.key)
                           ELSE trippedSince
        /\ claudeOpen' = [claudeOpen EXCEPT ![r] = NoReservation("done")]
        /\ UNCHANGED << claudeRoute, signatures, claudeClock, claudeEdits >>

SucceedClaude(r) ==
    /\ claudeOpen[r].phase = "sent"
    /\ LET o == claudeOpen[r]
           current == o.key # NoKey /\ ~o.orphan /\ o.version = health[o.key].version
       IN  Judge(r, LAMBDA h : Whole(h, o.version), FALSE,
                 IF ~current \/ o.session = NoSession THEN stickiness
                 ELSE [s \in DOMAIN stickiness \cup {o.session} |->
                         IF s = o.session
                         THEN [key |-> o.key, expiresAt |-> claudeClock + SESSION_STICKY_TTL,
                               cred |-> o.cred]
                         ELSE stickiness[s]])

\* 401, 402 and 403.
RefuseCredential(r) ==
    /\ claudeOpen[r].phase = "sent"
    /\ Judge(r, LAMBDA h : Failed(h, r, Quarantined(h)), TRUE, stickiness)

LimitRate(r) ==
    /\ claudeOpen[r].phase = "sent"
    /\ \E header \in RetryAfter :
         Judge(r, LAMBDA h : Failed(h, r, RateLimited(h, header, claudeOpen[r].reserve)),
               TRUE, stickiness)

\* 408, 5xx, no answer at all, and a stream that broke off.
FailTransiently(r) ==
    /\ claudeOpen[r].phase = "sent"
    /\ Judge(r, LAMBDA h : Failed(h, r, Stumbled(h)), TRUE, stickiness)

\* Any other status, a client that left, and a request that was never sent:
\* the reservation is released, nothing is learnt.
ReleaseClaude(r) ==
    /\ claudeOpen[r].phase \in {"routed", "sent"}
    /\ Judge(r, LAMBDA h : h, FALSE, stickiness)

--------------------------------------------------------------------------
EditClaudeRoute ==
    /\ claudeEdits < MaxKeyEdits
    /\ claudeEdits' = claudeEdits + 1
    /\ \E p \in ClaudeProfile, route \in ClaudeRoute :
         claudeRoute' = [claudeRoute EXCEPT ![p] = route]
    /\ UNCHANGED << health, signatures, stickiness, claudeOpen, claudeClock, trippedSince >>

PassClaudeTime ==
    /\ claudeClock < MaxKeyTime
    /\ claudeClock' = claudeClock + 1
    /\ UNCHANGED << claudeRoute, health, signatures, stickiness, claudeOpen, claudeEdits,
                    trippedSince >>

KeysInit ==
    /\ claudeRoute = [p \in ClaudeProfile |-> CHOOSE route \in ClaudeRoute : TRUE]
    /\ health = << >>
    /\ signatures = [p \in ClaudeProfile |-> << >>]
    /\ stickiness = << >>
    /\ claudeOpen = [r \in ClaudeRequest |-> NoReservation("reading")]
    /\ claudeClock = 1
    /\ claudeEdits = 0
    /\ trippedSince = {}

KeysNext ==
    \/ \E r \in ClaudeRequest :
          \/ RouteClaude(r) \/ SendClaude(r)
          \/ SucceedClaude(r) \/ RefuseCredential(r) \/ LimitRate(r)
          \/ FailTransiently(r) \/ ReleaseClaude(r)
    \/ EditClaudeRoute
    \/ PassClaudeTime

KeysSpec == KeysInit /\ [][KeysNext]_keyVars

--------------------------------------------------------------------------
\* A block of a key ends early only when the key's credential was replaced or
\* when a request that was routed after the key's latest failure succeeded: an
\* answer that was already on its way when the key failed lifts nothing
\* (recordResult, the version of a reservation).
BlocksOutliveLateSuccesses ==
    [][\A k \in DOMAIN health \cap DOMAIN health' :
          Latest(health'[k]) < Latest(health[k]) =>
              \/ signatures'[k[1]][k[2]] # signatures[k[1]][k[2]]
              \/ \E r \in ClaudeRequest \ trippedSince :
                    /\ claudeOpen[r].phase = "sent" /\ claudeOpen[r].key = k
                    /\ claudeOpen'[r].phase = "done"]_keyVars

\* What is held against a key, and the sessions pinned to it, were earned by
\* the credential its profile was last routed with: a key that was replaced,
\* even by one that was replaced before, starts with a clean record and no
\* pins, and the reservations open on a key are counted exactly.
EvidenceFollowsCredential ==
    /\ \A k \in DOMAIN health :
         /\ k[2] \in DOMAIN signatures[k[1]]
         /\ health[k].earnedBy \subseteq {signatures[k[1]][k[2]]}
         /\ health[k].inFlight =
               Cardinality({r \in ClaudeRequest : claudeOpen[r].key = k /\ ~claudeOpen[r].orphan})
    /\ \A s \in DOMAIN stickiness :
         LET k == stickiness[s].key
         IN  /\ k[2] \in DOMAIN signatures[k[1]]
             /\ stickiness[s].cred = signatures[k[1]][k[2]]

\* A key answers for itself only: for the credential it has, and to no verdict
\* that is older than the last failure on it (ClaudeKeyPoolState).
KeysAnswerForThemselves ==
    []EvidenceFollowsCredential /\ BlocksOutliveLateSuccesses
==========================================================================
