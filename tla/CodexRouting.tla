---------------------------- MODULE CodexRouting ----------------------------
(***************************************************************************)
(* How a request of the /v1 endpoint becomes one for an upstream: the      *)
(* primary and compact handlers of src/server/openai-proxy.ts with the     *)
(* plans of openai-proxy-plan.ts and the rewriting rules of routing.ts.    *)
(*                                                                         *)
(* A handler runs in one piece between its awaits: the body, an OAuth      *)
(* token, the write that moves the active profile, the upstream.  The      *)
(* configuration may be saved anew at each of them.  Which key the         *)
(* scheduler picks is PrimaryFailover's subject, what the bridge knows of  *)
(* a compaction CompactionBridge's, how a refused body is repaired         *)
(* StateRecovery's; here each of them may do whatever it may.              *)
(*                                                                         *)
(* A body is a record of what the rules look at; `ours` tells whether it   *)
(* is still the client's bytes, which may be compressed, or was written    *)
(* anew.  A client's credential is its authorization header.               *)
(***************************************************************************)
EXTENDS ClaudeRouting, CompactionBridge

CONSTANTS
    CodexAsk,          \* requests, each served once
    CodexGeneration,   \* the configurations the operator saves
    CodexBody,         \* the bodies clients send
    CodexCaller,       \* who sends: [profile, loopback, agent, credential]
    CompactName,       \* model -> its name in the compact route's template
    AgentRouters,      \* upstreams that refuse an item id of another resource
    MaxCodexSaves

VARIABLES
    inForce,        \* the configuration in force
    codexSaves,     \* its revision
    codexAsks       \* request -> what has become of it

codexVars == << inForce, codexSaves, codexAsks >>

\* What a body and a caller say of themselves.
CodexBodyFields == {"path", "readable", "model", "trigger", "body", "header", "v2", "state",
                    "effort", "untold", "encoded", "ids", "ours"}
CallerFields == {"profile", "loopback", "agent", "credential"}
RouteFields == {"host", "protocol", "pool", "env", "account", "ownAgent", "model", "effort"}

\* A route speaks one of the protocols, its account has a provider, and a pooled
\* key is a key.
RouteOk(route) ==
    /\ DOMAIN route = RouteFields
    /\ route.protocol \in {"responses", "chat", "messages"}
    /\ route.account \in DOMAIN Provider \cup {NoAccount}
    /\ \A label \in DOMAIN route.pool : route.pool[label] # NoCredential

ConfigOk(config) ==
    /\ DOMAIN config = {"primary", "compact", "auto", "active", "profiles"}
    /\ RouteOk(config.primary) /\ RouteOk(config.compact.route)
    /\ \A p \in DOMAIN config.profiles :
           RouteOk(config.profiles[p].primary) /\ RouteOk(config.profiles[p].compact.route)

ASSUME CodexAssumption ==
    /\ \A body \in CodexBody :
           /\ DOMAIN body = CodexBodyFields
           /\ body.path \in {"responses", "compact", "chat", "messages", "models"}
    /\ \A caller \in CodexCaller : DOMAIN caller = CallerFields
    /\ \A config \in CodexGeneration : ConfigOk(config)

--------------------------------------------------------------------------
\* Who serves the request.

NoKeyChosen == [profile |-> NoProfile, key |-> NoCredential]

\* withPrimaryConfig: the candidate's route offers its one key.
OneKey(route, label) == [route EXCEPT !.pool = [direct |-> route.pool[label]]]

\* codexPrimaryCandidates: a candidate per key, or one for a profile without.
CandidatesOf(profile, route) ==
    IF route.account # NoAccount \/ route.pool = << >>
    THEN {[profile |-> profile, key |-> NoCredential, route |-> route]}
    ELSE {[profile |-> profile, key |-> label, route |-> OneKey(route, label)] :
              label \in DOMAIN route.pool}

CodexCandidates(config) ==
    IF config.active = NoProfile THEN {}
    ELSE UNION {CandidatesOf(p, config.profiles[p].primary) : p \in DOMAIN config.profiles}

\* preview: the active profile serves unless the scheduler is on.
Previews(config) ==
    LET all == CodexCandidates(config)
        active == {c \in all : c.profile = config.active}
    IN  IF all = {}
        THEN {[profile |-> NoProfile, key |-> NoCredential, route |-> config.primary]}
        ELSE IF config.auto \/ active = {} THEN all ELSE active

\* resolveRequestScopedProfile: the named profile serves, whatever the scheduler.
WithCodexProfile(config, p) ==
    [config EXCEPT !.primary = config.profiles[p].primary,
                   !.compact = config.profiles[p].compact,
                   !.active = p, !.auto = FALSE]

\* An explicit profile is served without a reservation.
Selections(ask) ==
    IF ask.caller.profile = NoProfile THEN Previews(ask.config)
    ELSE {[profile |-> ask.caller.profile, key |-> NoCredential, route |-> ask.config.primary]}

--------------------------------------------------------------------------
\* The primary plan.

translateResponses(body) == body.path = "responses"

\* The model and effort the route prescribes.
rewriteForPrimary(body, route) ==
    LET model == IF route.model # NoModel /\ body.model # NoModel THEN route.model ELSE body.model
        effort == IF route.effort # NoEffort /\ translateResponses(body) /\ body.readable
                  THEN route.effort ELSE body.effort
    IN  IF model = body.model /\ effort = body.effort THEN body
        ELSE [body EXCEPT !.model = model, !.effort = effort, !.ours = TRUE]

preserveProviderState(body, route) == body.v2 /\ route.protocol = "responses"

\* The bridge tells its own compactions from those it lost and those it never knew.
BridgedBody(body, route) ==
    IF translateResponses(body) /\ ~preserveProviderState(body, route) /\ body.state = "known"
    THEN [body EXCEPT !.state = NoState, !.ours = TRUE] ELSE body

Unresolved(body, config, route) ==
    /\ translateResponses(body)
    /\ ~preserveProviderState(body, route)
    /\ IF route.protocol = "responses" THEN config.compact.split /\ body.state = "missing"
       ELSE body.state \in {"missing", "foreign"}

\* Endpoints of other protocols than the upstream's are not translated.
UnsupportedClient(body, route) ==
    \/ body.path = "chat" /\ route.protocol # "chat"
    \/ body.path = "messages"

\* What the translators of protocol-conversion.ts refuse of a Responses request.
Untranslatable(body, protocol) ==
    CASE protocol = "responses" -> 0
      [] ~body.readable \/ body.model = NoModel -> 400
      [] protocol \in body.untold -> 422
      [] OTHER -> 0

translateOpenAiRequest(body, protocol) ==
    IF protocol = "responses" THEN body ELSE [body EXCEPT !.ours = TRUE]

upstreamPath(body, protocol) ==
    IF body.path # "responses" \/ protocol = "responses" THEN body.path
    ELSE IF protocol = "chat" THEN "chat" ELSE "messages"

\* applyHostBodyQuirks: replayed item ids are cut on a host that fans out.
applyHostBodyQuirks(body, route) ==
    IF route.host \in AgentRouters /\ route.protocol = "responses" /\ body.ids
    THEN [body EXCEPT !.ids = FALSE, !.ours = TRUE] ELSE body

\* A body written anew is not compressed as the client's was.
contentEncoding(body) == body.encoded /\ ~body.ours

\* withRequestHeaders: a route without a key passes the client's on; an Anthropic
\* upstream is given the key under both its names.
withRequestHeaders(route, key, caller, body, path) ==
    [host |-> route.host, path |-> path, model |-> body.model, ours |-> body.ours,
     encoded |-> contentEncoding(body), readable |-> body.readable,
     shape |-> IF body.path \in {"responses", "compact"} THEN route.protocol
               ELSE IF body.path = "models" THEN "as sent" ELSE body.path,
     auth |-> authorization(route, key, caller),
     xkey |-> IF IsOpenAi(route) THEN NoCredential ELSE apiKey(route, key),
     agent |-> userAgent(route, caller)]

\* resolveRouteCredential takes the first key of a pool: any of them, here.
PoolKeys(route) == {k.cred : k \in Keys(route, NoProfile)}

\* The reason a primary plan is refused, or 0.
PrimaryRefusal(body, config, route) ==
    CASE UnsupportedClient(body, route) -> 400
      [] Unresolved(body, config, route) -> 422
      [] OTHER -> IF translateResponses(body) THEN Untranslatable(body, route.protocol) ELSE 0

buildPrimaryOpenAiProxyPlan(ask, route, key) ==
    LET rewritten == BridgedBody(rewriteForPrimary(ask.body, route), route)
        told == IF translateResponses(rewritten)
                THEN translateOpenAiRequest(rewritten, route.protocol) ELSE rewritten
    IN  withRequestHeaders(route, key, ask.caller, applyHostBodyQuirks(told, route),
                           upstreamPath(ask.body, route.protocol))

--------------------------------------------------------------------------
\* The compact plan.

compactModel(source, config, primary) ==
    IF config.compact.model # NoModel THEN config.compact.model
    ELSE CompactName[IF primary.model # NoModel THEN primary.model ELSE source]

\* rewriteCompactBody writes the body anew in any case.
rewriteCompactBody(body, config, primary) ==
    [body EXCEPT !.model = compactModel(body.model, config, primary), !.ours = TRUE]

CompactRoute(config, selection) ==
    IF config.compact.split THEN config.compact.route ELSE selection.route

CompactRefusal(body, route) ==
    CASE ~body.readable \/ body.model = NoModel -> 400
      [] route.protocol = "chat" -> 422
      [] OTHER -> Untranslatable(body, route.protocol)

\* A split route without a key sends none.
buildCompactOpenAiProxyPlan(ask, selection, route, key) ==
    LET body == applyHostBodyQuirks(rewriteCompactBody(ask.body, ask.config, selection.route), route)
        path == IF route.protocol = "messages" THEN "messages" ELSE ask.body.path
        out == withRequestHeaders(route, key, ask.caller, body, path)
    IN  IF ask.config.compact.split /\ apiKey(route, key) = NoCredential /\ route.account = NoAccount
        THEN [out EXCEPT !.auth = NoCredential] ELSE out

--------------------------------------------------------------------------
IsCompaction(body) == Classified(body) \in {"local", "remote_v1"}

\* Only a compact route that follows the primary one asks the scheduler.
CompactSelections(ask) ==
    IF ask.config.compact.split
    THEN {[profile |-> NoProfile, key |-> NoCredential, route |-> ask.config.primary]}
    ELSE Selections(ask)

KeyOf(selection) == [profile |-> selection.profile, key |-> selection.key]

CodexInit ==
    /\ inForce \in CodexGeneration
    /\ codexSaves = 0
    /\ codexAsks = [r \in CodexAsk |-> NotYetAsked]

CodexBecomes(r, ask) == codexAsks' = [codexAsks EXCEPT ![r] = ask]

\* The first look: an explicit profile is settled here, with its configuration.
CodexArrive(r) ==
    /\ codexAsks[r] = NotYetAsked
    /\ \E body \in CodexBody, caller \in CodexCaller :
           CodexBecomes(r,
             IF ProfileRefused(inForce, caller)
             THEN [stage |-> "over", status |-> 400]
             ELSE [stage |-> "reading", body |-> body, caller |-> caller, todo |-> << >>,
                   config |-> IF caller.profile = NoProfile THEN inForce
                              ELSE WithCodexProfile(inForce, caller.profile),
                   revision |-> codexSaves, out |-> Nothing, charged |-> NoKeyChosen,
                   route |-> inForce.primary])
    /\ UNCHANGED << inForce, codexSaves >>

CodexEnds(r, status) == CodexBecomes(r, [stage |-> "over", status |-> status])

CodexLoseBody(r) ==
    /\ codexAsks[r].stage = "reading"
    /\ \E status \in {413, IF codexAsks[r].body.path = "compact" THEN 400 ELSE 502} :
           CodexEnds(r, status)
    /\ UNCHANGED << inForce, codexSaves >>

\* A slow body must not be served from an obsolete configuration.
Reread(r) ==
    IF codexAsks[r].caller.profile # NoProfile THEN codexAsks[r]
    ELSE [codexAsks[r] EXCEPT !.config = inForce, !.revision = codexSaves]

\* reserveSelection: a request with a profile of its own is charged to no key.
Reserved(ask, selection) ==
    IF ask.caller.profile # NoProfile THEN NoKeyChosen ELSE KeyOf(selection)

\* What is awaited before the upstream is asked, in order.
TokenAwaited(route) == IF route.account = NoAccount THEN << >> ELSE << "account" >>
PointerAwaited(key) == IF key.profile = NoProfile THEN << >> ELSE << "pointer" >>

\* The plan stands and its key is charged.
Planned(r, ask, route, key, out, todo) ==
    CodexBecomes(r, [ask EXCEPT !.stage = "waiting", !.charged = key, !.out = out,
                                !.route = route, !.todo = todo])

\* proxyPrimaryRequest
PlanPrimary(r) ==
    LET ask == Reread(r)
    IN  /\ codexAsks[r].stage = "reading"
        /\ ~IsCompaction(ask.body)
        /\ \E selection \in Selections(ask) :
             LET route == selection.route
                 refusal == PrimaryRefusal(ask.body, ask.config, route)
                 key == Reserved(ask, selection)
             IN  IF refusal # 0 THEN CodexEnds(r, refusal)
                 ELSE \E cred \in PoolKeys(route) :
                        Planned(r, ask, route, key, buildPrimaryOpenAiProxyPlan(ask, route, cred),
                                TokenAwaited(route) \o PointerAwaited(key))
        /\ UNCHANGED << inForce, codexSaves >>

\* proxyCompactRequest: asked for by path, or handed over by the primary handler.
PlanCompact(r) ==
    LET ask == Reread(r)
    IN  /\ codexAsks[r].stage = "reading"
        /\ IsCompaction(ask.body)
        /\ \E selection \in CompactSelections(ask) :
             LET route == CompactRoute(ask.config, selection)
                 refusal == CompactRefusal(ask.body, route)
                 key == Reserved(ask, selection)
             IN  IF refusal # 0 THEN CodexEnds(r, refusal)
                 ELSE \E cred \in PoolKeys(route) :
                        Planned(r, ask, route, key,
                                buildCompactOpenAiProxyPlan(ask, selection, route, cred),
                                PointerAwaited(key) \o TokenAwaited(route))
        /\ UNCHANGED << inForce, codexSaves >>

Awaits(r, what) == codexAsks[r].stage = "waiting" /\ codexAsks[r].todo # << >>
                   /\ Head(codexAsks[r].todo) = what

\* codexRequestBody: the subscription's dialect is written anew.
InDialect(out, account) ==
    IF Provider[account].protocol # "responses" \/ out.path = "models" THEN out
    ELSE [out EXCEPT !.ours = TRUE, !.encoded = FALSE]

\* prepareOAuthRequest: the account's token takes the place of the caller's own.
PrepareAccount(r) ==
    LET ask == codexAsks[r]
        account == ask.route.account
    IN  /\ Awaits(r, "account")
        /\ IF \/ AccountRefuses(ask.route, ask.out.path)
              \/ InDialect(ask.out, account) # ask.out /\ ~ask.body.readable
           THEN CodexEnds(r, 400)
           ELSE CodexBecomes(r, [ask EXCEPT !.todo = Tail(@),
                    !.out = [InDialect(@, account) EXCEPT !.auth = account,
                                                          !.xkey = NoCredential]])
        /\ UNCHANGED << inForce, codexSaves >>

\* No token, or the client has gone meanwhile.
FailAccount(r) ==
    /\ Awaits(r, "account")
    /\ \E status \in {401, 499, 503} : CodexEnds(r, status)
    /\ UNCHANGED << inForce, codexSaves >>

\* syncScheduledPrimaryProfile: only if nobody has saved since the request's look.
PointerMoves(ask) ==
    /\ inForce.auto
    /\ ask.charged.profile # inForce.active
    /\ ask.revision = codexSaves

LeavePointer(r) ==
    /\ Awaits(r, "pointer")
    /\ ~PointerMoves(codexAsks[r])
    /\ CodexBecomes(r, [codexAsks[r] EXCEPT !.todo = Tail(@)])
    /\ UNCHANGED << inForce, codexSaves >>

\* applyProfile through the configuration store.
ApplyCharged(r) ==
    /\ inForce' = [WithCodexProfile(inForce, codexAsks[r].charged.profile)
                      EXCEPT !.auto = inForce.auto]
    /\ codexSaves' = codexSaves + 1

MovePointer(r) ==
    /\ Awaits(r, "pointer")
    /\ PointerMoves(codexAsks[r])
    /\ ApplyCharged(r)
    /\ CodexBecomes(r, [codexAsks[r] EXCEPT !.todo = Tail(@)])

\* The write failed, before it took effect or after.
FailPointer(r) ==
    /\ Awaits(r, "pointer")
    /\ PointerMoves(codexAsks[r])
    /\ \/ /\ UNCHANGED << inForce, codexSaves >>
          /\ \E status \in {400, IF IsCompaction(codexAsks[r].body) THEN 400 ELSE 502} :
                 CodexEnds(r, status)
       \/ /\ ApplyCharged(r)
          /\ CodexEnds(r, 500)

Ready(r) == codexAsks[r].stage = "waiting" /\ codexAsks[r].todo = << >>

\* A compaction asked for again is answered from memory.
ReplayCompaction(r) ==
    /\ Ready(r)
    /\ Classified(codexAsks[r].body) = "remote_v1"
    /\ codexAsks[r].route.protocol = "responses"
    /\ CodexEnds(r, 200)
    /\ UNCHANGED << inForce, codexSaves >>

\* onAttemptStarted
CodexAttempt(r) ==
    /\ Ready(r)
    /\ CodexBecomes(r, [codexAsks[r] EXCEPT !.stage = "sent"])
    /\ UNCHANGED << inForce, codexSaves >>

\* The transport gave up before it asked, or the upstream answered or failed.
CodexConclude(r) ==
    /\ \/ Ready(r) /\ CodexEnds(r, 502)
       \/ /\ codexAsks[r].stage = "sent"
          /\ \E status \in {200, 502} : CodexEnds(r, status)
    /\ UNCHANGED << inForce, codexSaves >>

CodexSave ==
    /\ codexSaves < MaxCodexSaves
    /\ \E config \in CodexGeneration : config # inForce /\ inForce' = config
    /\ codexSaves' = codexSaves + 1
    /\ UNCHANGED codexAsks

CodexNext ==
    \/ \E r \in CodexAsk : CodexArrive(r)
    \/ \E r \in CodexAsk : CodexLoseBody(r)
    \/ \E r \in CodexAsk : PlanPrimary(r)
    \/ \E r \in CodexAsk : PlanCompact(r)
    \/ \E r \in CodexAsk : PrepareAccount(r)
    \/ \E r \in CodexAsk : FailAccount(r)
    \/ \E r \in CodexAsk : LeavePointer(r)
    \/ \E r \in CodexAsk : MovePointer(r)
    \/ \E r \in CodexAsk : FailPointer(r)
    \/ \E r \in CodexAsk : ReplayCompaction(r)
    \/ \E r \in CodexAsk : CodexAttempt(r)
    \/ \E r \in CodexAsk : CodexConclude(r)
    \/ CodexSave

CodexSpec == CodexInit /\ [][CodexNext]_codexVars

--------------------------------------------------------------------------
\* The routes of a configuration, each with what it may pass on of the caller's.
RoutesOf(config) ==
    {[route |-> config.primary, passes |-> TRUE],
     [route |-> config.compact.route, passes |-> FALSE]}
    \cup {[route |-> config.profiles[p].primary, passes |-> TRUE] :
              p \in DOMAIN config.profiles}

\* The key an attempt is charged to is the one it carries: the verdict on the
\* answer falls on it.
ChargedForItsOwnKey(ask) ==
    LET pool == ask.config.profiles[ask.charged.profile].primary.pool
    IN  ask.charged.key # NoCredential => ask.out.auth = pool[ask.charged.key]

\* Where each protocol is spoken.
SpokenAt(protocol) ==
    CASE protocol = "responses" -> {"responses", "compact"}
      [] protocol = "chat" -> {"chat"}
      [] OTHER -> {"messages"}

\* Codex requests: whatever is saved while a body is read, a token fetched or the
\* active profile moved, a request reaches the upstream with a key configured for
\* it in the configuration it was planned from, in its protocol, at its endpoint
\* and under its identity; the scheduler charges that very key; and the client's
\* content encoding goes only with the client's own bytes.
CodexRequestsSuitTheirUpstream ==
    [][\A r \in CodexAsk :
          (codexAsks'[r].stage = "sent" /\ codexAsks[r].stage # "sent") =>
              LET ask == codexAsks'[r]
                  out == ask.out
                  Passed(passes) == IF passes THEN ask.caller
                                    ELSE [ask.caller EXCEPT !.credential = NoCredential]
              IN  /\ \/ /\ out.auth \in DOMAIN Provider
                        /\ out.host = Provider[out.auth].host
                        /\ out.xkey = NoCredential
                     \/ \E x \in RoutesOf(ask.config) :
                            SuitsRoute(out, Passed(x.passes), x.route)
                  /\ out.shape # "as sent" => out.path \in SpokenAt(out.shape)
                  /\ ChargedForItsOwnKey(ask)
                  /\ out.encoded => ~out.ours
      ]_codexVars
=============================================================================
