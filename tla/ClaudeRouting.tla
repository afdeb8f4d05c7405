--------------------------- MODULE ClaudeRouting ---------------------------
(***************************************************************************)
(* How a request of the /anthropic endpoint becomes one for an upstream:   *)
(* proxyClaudeRequest (src/server/claude-proxy.ts) with the scene and      *)
(* model rules of src/server/claude-models.ts.  The configuration may be   *)
(* saved anew while the body is read or an OAuth token is fetched; all of  *)
(* the rest happens in one synchronous block.                              *)
(*                                                                         *)
(* A body is a record of what the rules look at: the text it holds counts  *)
(* as a number of bytes, a field that cannot be parsed is a flag.  A model *)
(* name is known by the words it contains.  Which key of the pool is taken *)
(* is ClaudeKeyPool's subject; here it is any of them.                     *)
(***************************************************************************)
EXTENDS Integers, Sequences, SequencesExt, FiniteSets, FiniteSetsExt, TLC

CONSTANTS
    Ask,          \* requests, each served once
    Generation,   \* the configurations the operator saves
    AskedBody,    \* the bodies clients send
    Caller,       \* who sends: [profile, loopback, agent, credential]
    Words,        \* model -> the words in its name the rules look for
    Provider,     \* OAuth account -> [host, kind] of its provider
    AgentFor,     \* "claude" or "codex" -> the identity to introduce oneself with
    NoModel, NoProfile, NoCredential, NoAccount, NoAgent, NoEffort, NoBudget,
    AnthropicHost, MimoHost,
    StrippingHosts, CountlessHosts,  \* upstreams known to refuse references, counting
    MaxSaves

VARIABLES
    generation,   \* the configuration in force
    asks,         \* request -> what has become of it
    connected,    \* the OAuth accounts that are connected
    saves

routingVars == << generation, asks, connected, saves >>

--------------------------------------------------------------------------
\* What each model lets a request say about thinking.

BUDGET_THINKING == [modes |-> {"enabled"}, efforts |-> {}]
BUDGET_WITH_EFFORT == [modes |-> {"enabled"}, efforts |-> {"low", "medium", "high"}]
ADAPTIVE_THINKING ==
    [modes |-> {"adaptive"}, efforts |-> {"low", "medium", "high", "xhigh", "max"}]
DUAL_THINKING ==
    [modes |-> {"enabled", "adaptive"}, efforts |-> {"low", "medium", "high", "max"}]

BudgetModels ==
    {"claude-sonnet-4-5", "claude-sonnet-4-5-20250929", "claude-haiku-4-5",
     "claude-haiku-4-5-20251001"}
BudgetWithEffortModels == {"claude-opus-4-5", "claude-opus-4-5-20251101"}
DualModels == {"claude-opus-4-6", "claude-sonnet-4-6", "claude-mythos-preview"}
AdaptiveModels ==
    {"claude-opus-4-7", "claude-opus-4-8", "claude-opus-5", "claude-opus-5-5",
     "claude-sonnet-5", "claude-sonnet-5-5", "claude-haiku-5-5", "claude-fable-5",
     "claude-fable-5-1", "claude-mythos-5", "claude-mythos-5-1"}

CLAUDE_THINKING_CAPABILITIES ==
    [m \in BudgetModels \cup BudgetWithEffortModels \cup DualModels \cup AdaptiveModels |->
        IF m \in BudgetModels THEN BUDGET_THINKING
        ELSE IF m \in BudgetWithEffortModels THEN BUDGET_WITH_EFFORT
        ELSE IF m \in DualModels THEN DUAL_THINKING ELSE ADAPTIVE_THINKING]

CLAUDE_MIN_THINKING_BUDGET == 1024

\* The share of max_tokens an effort stands for, in thousandths.
claudeThinkingShareForEffort ==
    [minimal |-> 50, low |-> 150, medium |-> 375, high |-> 625, xhigh |-> 1000, max |-> 1000]

claudeEffortForThinkingBudget(budget, maxTokens) ==
    IF 4 * budget >= 3 * maxTokens THEN "max"
    ELSE IF 2 * budget >= maxTokens THEN "high"
    ELSE IF 4 * budget >= maxTokens THEN "medium" ELSE "low"

\* Rewriting is for a mode the target is known not to take.
Incompatible(body, model) ==
    /\ model \in DOMAIN CLAUDE_THINKING_CAPABILITIES
    /\ body.thinking.type \in {"enabled", "adaptive"}
    /\ body.thinking.type \notin CLAUDE_THINKING_CAPABILITIES[model].modes

\* What makes alignClaudeThinkingToModel refuse the request.
CannotAlign(body, model) ==
    LET efforts == CLAUDE_THINKING_CAPABILITIES[model].efforts
    IN  \/ body.output = "malformed"
        \/ body.effort # NoEffort /\ efforts # {} /\ body.effort \notin efforts
        \/ body.maxTokens <= 0
        \/ body.thinking.type = "enabled" /\ body.thinking.budget < CLAUDE_MIN_THINKING_BUDGET
        \/ body.thinking.type = "adaptive"
             /\ \/ body.thinking.budget # NoBudget
                \/ body.maxTokens <= CLAUDE_MIN_THINKING_BUDGET
                \/ body.effort \notin DOMAIN claudeThinkingShareForEffort

budgetThinkingToEffort(body) ==
    [body EXCEPT
        !.thinking = [type |-> "adaptive", budget |-> NoBudget],
        !.output = "object",
        !.effort = IF @ # NoEffort THEN @
                   ELSE claudeEffortForThinkingBudget(body.thinking.budget, body.maxTokens)]

\* Mutant: the budget may take all of max_tokens.
WholeBudget(body) ==
    Max({CLAUDE_MIN_THINKING_BUDGET,
         (body.maxTokens * claudeThinkingShareForEffort[body.effort] + 500) \div 1000})

BudgetFor(body) ==
    Max({CLAUDE_MIN_THINKING_BUDGET,
         Min({body.maxTokens - 1,
              (body.maxTokens * claudeThinkingShareForEffort[body.effort] + 500) \div 1000})})

effortThinkingToBudget(body, efforts) ==
    [body EXCEPT !.thinking = [type |-> "enabled", budget |-> BudgetFor(body)],
                 !.effort = IF efforts = {} THEN NoEffort ELSE @,
                 !.output = IF efforts = {} THEN "absent" ELSE @]

alignClaudeThinkingToModel(body, model) ==
    IF ~Incompatible(body, model) THEN body
    ELSE IF body.thinking.type = "enabled" THEN budgetThinkingToEffort(body)
    ELSE effortThinkingToBudget(body, CLAUDE_THINKING_CAPABILITIES[model].efforts)

--------------------------------------------------------------------------
\* Scenes, profiles and models.

extractSourceModel(body) == IF body.readable THEN body.model ELSE NoModel

WordsOf(model) == IF model = NoModel THEN {} ELSE Words[model]

\* The first of the rules that applies.
detectClaudeScene(body, longContext) ==
    IF ~body.readable THEN "default"
    ELSE IF longContext > 0 /\ body.bytes >= longContext THEN "long_context"
    ELSE IF "haiku" \in WordsOf(body.model) THEN "background"
    ELSE IF body.search THEN "web_search"
    ELSE IF body.thinking.type \notin {"none", "disabled"} THEN "thinking"
    ELSE IF body.image THEN "image" ELSE "default"

\* Every role a name belongs to, most specific first.
classifyClaudeModelRoles(model) ==
    LET words == WordsOf(model)
    IN  SelectSeq(<< "subagent", "reasoning", "haiku", "sonnet", "opus", "default" >>,
            LAMBDA role : CASE role = "reasoning" -> words \cap {"reasoning", "thinking"} # {}
                            [] role = "default" -> words \cap {"default", "best"} # {}
                            [] OTHER -> role \in words)

resolveClaudeMappedModel(source, settings, body) ==
    LET mapped == SelectSeq(classifyClaudeModelRoles(source),
                            LAMBDA role : settings.roles[role] # NoModel)
    IN  IF settings.route.host = MimoHost /\ body.readable /\ body.image THEN "mimo-v2.5"
        ELSE IF mapped # << >> THEN settings.roles[Head(mapped)] ELSE settings.roles["default"]

\* applyProfile, for one request: the profile's settings become the live ones.
WithProfile(config, profile) ==
    [config EXCEPT !.live = config.profiles[profile], !.active = profile]

\* resolveRequestScopedProfile refuses the header.
ProfileRefused(config, caller) ==
    caller.profile # NoProfile /\ (~caller.loopback \/ caller.profile \notin DOMAIN config.profiles)

resolveClaudeRequestRouting(config, body, caller) ==
    LET scene == detectClaudeScene(body, config.live.longContext)
        target == config.live.scenes[scene]
        Routed(profile, to, source, model) ==
            [config |-> to, scene |-> scene, profile |-> profile, source |-> source,
             sceneModel |-> model]
    IN  IF caller.profile # NoProfile
        THEN Routed(caller.profile, WithProfile(config, caller.profile), "explicit", NoModel)
        ELSE IF target.profile # NoProfile
        THEN Routed(target.profile, WithProfile(config, target.profile), "scene", target.model)
        ELSE Routed(config.active, config,
                    IF target.model # NoModel THEN "scene" ELSE "active", target.model)

SettingsIn(config) == {config.live} \cup {config.profiles[p] : p \in DOMAIN config.profiles}

\* validateClaudeSceneProfileReferences, and the active profile exists.
Valid(config) ==
    /\ config.active \in DOMAIN config.profiles \cup {NoProfile}
    /\ \A settings \in SettingsIn(config) :
           \A scene \in DOMAIN settings.scenes :
               settings.scenes[scene].profile \in DOMAIN config.profiles \cup {NoProfile}

\* What a body says of itself; one that cannot be read holds no block to strip.
BodyFields == {"endpoint", "readable", "model", "bytes", "search", "thinking", "output",
               "effort", "maxTokens", "image", "references"}
Scenes == {"long_context", "background", "web_search", "thinking", "image", "default"}

\* Every scene has a target, a pooled key is a key, and no effort is not one.
ASSUME RoutingAssumption ==
    /\ \A body \in AskedBody :
           /\ DOMAIN body = BodyFields /\ body.maxTokens \in Int
           /\ ~body.readable => ~body.references
    /\ \A config \in Generation :
           /\ DOMAIN config = {"live", "active", "profiles"}
           /\ DOMAIN config.live.scenes = Scenes
           /\ \A settings \in SettingsIn(config) :
                  \A label \in DOMAIN settings.route.pool :
                      settings.route.pool[label] # NoCredential
    /\ NoEffort \notin {"low", "medium", "high", "xhigh", "max"}

--------------------------------------------------------------------------
\* The request that goes out.

IsMessages(body) == body.endpoint \in {"messages", "count_tokens"}

IsOpenAi(route) == route.protocol \in {"responses", "chat"}

upstreamPathForEndpoint(body, protocol) ==
    IF ~IsMessages(body) \/ protocol = "messages" THEN body.endpoint
    ELSE IF protocol = "chat" THEN "chat"
    ELSE IF body.endpoint = "count_tokens" THEN "input_tokens" ELSE "responses"

\* Thinking is adapted only for Messages proper, at Anthropic's own endpoint.
AdaptsThinking(body, route) ==
    /\ body.endpoint = "messages"
    /\ route.protocol = "messages"
    /\ route.host = AnthropicHost

ModelChanges(body, target) == body.readable /\ target # NoModel /\ body.model # target

rewriteClaudeModelBody(body, target, route) ==
    IF ~ModelChanges(body, target) THEN body
    ELSE [(IF AdaptsThinking(body, route) /\ body.model # NoModel
           THEN alignClaudeThinkingToModel(body, target) ELSE body) EXCEPT !.model = target]

hostNeedsToolReferenceStripping(host) == host \in StrippingHosts

stripClaudeToolReferenceBlocks(body, host) ==
    IF hostNeedsToolReferenceStripping(host) /\ body.readable
    THEN [body EXCEPT !.references = FALSE] ELSE body

\* What cannot be said in Responses: tools that run at Anthropic's, and blocks of
\* a tool result that are not text, image or document.
ToolsRefused(body) == body.search

ToolResultRefused(body) == body.references

CannotBecomeResponses(body) ==
    \/ ~body.readable
    \/ body.model = NoModel
    \/ ToolsRefused(body)
    \/ ToolResultRefused(body)

CannotBecomeChat(body) == body.endpoint = "count_tokens" \/ CannotBecomeResponses(body)

CannotConvert(body, protocol) ==
    IF protocol = "chat" THEN CannotBecomeChat(body) ELSE CannotBecomeResponses(body)

\* The top tier has another name there.
anthropicEffortToResponses(body) == IF body.effort = "max" THEN "xhigh" ELSE body.effort

anthropicThinkingConfigToResponses(body) ==
    CASE body.thinking.type \in {"none", "disabled"} -> NoEffort
      [] body.thinking.type = "adaptive" ->
             (IF body.output = "malformed" \/ body.effort = NoEffort THEN "high"
              ELSE anthropicEffortToResponses(body))
      [] OTHER ->
             LET budget == IF body.thinking.budget = NoBudget THEN 4096 ELSE body.thinking.budget
             IN  IF budget <= 2048 THEN "low" ELSE IF budget <= 4096 THEN "medium"
                 ELSE IF budget <= 8192 THEN "high" ELSE "xhigh"

\* The keys that may carry the request, each with the name the log gives it: a
\* pooled key its label, the route's own key, or none, the profile's name.
Keys(route, profile) ==
    IF route.account # NoAccount \/ route.pool = << >>
    THEN {[name |-> profile, cred |-> NoCredential]}
    ELSE {[name |-> IF label = "direct" THEN profile ELSE label, cred |-> route.pool[label]] :
              label \in DOMAIN route.pool}

\* resolveRouteCredential once the pool's choice has been injected.
apiKey(route, key) ==
    IF route.account # NoAccount THEN NoCredential
    ELSE IF key # NoCredential THEN key ELSE route.env

\* buildOpenAiRequestHeaders and buildAnthropicUpstreamHeaders: the client's
\* credentials pass through where the route has none.
authorization(route, key, caller) ==
    IF apiKey(route, key) # NoCredential THEN apiKey(route, key) ELSE caller.credential

xApiKey(route, key, caller) ==
    IF IsOpenAi(route) THEN NoCredential ELSE authorization(route, key, caller)

identityKind(route) == IF IsOpenAi(route) THEN "codex" ELSE "claude"

isNativeCliRequest(kind, caller) == caller.agent = kind

\* applyClientIdentityUserAgent: the CLI itself, or one who is asked for another
\* header by the route, is left alone.
userAgent(route, caller) ==
    LET kind == identityKind(route)
    IN  IF route.ownAgent # NoAgent THEN route.ownAgent
        ELSE IF isNativeCliRequest(kind, caller) \/ AgentFor[kind] = NoAgent THEN caller.agent
        ELSE AgentFor[kind]

Outbound(body, route, key, caller) ==
    [host |-> route.host, path |-> upstreamPathForEndpoint(body, route.protocol),
     model |-> extractSourceModel(body), thinking |-> body.thinking, effort |-> body.effort,
     maxTokens |-> body.maxTokens, references |-> body.references,
     shape |-> IF IsMessages(body) THEN route.protocol ELSE "as sent",
     reasoning |-> IF IsOpenAi(route) /\ IsMessages(body)
                   THEN anthropicThinkingConfigToResponses(body) ELSE NoEffort,
     auth |-> authorization(route, key, caller), xkey |-> xApiKey(route, key, caller),
     agent |-> userAgent(route, caller)]

Nothing == [host |-> NoCredential]

--------------------------------------------------------------------------
NotYetAsked == [stage |-> "idle"]

RoutingInit ==
    /\ generation \in {c \in Generation : Valid(c)}
    /\ asks = [r \in Ask |-> NotYetAsked]
    /\ connected = DOMAIN Provider
    /\ saves = 0

Becomes(r, ask) == asks' = [asks EXCEPT ![r] = ask]

\* A first look at the configuration, before the body.
Arrive(r) ==
    /\ asks[r] = NotYetAsked
    /\ \E body \in AskedBody, caller \in Caller :
           Becomes(r, [stage |-> "reading", body |-> body, caller |-> caller,
                       config |-> generation, out |-> Nothing, keyName |-> NoProfile,
                       logged |-> NoModel, status |-> 502])
    /\ UNCHANGED << generation, connected, saves >>

Ends(r, status) == Becomes(r, [asks[r] EXCEPT !.stage = "over", !.status = status])

\* The client leaves, or sends more than is read.
LoseBody(r) ==
    /\ asks[r].stage = "reading"
    /\ \E status \in {413, 502} : Ends(r, status)
    /\ UNCHANGED << generation, connected, saves >>

\* Mutant: the look taken before the body was read is good enough.
FirstLook(r) == asks[r].config

CurrentConfig(r) == generation

\* Mutant: the intended model is logged whatever was sent.
IntendedModel(body, target) == target

\* Where no mapping was applied the log names the model the upstream receives.
LoggedModel(body, target) ==
    IF ModelChanges(body, target) THEN target ELSE extractSourceModel(body)

\* prepareOAuthRequest before its await: the account's own endpoints only.
AccountRefuses(route, path) ==
    LET provider == Provider[route.account]
    IN  \/ route.host # provider.host \/ route.protocol # provider.protocol
        \/ path \notin {"models"} \cup
               (CASE provider.protocol = "messages" -> {"messages", "count_tokens"}
                  [] provider.protocol = "responses" -> {"responses", "compact"}
                  [] OTHER -> {"chat"})

\* From the end of the body to the request's way out.
Route(r) ==
    LET ask == asks[r]
        base == CurrentConfig(r)
        routing == resolveClaudeRequestRouting(base, ask.body, ask.caller)
        settings == routing.config.live
        route == settings.route
        source == extractSourceModel(ask.body)
        mapped == resolveClaudeMappedModel(source, settings, ask.body)
        target == IF routing.sceneModel # NoModel THEN routing.sceneModel
                  ELSE IF mapped # NoModel THEN mapped ELSE source
        rewritten == rewriteClaudeModelBody(ask.body, target, route)
        body == stripClaudeToolReferenceBlocks(rewritten, route.host)
        countsLocally == body.endpoint = "count_tokens" /\ route.host \in CountlessHosts
        refused ==
            CASE ask.body.endpoint = "openai" -> 400
              [] ProfileRefused(base, ask.caller) -> 400
              [] /\ ModelChanges(ask.body, target) /\ AdaptsThinking(ask.body, route)
                 /\ source # NoModel
                 /\ Incompatible(ask.body, target) /\ CannotAlign(ask.body, target) -> 422
              [] IsOpenAi(route) /\ IsMessages(body) /\ CannotConvert(body, route.protocol) -> 422
              [] countsLocally -> 200
              [] /\ route.account # NoAccount
                 /\ AccountRefuses(route, upstreamPathForEndpoint(body, route.protocol)) -> 400
              [] OTHER -> 0
    IN  /\ ask.stage = "reading"
        /\ IF refused # 0 THEN Ends(r, refused)
           ELSE \E key \in Keys(route, routing.profile) :
                  Becomes(r, [ask EXCEPT
                     !.stage = IF route.account # NoAccount THEN "preparing" ELSE "sent",
                     !.config = routing.config, !.keyName = key.name,
                     !.logged = LoggedModel(ask.body, target),
                     !.out = Outbound(body, route, key.cred, ask.caller)])
        /\ UNCHANGED << generation, connected, saves >>

\* The token came; the caller's own credentials make way for it.
Prepare(r) ==
    LET account == asks[r].config.live.route.account
    IN  /\ asks[r].stage = "preparing"
        /\ account \in connected
        /\ Becomes(r, [asks[r] EXCEPT !.stage = "sent", !.out.auth = account,
                                      !.out.xkey = NoCredential])
        /\ UNCHANGED << generation, connected, saves >>

\* No token, or the client has gone meanwhile.
FailPreparing(r) ==
    /\ asks[r].stage = "preparing"
    /\ \E status \in {401, 499} : Ends(r, status)
    /\ UNCHANGED << generation, connected, saves >>

Conclude(r) ==
    /\ asks[r].stage = "sent"
    /\ \E status \in {200, 502} : Ends(r, status)
    /\ UNCHANGED << generation, connected, saves >>

Save ==
    /\ saves < MaxSaves
    /\ \E config \in Generation : Valid(config) /\ config # generation /\ generation' = config
    /\ saves' = saves + 1
    /\ UNCHANGED << asks, connected >>

DisconnectAccount ==
    /\ \E account \in connected : connected' = connected \ {account}
    /\ UNCHANGED << generation, asks, saves >>

RoutingNext ==
    \/ \E r \in Ask : Arrive(r)
    \/ \E r \in Ask : LoseBody(r)
    \/ \E r \in Ask : Route(r)
    \/ \E r \in Ask : Prepare(r)
    \/ \E r \in Ask : FailPreparing(r)
    \/ \E r \in Ask : Conclude(r)
    \/ Save
    \/ DisconnectAccount

RoutingSpec == RoutingInit /\ [][RoutingNext]_routingVars

--------------------------------------------------------------------------
\* A request leaves with what the configuration of that moment has for the host
\* it goes to, and nothing of the client's beside the route's key; its shape and
\* its introduction are of the protocol spoken there.
SuitsRoute(out, caller, route) ==
    /\ out.host = route.host
    /\ out.shape \in {route.protocol, "as sent"}
    /\ \/ out.agent \in {route.ownAgent, identityKind(route), AgentFor[identityKind(route)]}
       \/ out.agent = caller.agent /\ AgentFor[identityKind(route)] = NoAgent
    /\ \/ \E label \in DOMAIN route.pool : out.auth = route.pool[label]
       \/ route.pool = << >> /\ out.auth = route.env /\ route.env # NoCredential
       \/ route.pool = << >> /\ route.env = NoCredential /\ out.auth = caller.credential
    /\ out.xkey \in {out.auth, NoCredential}

\* Claude requests: whatever is saved while a body is read or a token fetched,
\* a request reaches the upstream with a key configured for that upstream, in
\* its protocol, under its identity, without the tool references it is known to
\* refuse, and with the model the log will name.
ClaudeRequestsSuitTheirUpstream ==
    [][\A r \in Ask :
          (asks'[r].stage = "sent" /\ asks[r].stage # "sent") =>
              LET out == asks'[r].out
                  caller == asks'[r].caller
              IN  /\ \/ /\ out.auth \in connected
                        /\ out.host = Provider[out.auth].host
                        /\ out.xkey = NoCredential
                     \/ \E settings \in SettingsIn(generation) :
                            SuitsRoute(out, caller, settings.route)
                  /\ out.host \in StrippingHosts => ~out.references
                  /\ out.model = asks'[r].logged
      ]_routingVars

\* Claude requests: thinking the client asked for reaches the upstream in a form
\* the target takes, within max_tokens, or the request is refused: it is never
\* dropped on the way.
ThinkingFitsTheModel ==
    \A r \in Ask :
        asks[r].stage = "sent" =>
            LET out == asks[r].out
                asked == asks[r].body
                wanted == asked.readable /\ asked.thinking.type \in {"enabled", "adaptive"}
                adapted == out.thinking # asked.thinking
                takes == CLAUDE_THINKING_CAPABILITIES[out.model]
            IN  /\ wanted /\ out.shape \in {"responses", "chat"} =>
                       out.reasoning \in {"low", "medium", "high", "xhigh"}
                                          \cup ({asked.effort} \ {NoEffort, "max"})
                /\ wanted => out.thinking.type \in {"enabled", "adaptive"}
                /\ adapted =>
                       /\ out.thinking.type \in takes.modes
                       /\ out.effort # NoEffort => out.effort \in takes.efforts
                       /\ IF out.thinking.type = "enabled"
                          THEN /\ out.thinking.budget >= CLAUDE_MIN_THINKING_BUDGET
                               /\ out.thinking.budget < out.maxTokens
                          ELSE out.thinking.budget = NoBudget /\ out.effort # NoEffort
=============================================================================
