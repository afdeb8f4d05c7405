------------------------------ MODULE MCGateway ------------------------------
(* An instance of Gateway for TLC, part by part.                              *)
EXTENDS Gateway

-----------------------------------------------------------------------------
(* Claude key pool: one profile with a direct and a stored key.  An edit may  *)
(* replace the direct key, spread the load, opt out of pinning, or take the   *)
(* direct key away.                                                           *)
KeyedRoute ==
    [oauth |-> FALSE, cred |-> "c1", priority |-> 0, spread |-> FALSE, optOut |-> FALSE,
     reserve |-> 1, keys |-> << StoredKey("k2", "d1", TRUE, 0) >>]
MCClaudeRoute ==
    {KeyedRoute, [KeyedRoute EXCEPT !.cred = "c2", !.spread = TRUE],
     [KeyedRoute EXCEPT !.optOut = TRUE, !.reserve = 0], [KeyedRoute EXCEPT !.cred = NoKey]}

-----------------------------------------------------------------------------
(* State recovery: a history with everything, one whose items no upstream     *)
(* accepts, and one whose upstream is strict for compactions only.            *)
AllStates == {"reasoning", "compaction", "previous"}
Asking(body, strict, agentrouter) ==
    [inSession |-> TRUE, body |-> body, enabled |-> TRUE, strict |-> strict, agentrouter |-> agentrouter]
WholeHistory ==
    Body(<< Message(TRUE), Reasoning("valid", TRUE), Call("c", TRUE), Output("c") >>,
         FALSE, TRUE, "client", FALSE)
TornHistory ==
    Body(<< Reasoning("malformed", TRUE), Compaction("readable", TRUE), Output("gone"), Message(FALSE) >>,
         FALSE, FALSE, "none", FALSE)
OpaqueCompaction == Body(<< Compaction("opaque", FALSE), Message(FALSE) >>, FALSE, FALSE, "none", FALSE)
MCSituation ==
    {Asking(WholeHistory, AllStates, FALSE), Asking(TornHistory, AllStates, TRUE),
     Asking(OpaqueCompaction, {"compaction"}, FALSE)}

-----------------------------------------------------------------------------
(* Compaction bridge: the compact route with and without a model of its own,  *)
(* over each protocol, and no compact route.                                  *)
Bridging(split, custom, compact, primary, upstream) ==
    [split |-> split, custom |-> custom, compactProtocol |-> compact,
     primaryProtocol |-> primary, compactUpstream |-> upstream, primaryUpstream |-> "primary"]
MCBridgeConfig ==
    {Bridging(TRUE, TRUE, "responses", "responses", "compact"),
     Bridging(TRUE, FALSE, "responses", "chat", "other"),
     Bridging(FALSE, FALSE, "responses", "responses", "compact"),
     Bridging(TRUE, FALSE, "anthropic", "responses", "compact")}

-----------------------------------------------------------------------------
(* Claude routing: four profiles over three protocols and three saves.        *)
RouteTo(host, protocol, pool, env, account, own) ==
    [host |-> host, protocol |-> protocol, pool |-> pool, env |-> env, account |-> account,
     ownAgent |-> own]
Saved(route, scenes, roles, long) ==
    [route |-> route, scenes |-> scenes, roles |-> roles, longContext |-> long]
Anthropic == RouteTo("anthropic", "messages", [direct |-> "k1", spare |-> "k2"], "", "", "")
Relay     == RouteTo("relay", "messages", [direct |-> "k3"], "", "", "own")
Mimo      == RouteTo("mimo", "chat", << >>, "", "", "")
OpenAI    == RouteTo("relay", "responses", [direct |-> "k4"], "", "", "")
FromEnv   == RouteTo("anthropic", "messages", << >>, "envkey", "", "")
ByAccount == RouteTo("codexhost", "responses", << >>, "", "acct", "")

NoScenes ==
    [s \in {"long_context", "background", "web_search", "thinking", "image", "default"} |->
        [profile |-> "", model |-> ""]]
SomeScenes ==
    [NoScenes EXCEPT !["background"].profile = "relay", !["background"].model = "claude-opus-5",
                     !["thinking"].model = "claude-opus-4-5", !["image"].profile = "mimo",
                     !["long_context"].profile = "codex"]
NoRoles == [s \in {"subagent", "reasoning", "haiku", "sonnet", "opus", "default"} |-> ""]
Downwards == [NoRoles EXCEPT !["opus"] = "claude-haiku-4-5", !["default"] = "vendor",
                             !["haiku"] = "claude-opus-5"]
Upwards == [NoRoles EXCEPT !["reasoning"] = "claude-opus-4-6", !["sonnet"] = "claude-opus-4-5",
                           !["opus"] = "claude-opus-4-5"]
SavedProfiles ==
    [home |-> Saved(Anthropic, SomeScenes, NoRoles, 0), relay |-> Saved(Relay, NoScenes, Downwards, 0),
     mimo |-> Saved(Mimo, NoScenes, NoRoles, 0), codex |-> Saved(ByAccount, NoScenes, Upwards, 0)]
MCGeneration ==
    {[live |-> Saved(Anthropic, SomeScenes, NoRoles, 10), active |-> "home", profiles |-> SavedProfiles],
     [live |-> Saved(Anthropic, NoScenes, Downwards, 0), active |-> "home", profiles |-> SavedProfiles],
     [live |-> Saved(FromEnv, NoScenes, Upwards, 0), active |-> "",
      profiles |-> [relay |-> Saved(OpenAI, NoScenes, Upwards, 0)]]}

MCWords ==
    [m \in {"claude-haiku-4-5", "claude-opus-4-5", "claude-opus-4-6", "claude-opus-5",
            "reasoning-sonnet", "best", "vendor"} |->
        CASE m = "claude-haiku-4-5" -> {"haiku"} [] m = "claude-opus-4-5" -> {"opus"}
          [] m = "claude-opus-4-6" -> {"opus"}   [] m = "claude-opus-5" -> {"opus"}
          [] m = "reasoning-sonnet" -> {"reasoning", "sonnet"} [] m = "best" -> {"best"}
          [] OTHER -> {}]

\* The bodies: budgets on both sides of the minimum and of max_tokens, models of
\* each thinking type and effort range, and each scene's signal by itself.
Thinking(type, budget) == [type |-> type, budget |-> budget]
PlainBody ==
    [endpoint |-> "messages", readable |-> TRUE, model |-> "claude-haiku-4-5", bytes |-> 1,
     search |-> FALSE, thinking |-> Thinking("none", 0), output |-> "absent", effort |-> "",
     maxTokens |-> 4000, image |-> FALSE, references |-> FALSE]
Budgeted ==
    {[PlainBody EXCEPT !.model = m, !.thinking = Thinking("enabled", b), !.maxTokens = x] :
        m \in {"claude-opus-4-5", "claude-haiku-4-5"}, b \in {1023, 1024, 3000, 9000},
        x \in {0, 1025, 4000, 6000}}
Adaptive ==
    {[PlainBody EXCEPT !.model = m, !.thinking = Thinking("adaptive", b), !.maxTokens = x,
                       !.effort = e, !.output = IF e = "" THEN "absent" ELSE "object"] :
        m \in {"claude-opus-5", "claude-opus-4-6"}, b \in {0, 2000},
        x \in {1024, 1025, 1026, 2000, 40000}, e \in {"", "minimal", "low", "high", "xhigh", "max"}}
MCAskedBody ==
    Budgeted \cup Adaptive
    \cup {[PlainBody EXCEPT !.model = m] : m \in {"best", "vendor", "", "reasoning-sonnet"}}
    \cup {[PlainBody EXCEPT !.endpoint = e, !.references = x] :
            e \in {"messages", "count_tokens"}, x \in BOOLEAN}
    \cup {[PlainBody EXCEPT !.endpoint = e] : e \in {"models", "openai"}}
    \cup {[PlainBody EXCEPT !.readable = FALSE], [PlainBody EXCEPT !.search = TRUE, !.model = "vendor"],
          [PlainBody EXCEPT !.image = TRUE, !.model = "vendor"], [PlainBody EXCEPT !.bytes = 20],
          [PlainBody EXCEPT !.thinking = Thinking("disabled", 0), !.model = "best"],
          [PlainBody EXCEPT !.output = "malformed", !.thinking = Thinking("adaptive", 0),
                            !.model = "claude-opus-5"]}

CallerWith(profile, loopback, agent, credential) ==
    [profile |-> profile, loopback |-> loopback, agent |-> agent, credential |-> credential]
MCCaller ==
    {CallerWith("", FALSE, "claude", ""), CallerWith("", TRUE, "other", "mine"),
     CallerWith("relay", TRUE, "codex", "mine"), CallerWith("relay", FALSE, "claude", "")}
MCProvider == [acct |-> [host |-> "codexhost", protocol |-> "responses"]]
MCAgentFor == [claude |-> "", codex |-> "codex-typed"]
-----------------------------------------------------------------------------
(* Codex routing: pools, an account and no key at all, over three protocols;  *)
(* a compact route of its own with and without a key, or none; schedulers on  *)
(* and off.                                                                   *)
CodexRoute(host, protocol, pool, account, model, effort) ==
    [host |-> host, protocol |-> protocol, pool |-> pool, env |-> "", account |-> account,
     ownAgent |-> "", model |-> model, effort |-> effort]
Router  == CodexRoute("router", "responses", [direct |-> "k1", spare |-> "k2"], "", "", "high")
Other   == CodexRoute("other", "messages", [direct |-> "k3", spare |-> "k4"], "", "forced", "")
Chatty  == CodexRoute("chatty", "chat", << >>, "", "", "")
Account == CodexRoute("codexhost", "responses", << >>, "acct", "", "")
Keyless == CodexRoute("split", "responses", << >>, "", "", "")
Keyed   == CodexRoute("split", "messages", [direct |-> "k5"], "", "", "")
Following == [split |-> FALSE, route |-> Keyless, model |-> ""]
Apart(route, model) == [split |-> TRUE, route |-> route, model |-> model]
CodexProfiles(a, b) ==
    [pa |-> [primary |-> a, compact |-> Following], pb |-> [primary |-> b, compact |-> Following]]
MCCodexGeneration ==
    {[primary |-> Router, compact |-> Following, auto |-> TRUE, active |-> "pa",
      profiles |-> CodexProfiles(Router, Other)],
     [primary |-> Account, compact |-> Apart(Keyless, "small"), auto |-> TRUE, active |-> "pb",
      profiles |-> CodexProfiles(Chatty, Account)],
     [primary |-> Chatty, compact |-> Following, auto |-> FALSE, active |-> "pa",
      profiles |-> CodexProfiles(Chatty, Account)],
     [primary |-> Chatty, compact |-> Apart(Keyed, ""), auto |-> FALSE, active |-> "",
      profiles |-> [pb |-> [primary |-> Keyless, compact |-> Apart(Account, "")]]]}

PlainTurn ==
    [path |-> "responses", readable |-> TRUE, model |-> "m", trigger |-> FALSE,
     body |-> "unavailable", header |-> "unavailable", v2 |-> FALSE, state |-> NoState,
     effort |-> "", untold |-> {}, encoded |-> TRUE, ids |-> FALSE, ours |-> FALSE]
MCCodexBody ==
    {PlainTurn, [PlainTurn EXCEPT !.encoded = FALSE, !.ids = TRUE],
     [PlainTurn EXCEPT !.effort = "high", !.ids = TRUE],
     [PlainTurn EXCEPT !.model = "forced", !.effort = "high"],
     [PlainTurn EXCEPT !.readable = FALSE, !.model = ""], [PlainTurn EXCEPT !.model = ""],
     [PlainTurn EXCEPT !.untold = {"messages", "chat"}],
     [PlainTurn EXCEPT !.trigger = TRUE], [PlainTurn EXCEPT !.header = "remote_v2"],
     [PlainTurn EXCEPT !.body = "local"],
     [PlainTurn EXCEPT !.body = "other", !.header = "local"]}
    \cup {[PlainTurn EXCEPT !.path = p] : p \in {"compact", "chat", "messages"}}
    \cup {[PlainTurn EXCEPT !.path = "models", !.readable = FALSE, !.model = ""],
          [PlainTurn EXCEPT !.path = "compact", !.readable = FALSE, !.model = ""],
          [PlainTurn EXCEPT !.path = "compact", !.ids = TRUE, !.untold = {"messages"}]}
    \cup {[PlainTurn EXCEPT !.state = s, !.v2 = v] :
            s \in {"known", "missing", "foreign"}, v \in BOOLEAN}
MCCodexCaller ==
    {CallerWith("", FALSE, "codex", "mine"), CallerWith("", TRUE, "other", ""),
     CallerWith("pb", TRUE, "codex", "mine"), CallerWith("pb", FALSE, "codex", "mine")}
MCCompactName == [m \in {"m", "forced"} |-> m]
=============================================================================
