------------------------------ MODULE Gateway ------------------------------
(***************************************************************************)
(* The parts of a running server that decide a request's route, its state  *)
(* and its connection, each with its own.  They meet in one process and    *)
(* share no variable, so a step of one neither enables nor disables a step *)
(* of another, and no property relates two of them: every behaviour of one *)
(* part is explored while the others stay as the server starts them, which *)
(* leaves out nothing but reorderings of independent steps.                *)
(***************************************************************************)
EXTENDS ClaudeKeyPool, StateRecovery, CompactionBridge, ProxyAgents,
        ServerShutdown, ClaudeRouting, CodexRouting

VARIABLE part   \* the part that runs

gatewayVars == << part, keyVars, recoveryVars, bridgeVars, agentVars, shutdownVars,
                  routingVars, codexVars >>

\* What a part starts from varies only for the one that runs.
GatewayInit ==
    /\ part \in {"keys", "recovery", "bridge", "agents", "shutdown", "routing", "codex"}
    /\ KeysInit /\ AgentsInit /\ ShutdownInit
    /\ RecoveryInit /\ (part # "recovery" => evidence = << >>)
    /\ BridgeInit /\ (part # "bridge" => bridgeConfig = CHOOSE c \in BridgeConfig : TRUE)
    /\ RoutingInit
    /\ part # "routing" => generation = CHOOSE g \in Generation : Valid(g)
    /\ CodexInit /\ (part # "codex" => inForce = CHOOSE g \in CodexGeneration : TRUE)

GatewayNext ==
    \/ /\ part = "keys" /\ KeysNext
       /\ UNCHANGED << part, recoveryVars, bridgeVars, agentVars, shutdownVars, routingVars, codexVars >>
    \/ /\ part = "recovery" /\ RecoveryNext
       /\ UNCHANGED << part, keyVars, bridgeVars, agentVars, shutdownVars, routingVars, codexVars >>
    \/ /\ part = "bridge" /\ BridgeNext
       /\ UNCHANGED << part, keyVars, recoveryVars, agentVars, shutdownVars, routingVars, codexVars >>
    \/ /\ part = "agents" /\ AgentsNext
       /\ UNCHANGED << part, keyVars, recoveryVars, bridgeVars, shutdownVars, routingVars, codexVars >>
    \/ /\ part = "shutdown" /\ ShutdownNext
       /\ UNCHANGED << part, keyVars, recoveryVars, bridgeVars, agentVars, routingVars, codexVars >>
    \/ /\ part = "routing" /\ RoutingNext
       /\ UNCHANGED << part, keyVars, recoveryVars, bridgeVars, agentVars, shutdownVars, codexVars >>
    \/ /\ part = "codex" /\ CodexNext
       /\ UNCHANGED << part, keyVars, recoveryVars, bridgeVars, agentVars, shutdownVars,
                       routingVars >>

GatewaySpec == GatewayInit /\ [][GatewayNext]_gatewayVars

--------------------------------------------------------------------------
\* Whatever is saved while it is prepared, a request leaves the server with what
\* its upstream is configured with, in the form that upstream takes.
RequestsSuitTheirUpstream ==
    ClaudeRequestsSuitTheirUpstream /\ CodexRequestsSuitTheirUpstream
=============================================================================
