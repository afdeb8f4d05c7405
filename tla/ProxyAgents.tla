----------------------------- MODULE ProxyAgents -----------------------------
(***************************************************************************)
(* Connections to HTTPS upstreams through an HTTP CONNECT proxy            *)
(* (src/server/upstream-proxy-agent.ts).  One agent per proxy is cached    *)
(* for the whole process and shared by every server in it; an agent pushed *)
(* out of the cache, or left by the last server, is retired: what is in    *)
(* flight finishes, everything idle goes.  Node's own agent (the free list *)
(* of a target, which listener of "free" runs first) is external.          *)
(***************************************************************************)
EXTENDS Naturals, Sequences, SequencesExt, FiniteSets

CONSTANTS
  Proxy,                \* proxies the routes and the environment name
  Target,               \* upstream hosts behind them
  Server,               \* CompactGate servers of the process
  Exchange,             \* requests to an upstream
  Connection,           \* sockets
  NoneOf,               \* no agent, no socket
  MaxCachedAgents, MaxIdlePerTarget, MaxIdlePerAgent, MaxDraining,
  MaxAgents             \* bound: agents created

ASSUME AgentsAssumption ==
  MaxCachedAgents \in Nat \ {0} /\ MaxIdlePerAgent \in Nat \ {0} /\ MaxAgents \in Nat

VARIABLES agents, cached, sockets, exchanges, owners, released
agentVars == <<agents, cached, sockets, exchanges, owners, released>>

\* cached holds the numbers of agents in insertion order; idleTimers are kept in
\* the order they were set.
AgentIds == DOMAIN agents
NewAgent(proxy) ==
  [proxy |-> proxy, retired |-> FALSE, idleTimers |-> <<>>, draining |-> {}]

FreeSockets(id, target) ==
  {c \in Connection : sockets[c] = [at |-> "free", agent |-> id, target |-> target]}
IdleSockets(id) == UNION {FreeSockets(id, target) : target \in Target}
Unused == [at |-> "none", agent |-> NoneOf, target |-> NoneOf]

clearIdleTimer(agent, c) ==
  [agent EXCEPT !.idleTimers = RemoveFirst(@, c)]

Destroyed(closing) ==
  [c \in Connection |-> IF c \in closing THEN Unused ELSE sockets[c]]

\* retire(): the tails are cancelled, which destroys their sockets, and so are
\* the idle sockets; a busy socket stays with its request.
Retired(agent) == [agent EXCEPT !.retired = TRUE, !.idleTimers = <<>>, !.draining = {}]
ClosedByRetiring(id) ==
  ToSet(agents[id].idleTimers)
    \cup {exchanges[x].socket : x \in agents[id].draining}
EndedByRetiring(id) == agents[id].draining

Retires(ids, agentsThen, exchangesThen) ==
  /\ agents' = [id \in DOMAIN agentsThen |->
       IF id \in ids THEN Retired(agentsThen[id]) ELSE agentsThen[id]]
  /\ exchanges' = [x \in Exchange |->
       IF \E id \in ids : x \in EndedByRetiring(id)
       THEN [exchangesThen[x] EXCEPT !.state = "done"] ELSE exchangesThen[x]]

-----------------------------------------------------------------------------
(* Servers of the process. *)

retainUpstreamProxyAgents(s) ==
  /\ s \notin owners \cup released
  /\ owners' = owners \cup {s}
  /\ UNCHANGED <<agents, cached, sockets, exchanges, released>>

\* A server releases once its requests have settled (http.ts); a tail that is
\* drained afterwards belongs to a settled request.
Settled(s) ==
  \A x \in Exchange :
    exchanges[x].server = s => exchanges[x].state \in {"draining", "ended", "done"}
ReleasesAgents(s) ==
  /\ s \in owners
  /\ Settled(s)
  /\ owners' = owners \ {s}
  /\ released' = released \cup {s}
  /\ IF owners' # {} THEN UNCHANGED <<agents, cached, sockets, exchanges>>
     ELSE /\ Retires(ToSet(cached), agents, exchanges)
          /\ sockets' = Destroyed(UNION {ClosedByRetiring(id) : id \in ToSet(cached)})
          /\ cached' = <<>>

-----------------------------------------------------------------------------
(* A request takes the agent of its proxy, and an idle socket or a new one. *)

CachedFor(proxy) == {id \in ToSet(cached) : agents[id].proxy = proxy}
Begun(s, id, target, state, socket) ==
  [server |-> s, agent |-> id, target |-> target, state |-> state, socket |-> socket]

ReusesSocket(x, s) ==
  \E proxy \in Proxy, target \in Target :
    \E id \in CachedFor(proxy) :
      \E c \in FreeSockets(id, target) :
        /\ agents' = [agents EXCEPT ![id] = clearIdleTimer(@, c)]
        /\ sockets' = [sockets EXCEPT ![c].at = "busy"]
        /\ exchanges' = [exchanges EXCEPT ![x] = Begun(s, id, target, "open", c)]
        /\ UNCHANGED cached

ConnectsAnew(x, s) ==
  \E proxy \in Proxy, target \in Target :
    \E id \in CachedFor(proxy) :
      /\ FreeSockets(id, target) = {}
      /\ exchanges' = [exchanges EXCEPT ![x] = Begun(s, id, target, "connecting", NoneOf)]
      /\ UNCHANGED <<agents, cached, sockets>>

\* No agent for the proxy yet: one is made, and a full cache retires its oldest.
EvictedBy(list) == IF Len(list) >= MaxCachedAgents THEN {Head(list)} ELSE {}
MakesAgent(x, s) ==
  \E proxy \in Proxy, target \in Target :
    LET id      == CHOOSE n \in 1..MaxAgents : n \notin AgentIds
        evicted == EvictedBy(cached)
    IN /\ CachedFor(proxy) = {}
       /\ AgentIds # 1..MaxAgents
       /\ cached' = Append(IF evicted = {} THEN cached ELSE Tail(cached), id)
       /\ Retires(evicted,
            [n \in AgentIds \cup {id} |-> IF n = id THEN NewAgent(proxy) ELSE agents[n]],
            [exchanges EXCEPT ![x] = Begun(s, id, target, "connecting", NoneOf)])
       /\ sockets' = Destroyed(UNION {ClosedByRetiring(old) : old \in evicted})

resolveUpstreamAgent(x) ==
  /\ exchanges[x].state = "idle"
  /\ \E s \in owners : ReusesSocket(x, s) \/ ConnectsAnew(x, s) \/ MakesAgent(x, s)
  /\ UNCHANGED <<owners, released>>

\* CONNECT and the TLS handshake: success, or refusal, a header too large, a
\* timeout or an abort, after which nothing of the attempt is left.
ConnectSucceeds(x) ==
  /\ exchanges[x].state = "connecting"
  /\ \E c \in Connection :
       /\ sockets[c] = Unused
       /\ sockets' = [sockets EXCEPT ![c] =
            [at |-> "busy", agent |-> exchanges[x].agent, target |-> exchanges[x].target]]
       /\ exchanges' = [exchanges EXCEPT ![x].state = "open", ![x].socket = c]
  /\ UNCHANGED <<agents, cached, owners, released>>

ConnectFails(x) ==
  /\ exchanges[x].state = "connecting"
  /\ exchanges' = [exchanges EXCEPT ![x].state = "done"]
  /\ UNCHANGED <<agents, cached, sockets, owners, released>>

-----------------------------------------------------------------------------
(* The end of a response. *)

ResponseEnds(x) ==
  /\ exchanges[x].state = "open"
  /\ exchanges' = [exchanges EXCEPT ![x].state = "ended"]
  /\ UNCHANGED <<agents, cached, sockets, owners, released>>

RequestDestroyed(x) ==
  /\ exchanges[x].state = "open"
  /\ exchanges' = [exchanges EXCEPT ![x].state = "done"]
  /\ sockets' = Destroyed({exchanges[x].socket})
  /\ UNCHANGED <<agents, cached, owners, released>>

\* Variant: a retired agent drains like any other.
HasRoomToDrain(agent) == Cardinality(agent.draining) < MaxDraining

\* The client left after the terminal event: the tail is read to its end to keep
\* the socket, unless the agent is retired or reads too many of them already.
MayDrain(agent) == ~agent.retired /\ Cardinality(agent.draining) < MaxDraining
drainResponse(x) ==
  /\ exchanges[x].state = "open"
  /\ MayDrain(agents[exchanges[x].agent])
  /\ agents' = [agents EXCEPT ![exchanges[x].agent].draining = @ \cup {x}]
  /\ exchanges' = [exchanges EXCEPT ![x].state = "draining"]
  /\ UNCHANGED <<cached, sockets, owners, released>>

\* finish(outcome): only a complete tail leaves the socket alive.
FinishesDrain(x) ==
  /\ exchanges[x].state = "draining"
  /\ agents' = [agents EXCEPT ![exchanges[x].agent].draining = @ \ {x}]
  /\ \/ /\ exchanges' = [exchanges EXCEPT ![x].state = "ended"]
        /\ UNCHANGED sockets
     \/ /\ exchanges' = [exchanges EXCEPT ![x].state = "done"]
        /\ sockets' = Destroyed({exchanges[x].socket})
  /\ UNCHANGED <<cached, owners, released>>

\* "free": Node keeps the socket only while the target has few idle ones; then
\* our listener closes it if the agent is retired, and otherwise times it,
\* closing the agent's oldest idle socket if it has many.
OldestIdle(agent) ==
  IF Len(agent.idleTimers) >= MaxIdlePerAgent THEN {Head(agent.idleTimers)} ELSE {}
ClosedOnFree(agent, id, target, c) ==
  IF Cardinality(FreeSockets(id, target)) >= MaxIdlePerTarget \/ agent.retired
  THEN {c} ELSE OldestIdle(agent)
SocketFreed(x) ==
  LET id      == exchanges[x].agent
      agent   == agents[id]
      c       == exchanges[x].socket
      closing == ClosedOnFree(agent, id, exchanges[x].target, c)
      kept    == IF closing = {} THEN agent.idleTimers ELSE Tail(agent.idleTimers)
  IN /\ exchanges[x].state = "ended"
     /\ exchanges' = [exchanges EXCEPT ![x].state = "done"]
     /\ sockets' = [Destroyed(closing) EXCEPT ![c] =
                      IF c \in closing THEN @ ELSE [sockets[c] EXCEPT !.at = "free"]]
     /\ agents' = [agents EXCEPT ![id].idleTimers =
                     IF c \in closing THEN @ ELSE Append(kept, c)]
     /\ UNCHANGED <<cached, owners, released>>

\* The idle timer fires.  It destroys the socket it was set for.
IdleTimerFires(id) ==
  \E c \in ToSet(agents[id].idleTimers) :
    /\ agents' = [agents EXCEPT ![id] = clearIdleTimer(@, c)]
    /\ sockets' = Destroyed({c})
    /\ exchanges' = [x \in Exchange |->
         IF exchanges[x].socket = c /\ exchanges[x].state \in {"open", "draining"}
         THEN [exchanges[x] EXCEPT !.state = "done"] ELSE exchanges[x]]
    /\ UNCHANGED <<cached, owners, released>>

\* The proxy closes an idle socket: its "close" clears the timer.
PeerCloses(c) ==
  /\ sockets[c].at = "free"
  /\ agents' = [agents EXCEPT ![sockets[c].agent] = clearIdleTimer(@, c)]
  /\ sockets' = Destroyed({c})
  /\ UNCHANGED <<cached, exchanges, owners, released>>

-----------------------------------------------------------------------------
AgentsInit ==
  /\ agents = <<>> /\ cached = <<>> /\ owners = {} /\ released = {}
  /\ sockets = [c \in Connection |-> Unused]
  /\ exchanges = [x \in Exchange |-> Begun(NoneOf, NoneOf, NoneOf, "idle", NoneOf)]

AgentsNext ==
  \/ \E s \in Server : retainUpstreamProxyAgents(s) \/ ReleasesAgents(s)
  \/ \E x \in Exchange :
       \/ resolveUpstreamAgent(x) \/ ConnectSucceeds(x) \/ ConnectFails(x)
       \/ ResponseEnds(x) \/ RequestDestroyed(x) \/ drainResponse(x)
       \/ FinishesDrain(x) \/ SocketFreed(x)
  \/ \E id \in AgentIds : IdleTimerFires(id)
  \/ \E c \in Connection : PeerCloses(c)

AgentsSpec == AgentsInit /\ [][AgentsNext]_agentVars

-----------------------------------------------------------------------------
\* No connection outlives its use: an idle socket is always one its agent has a
\* timer for and no more are kept than the limit, no timer can fire on a socket a
\* request is using, a retired agent holds neither idle sockets nor tails, and
\* without a server every agent is retired.
ConnectionsAreAccountedFor ==
  /\ \A id \in AgentIds :
       /\ ToSet(agents[id].idleTimers) = IdleSockets(id)
       /\ Cardinality(IdleSockets(id)) <= MaxIdlePerAgent
       /\ agents[id].retired => IdleSockets(id) = {} /\ agents[id].draining = {}
       /\ owners = {} => agents[id].retired
=============================================================================
