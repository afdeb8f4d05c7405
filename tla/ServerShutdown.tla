--------------------------- MODULE ServerShutdown ---------------------------
(***************************************************************************)
(* Stopping the server (src/server/http.ts, main.ts).  What must be on     *)
(* disk is written by parts that finish at different times: a request goes *)
(* on writing its log row and its capture after its response has ended,    *)
(* the capture directory is pruned in the background and tells the log,    *)
(* and the identity store writes its own file.  The database closes last.  *)
(***************************************************************************)
EXTENDS Naturals, FiniteSets

CONSTANTS
  Client,               \* connections to this server
  Served,               \* requests that arrive on them
  MaxIdentityChanges    \* bound: identity writes

VARIABLES
  phase,        \* how far the shutdown has come
  connections,  \* [Client -> "open" | "closed"]
  inbound,      \* [Served -> [client, state]]
  prune,        \* the capture prune: "none", "running", and "again"
  identitySave, \* "none" | "queued" | "writing"
  subscribed,   \* the studio listens for identity changes
  identityClosed, database, exit, identityChanges
shutdownVars == <<phase, connections, inbound, prune, identitySave, subscribed,
                  identityClosed, database, exit, identityChanges>>

Nobody == "nobody"
Unsettled == {r \in Served : inbound[r].state \in {"serving", "responded", "logged"}}
StillUp == exit = "none"

-----------------------------------------------------------------------------
(* Requests.  Only an open connection brings one, and only one at a time. *)

Accepts(r, c) ==
  /\ StillUp
  /\ inbound[r].state = "none" /\ connections[c] = "open"
  /\ \A other \in Served : inbound[other] # [client |-> c, state |-> "serving"]
  /\ inbound' = [inbound EXCEPT ![r] = [client |-> c, state |-> "serving"]]
  /\ UNCHANGED <<phase, connections, prune, identitySave, subscribed,
                 identityClosed, database, exit, identityChanges>>

\* The response ends, or its connection is gone: either way finalization follows.
ResponseIsOver(r) ==
  /\ StillUp
  /\ inbound[r].state = "serving"
  /\ inbound' = [inbound EXCEPT ![r].state = "responded"]
  /\ UNCHANGED <<phase, connections, prune, identitySave, subscribed,
                 identityClosed, database, exit, identityChanges>>

\* The row is inserted with its capture pending.  An insert that fails is
\* reported and finalization goes on.
LogsRow(r) ==
  /\ StillUp /\ database = "open"
  /\ inbound[r].state = "responded"
  /\ inbound' = [inbound EXCEPT ![r].state = "logged"]
  /\ UNCHANGED <<phase, connections, prune, identitySave, subscribed,
                 identityClosed, database, exit, identityChanges>>

\* The capture is on disk, or its write failed, which is swallowed; a prune is
\* asked for, the row says so, and the promise the server keeps of this request
\* settles.
RequestedPrune == IF prune = "none" THEN "running" ELSE "again"
PersistsCapture(r) ==
  /\ StillUp /\ database = "open"
  /\ inbound[r].state = "logged"
  /\ inbound' = [inbound EXCEPT ![r].state = "settled"]
  /\ prune' = RequestedPrune
  /\ UNCHANGED <<phase, connections, identitySave, subscribed,
                 identityClosed, database, exit, identityChanges>>

\* Finalization throws, around the row or when it reads the row again after the
\* capture.  Before the drain the promise is only taken off the set: the request is
\* dropped.  A drain that awaits it is rejected with it.
FinalizationFails(r) ==
  /\ StillUp
  /\ inbound[r].state \in {"responded", "logged"}
  /\ inbound' = [inbound EXCEPT ![r].state =
                   IF phase \in {"running", "closing"} THEN "dropped" ELSE "rejected"]
  /\ phase' = IF phase = "draining" THEN "failed" ELSE phase
  /\ prune' = IF inbound[r].state = "logged" THEN RequestedPrune ELSE prune
  /\ UNCHANGED <<connections, identitySave, subscribed,
                 identityClosed, database, exit, identityChanges>>

\* A finished prune marks the rows of what it deleted, and starts over if one
\* was asked for meanwhile.
PruneFinishes ==
  /\ StillUp /\ database = "open"
  /\ prune # "none"
  /\ prune' = IF prune = "again" THEN "running" ELSE "none"
  /\ UNCHANGED <<phase, connections, inbound, identitySave, subscribed,
                 identityClosed, database, exit, identityChanges>>

ClientLeaves(c) ==
  /\ StillUp /\ connections[c] = "open"
  /\ connections' = [connections EXCEPT ![c] = "closed"]
  /\ UNCHANGED <<phase, inbound, prune, identitySave, subscribed,
                 identityClosed, database, exit, identityChanges>>

-----------------------------------------------------------------------------
(* The identity store beside it (ClientIdentity models it). *)

IdentityChanges ==
  /\ StillUp /\ ~identityClosed
  /\ identitySave = "none" /\ identityChanges < MaxIdentityChanges
  /\ identitySave' = "queued"
  /\ identityChanges' = identityChanges + 1
  /\ UNCHANGED <<phase, connections, inbound, prune, subscribed,
                 identityClosed, database, exit>>

\* A closed store drops what it had queued, and finishes what it was writing.
IdentityWriteStarts ==
  /\ StillUp /\ identitySave = "queued"
  /\ identitySave' = IF identityClosed THEN "none" ELSE "writing"
  /\ UNCHANGED <<phase, connections, inbound, prune, subscribed,
                 identityClosed, database, exit, identityChanges>>

\* The listener of a change reads the log for its snapshot.
IdentityWritten ==
  /\ StillUp /\ identitySave = "writing"
  /\ subscribed /\ ~identityClosed => database = "open"
  /\ identitySave' = "none"
  /\ UNCHANGED <<phase, connections, inbound, prune, subscribed,
                 identityClosed, database, exit, identityChanges>>

-----------------------------------------------------------------------------
(* shutdown(): no new connections, idle ones are closed, and what is left gets
   a grace period.  A connection that was busy may bring another request in it. *)

Busy(c) == \E r \in Served : inbound[r] = [client |-> c, state |-> "serving"]
Shutdown ==
  /\ StillUp /\ phase = "running"
  /\ phase' = "closing"
  /\ connections' = [c \in Client |-> IF Busy(c) THEN connections[c] ELSE "closed"]
  /\ UNCHANGED <<inbound, prune, identitySave, subscribed,
                 identityClosed, database, exit, identityChanges>>

GraceEnds ==
  /\ StillUp /\ phase = "closing"
  /\ connections' = [c \in Client |-> "closed"]
  /\ UNCHANGED <<phase, inbound, prune, identitySave, subscribed,
                 identityClosed, database, exit, identityChanges>>

\* drainResources, up to its first await.
Drains ==
  /\ StillUp /\ phase = "closing"
  /\ \A c \in Client : connections[c] = "closed"
  /\ phase' = "draining"
  /\ subscribed' = FALSE /\ identityClosed' = TRUE
  /\ UNCHANGED <<connections, inbound, prune, identitySave, database, exit,
                 identityChanges>>

\* Variant: the end of HTTP is the end of the requests.
HttpIsOver == TRUE

\* HTTP completion is earlier than a request's finally.
RequestsHaveSettled == Unsettled = {}
AllSettle ==
  /\ StillUp /\ phase = "draining" /\ RequestsHaveSettled
  /\ phase' = "flushing"
  /\ UNCHANGED <<connections, inbound, prune, identitySave, subscribed,
                 identityClosed, database, exit, identityChanges>>

CapturesHaveFlushed == prune = "none"
CapturesFlush ==
  /\ StillUp /\ phase = "flushing" /\ CapturesHaveFlushed
  /\ phase' = "saving"
  /\ UNCHANGED <<connections, inbound, prune, identitySave, subscribed,
                 identityClosed, database, exit, identityChanges>>

IdentityHasFlushed == identitySave = "none"
ClosesDatabase ==
  /\ StillUp /\ phase = "saving" /\ IdentityHasFlushed
  /\ phase' = "closed" /\ database' = "closed"
  /\ UNCHANGED <<connections, inbound, prune, identitySave, subscribed,
                 identityClosed, exit, identityChanges>>

\* Exit 0 tells the supervisor not to come back; a second signal, a failed drain
\* or ten seconds without an end exit 1.
ExitsCleanly ==
  /\ StillUp /\ phase = "closed"
  /\ exit' = "clean"
  /\ UNCHANGED <<phase, connections, inbound, prune, identitySave, subscribed,
                 identityClosed, database, identityChanges>>
ExitsFailed ==
  /\ StillUp /\ phase # "running"
  /\ exit' = "failed"
  /\ UNCHANGED <<phase, connections, inbound, prune, identitySave, subscribed,
                 identityClosed, database, identityChanges>>

-----------------------------------------------------------------------------
ShutdownInit ==
  /\ phase = "running" /\ database = "open" /\ exit = "none"
  /\ connections = [c \in Client |-> "open"]
  /\ inbound = [r \in Served |-> [client |-> Nobody, state |-> "none"]]
  /\ prune = "none" /\ identitySave = "none" /\ identityChanges = 0
  /\ subscribed = TRUE /\ identityClosed = FALSE

ShutdownNext ==
  \/ \E r \in Served :
       \/ \E c \in Client : Accepts(r, c)
       \/ ResponseIsOver(r) \/ LogsRow(r) \/ PersistsCapture(r)
       \/ FinalizationFails(r)
  \/ \E c \in Client : ClientLeaves(c)
  \/ PruneFinishes
  \/ IdentityChanges \/ IdentityWriteStarts \/ IdentityWritten
  \/ Shutdown \/ GraceEnds \/ Drains \/ AllSettle
  \/ CapturesFlush \/ ClosesDatabase \/ ExitsCleanly \/ ExitsFailed

ShutdownSpec == ShutdownInit /\ [][ShutdownNext]_shutdownVars

-----------------------------------------------------------------------------
\* Nothing that writes the log outlives the database, and exit code 0 means that
\* the server has waited for every request it accepted and for every file: a
\* request has gone through its row and its capture, or its finalization threw
\* before the drain began, which only takes it off the set of those awaited
\* (http.ts:210).  One that throws while the drain waits costs the exit code
\* (http.ts drainResources, "HTTP completion is earlier than proxy
\* finally/capture persistence"; main.ts on what the exit code promises).
CleanExitAwaitsRequests ==
  /\ database = "closed" =>
       Unsettled = {} /\ prune = "none" /\ identitySave # "writing"
  /\ exit = "clean" =>
       /\ database = "closed" /\ identitySave = "none"
       /\ \A r \in Served : inbound[r].state \in {"none", "settled", "dropped"}
=============================================================================
