--------------------------- MODULE ClientIdentity ---------------------------
(***************************************************************************)
(* The identity CompactGate introduces itself with upstream                *)
(* (src/server/client-identity-store.ts, client-identity.ts).  Per client  *)
(* family two sources of a User-Agent compete: the one last seen from a    *)
(* real CLI, and a stored one carrying the version the npm registry        *)
(* reports.  An operator may type either.  Observations and refreshes run  *)
(* in the background and meet the operator's writes in one write queue;    *)
(* an observation is used before it is on disk.                            *)
(***************************************************************************)
EXTENDS Naturals, Sequences

CONSTANTS
  Kind,                 \* client families
  UserAgent,            \* User-Agent values; a version is not part of them here
  FactoryAgent, Blank,  \* the one shipped, the empty one
  PublishedRelease,              \* versions the registry reports
  Absent,               \* no version, no time, no date, a field a patch omits
  Automatic,            \* a patch that hands a source back to the background
  DayLength, RefreshRetry, RemoteTtl,   \* in ticks of the clock
  MaxTime, MaxWrites    \* bounds: clock, writes asked for

ASSUME ClockAssumption == DayLength \in Nat \ {0} /\ RefreshRetry \in Nat
\* What the file and a patch leave out is no value of theirs.
ASSUME AbsentAssumption ==
  /\ Absent # Automatic
  /\ \A agent \in UserAgent \cup {FactoryAgent} : <<agent, Absent>> # Absent

VARIABLES
  identity,    \* this.state: what requests are sent with
  committed,   \* this.committedState, equal to the file
  writes,      \* the write queue; the head is the one running
  writing,     \* what the head is writing, Absent before
  refreshes,   \* registry requests in flight
  wanted,      \* history: the value the operator last stored per source
  clock, storeClosed, asked
identityVars ==
  <<identity, committed, writes, writing, refreshes, wanted, clock, storeClosed, asked>>

Source == {"extracted", "version_tracked"}
Sourced(agent, manual, success, attempt, rewritten) ==
  [agent |-> agent, manual |-> manual, success |-> success, attempt |-> attempt,
   rewritten |-> rewritten]

\* rewritten counts the objects a source was replaced by: the refresh compares
\* identities, not values.
factoryKindState ==
  [extracted       |-> Sourced(Blank, FALSE, Absent, Absent, 0),
   version_tracked |-> Sourced(FactoryAgent, FALSE, Absent, Absent, 0),
   preferred |-> "extracted", release |-> Absent, releaseAt |-> Absent]
factoryState == [enabled |-> TRUE, of |-> [kind \in Kind |-> factoryKindState]]

today == clock \div DayLength
withSource(state, kind, source, next) ==
  [state EXCEPT !.of[kind][source] = [next EXCEPT !.rewritten = @ + 1]]

-----------------------------------------------------------------------------
(* What a request is sent with. *)

isRemoteVersionStale(kindState) ==
  kindState.release # Absent /\ clock - kindState.releaseAt > RemoteTtl

\* The version is applied when the agent is read, so an expired one stops being
\* applied, and the source steps aside.
userAgentForSource(kindState, source) ==
  CASE kindState[source].agent = Blank -> Absent
    [] kindState[source].agent # Blank /\
         (source = "extracted" \/ kindState[source].manual) ->
         <<kindState[source].agent, Absent>>
    [] kindState[source].agent # Blank /\
         ~(source = "extracted" \/ kindState[source].manual) ->
         IF isRemoteVersionStale(kindState) THEN Absent
         ELSE <<kindState[source].agent, kindState.release>>

Fallback(source) == IF source = "extracted" THEN "version_tracked" ELSE "extracted"
resolve(kindState) ==
  LET first  == userAgentForSource(kindState, kindState.preferred)
      second == userAgentForSource(kindState, Fallback(kindState.preferred))
      stored == kindState.version_tracked.agent
  IN IF first # Absent THEN first
     ELSE IF second # Absent THEN second
     ELSE IF stored # Blank THEN <<stored, Absent>> ELSE Absent

\* A CLI introduces itself; everyone else is introduced, if that is enabled.
userAgentFor(kind) == IF identity.enabled THEN resolve(identity.of[kind]) ELSE Absent

-----------------------------------------------------------------------------
(* The writes. *)

Enqueue(write) == writes' = Append(writes, write)
Persists(write) ==
  IF storeClosed THEN UNCHANGED writes ELSE Enqueue(write)

\* An observation is owed once a day, and never over a typed value.
AsObserved(source, agent, day, at) ==
  Sourced(agent, FALSE, day, at, source.rewritten)
OwesObservation(source, day) == ~source.manual /\ source.success # day

observeCliUserAgent(kind, agent) ==
  /\ Len(writes) < MaxWrites /\ asked < MaxWrites
  /\ OwesObservation(identity.of[kind].extracted, today)
  /\ identity' = withSource(identity, kind, "extracted",
                   AsObserved(identity.of[kind].extracted, agent, today, clock))
  /\ Persists([op |-> "observe", kind |-> kind, agent |-> agent,
               day |-> today, at |-> clock])
  /\ asked' = asked + 1
  /\ UNCHANGED <<committed, writing, refreshes, wanted, clock, storeClosed>>

applyManualPatch(state, kind, source, value) ==
  LET old == state.of[kind][source]
  IN CASE value = Absent -> state
       [] value = Automatic -> withSource(state, kind, source, [old EXCEPT !.manual = FALSE])
       [] value \notin {Absent, Automatic} ->
            withSource(state, kind, source,
              Sourced(value, TRUE, old.success, old.attempt, old.rewritten))

\* update(): the operator's patch waits its turn like every other write.
Patch == [enabled : {Absent, TRUE, FALSE}, preferred : Source \cup {Absent},
          extracted : UserAgent \cup {Absent, Automatic, Blank},
          version_tracked : UserAgent \cup {Absent, Automatic, Blank}]
\* One field at a time is enough to meet the background writes.
Touches(patch) == {field \in DOMAIN patch : patch[field] # Absent}
update(kind) ==
  /\ ~storeClosed /\ Len(writes) < MaxWrites /\ asked < MaxWrites
  /\ \E patch \in Patch :
       /\ \E field \in DOMAIN patch : Touches(patch) = {field}
       /\ Enqueue([op |-> "update", kind |-> kind, patch |-> patch])
  /\ asked' = asked + 1
  /\ UNCHANGED <<identity, committed, writing, refreshes, wanted, clock, storeClosed>>

isRefreshDue(source) ==
  /\ source.success # today
  /\ source.attempt # Absent => clock - source.attempt >= RefreshRetry

\* A refresh asks the registry on behalf of the source object it read.
refreshVersionTracked(kind, force) ==
  LET source == identity.of[kind].version_tracked
  IN /\ asked < MaxWrites
     /\ ~source.manual
     /\ force \/ (~storeClosed /\ isRefreshDue(source))
     /\ \A r \in refreshes : r.kind # kind \/ r.force # force
     /\ refreshes' = refreshes \cup
          {[kind |-> kind, source |-> source, at |-> clock, force |-> force]}
     /\ asked' = asked + 1
     /\ UNCHANGED <<identity, committed, writes, writing, wanted, clock, storeClosed>>

RegistryAnswers(r) ==
  /\ r \in refreshes
  /\ refreshes' = refreshes \ {r}
  /\ \E release \in PublishedRelease \cup {Absent} :
       Persists([op |-> "refresh", kind |-> r.kind, source |-> r.source,
                 at |-> r.at, day |-> today, release |-> release])
  /\ UNCHANGED <<identity, committed, writing, wanted, clock, storeClosed, asked>>

\* What the head of the queue makes of the last committed state.
Patched(write, state) ==
  LET patch   == write.patch
      turned  == [state EXCEPT !.enabled = IF patch.enabled = Absent THEN @ ELSE patch.enabled]
      prefers == [turned EXCEPT !.of[write.kind].preferred =
                    IF patch.preferred = Absent THEN @ ELSE patch.preferred]
  IN applyManualPatch(
       applyManualPatch(prefers, write.kind, "extracted", patch.extracted),
       write.kind, "version_tracked", patch.version_tracked)

Recorded(write, state) ==
  LET current == state.of[write.kind].extracted
  IN withSource(state, write.kind, "extracted",
       AsObserved(current, write.agent, write.day, write.at))

AfterRefresh(write, state) ==
  LET source == write.source
      failed == [source EXCEPT !.attempt = write.at]
      served == [source EXCEPT !.attempt = write.at, !.success = write.day]
  IN IF write.release = Absent
     THEN withSource(state, write.kind, "version_tracked", failed)
     ELSE [withSource(state, write.kind, "version_tracked", served) EXCEPT
             !.of[write.kind].release = write.release,
             !.of[write.kind].releaseAt = write.at]

\* Variant: an observation is not judged again when its turn has come.
OverlooksObservation(write, state) ==
  write.op = "refresh" /\ state.of[write.kind].version_tracked # write.source

\* The update hands back the very object it was given.
LeavesAlone(write, state) ==
  \/ write.op = "observe" /\ ~OwesObservation(state.of[write.kind].extracted, write.day)
  \/ write.op = "refresh" /\ state.of[write.kind].version_tracked # write.source
Applied(write, state) ==
  CASE write.op = "observe" -> Recorded(write, state)
    [] write.op = "update"  -> Patched(write, state)
    [] write.op = "refresh" -> AfterRefresh(write, state)

\* A write of a closed store, or one that changes nothing, does not touch disk.
WriteStarts ==
  /\ writes # <<>> /\ writing = Absent
  /\ IF storeClosed \/ LeavesAlone(Head(writes), committed)
     THEN writes' = Tail(writes) /\ UNCHANGED writing
     ELSE writing' = Applied(Head(writes), committed) /\ UNCHANGED writes
  /\ UNCHANGED <<identity, committed, refreshes, wanted, clock, storeClosed, asked>>

WantedBy(write) ==
  IF write.op # "update" THEN wanted
  ELSE [wanted EXCEPT ![write.kind] =
          [source \in Source |->
             IF write.patch[source] = Absent THEN @[source] ELSE write.patch[source]]]

WriteCommits ==
  /\ writing # Absent
  /\ committed' = writing
  /\ identity' = writing
  /\ wanted' = WantedBy(Head(writes))
  /\ writes' = Tail(writes) /\ writing' = Absent
  /\ UNCHANGED <<refreshes, clock, storeClosed, asked>>

\* An observation that could not be stored is not used either.
AfterFailure(write) == IF write.op = "observe" THEN committed ELSE identity
WriteFails ==
  /\ writing # Absent
  /\ identity' = AfterFailure(Head(writes))
  /\ writes' = Tail(writes) /\ writing' = Absent
  /\ UNCHANGED <<committed, refreshes, wanted, clock, storeClosed, asked>>

-----------------------------------------------------------------------------
Ticks ==
  /\ clock < MaxTime
  /\ clock' = clock + 1
  /\ UNCHANGED <<identity, committed, writes, writing, refreshes, wanted, storeClosed, asked>>

Closes ==
  /\ ~storeClosed
  /\ storeClosed' = TRUE
  /\ UNCHANGED <<identity, committed, writes, writing, refreshes, wanted, clock, asked>>

\* The process ends, at a write or not, and the next one loads the file: the
\* rename either happened or did not.
Restarts ==
  /\ \/ committed' = committed /\ wanted' = wanted
     \/ writing # Absent /\ committed' = writing /\ wanted' = WantedBy(Head(writes))
  /\ identity' = committed'
  /\ writes' = <<>> /\ writing' = Absent /\ refreshes' = {} /\ storeClosed' = FALSE
  /\ UNCHANGED <<clock, asked>>

IdentityInit ==
  /\ committed = factoryState /\ identity = factoryState
  /\ writes = <<>> /\ writing = Absent /\ refreshes = {}
  /\ wanted = [kind \in Kind |-> [source \in Source |-> Automatic]]
  /\ clock = 0 /\ storeClosed = FALSE /\ asked = 0

IdentityNext ==
  \/ \E kind \in Kind :
       \/ \E agent \in UserAgent : observeCliUserAgent(kind, agent)
       \/ update(kind)
       \/ \E force \in BOOLEAN : refreshVersionTracked(kind, force)
  \/ \E r \in refreshes : RegistryAnswers(r)
  \/ WriteStarts \/ WriteCommits \/ WriteFails
  \/ Ticks \/ Closes \/ Restarts

IdentitySpec == IdentityInit /\ [][IdentityNext]_identityVars

-----------------------------------------------------------------------------
\* A value the operator typed is the one on disk and the one in use, whatever
\* observation or registry answer was on its way; a request is introduced with
\* it if its source is preferred; and once no write is left, what is in use is
\* what a restart would load (client-identity-store.ts, update: "a value the
\* operator typed being silently overwritten by a background refresh").
TypedIdentitiesStay ==
  /\ \A kind \in Kind : \A source \in Source :
       wanted[kind][source] # Automatic =>
         /\ committed.of[kind][source].agent = wanted[kind][source]
         /\ identity.of[kind][source] = committed.of[kind][source]
         /\ (identity.enabled /\ identity.of[kind].preferred = source
               /\ wanted[kind][source] # Blank)
              => userAgentFor(kind) = <<wanted[kind][source], Absent>>
  /\ writes = <<>> /\ ~storeClosed => identity = committed
=============================================================================
