--------------------------- MODULE GatewayProofs ---------------------------
(***************************************************************************)
(* Proofs about the parts of Gateway, for any number of keys, requests,    *)
(* conversations, agents and connections, and for every value of the       *)
(* thresholds.  Each part has an inductive invariant of its own; what is   *)
(* proved of a part holds of the gateway, where the other parts leave its  *)
(* variables alone.                                                        *)
(***************************************************************************)
EXTENDS Gateway, FiniteSetTheorems, SequenceTheorems, TLAPS

-----------------------------------------------------------------------------
(* ServerShutdown *)

\* Each stage of the drain keeps what the one before it waited for.  Nothing new
\* can begin once the connections are closed, so what has settled stays settled;
\* the captures of settled requests ask for no other prune; and a closed identity
\* store takes no change.  A request is rejected only by failing the drain.
ShutdownInv ==
  /\ phase \in {"running", "closing", "draining", "failed", "flushing", "saving", "closed"}
  /\ inbound \in [Served -> [client : Client \cup {Nobody},
                             state : {"none", "serving", "responded", "logged", "settled",
                                      "dropped", "rejected"}]]
  /\ connections \in [Client -> {"open", "closed"}]
  /\ phase \notin {"running", "closing"} =>
       identityClosed /\ \A c \in Client : connections[c] = "closed"
  /\ phase \in {"flushing", "saving", "closed"} => Unsettled = {}
  /\ phase # "failed" => \A r \in Served : inbound[r].state # "rejected"
  /\ phase \in {"saving", "closed"} => prune = "none"
  /\ phase = "closed" => identitySave = "none"
  /\ database = "closed" <=> phase = "closed"
  /\ exit = "clean" => phase = "closed"

LEMMA ShutdownStarts == ShutdownInit => ShutdownInv
  BY DEF ShutdownInit, ShutdownInv

LEMMA ShutdownSteps == ShutdownInv /\ [ShutdownNext]_shutdownVars => ShutdownInv'
<1> SUFFICES ASSUME ShutdownInv, [ShutdownNext]_shutdownVars PROVE ShutdownInv'
  OBVIOUS
<1> USE DEF ShutdownInv, Unsettled
<1>1. ASSUME NEW r \in Served, NEW c \in Client, Accepts(r, c) PROVE ShutdownInv'
  BY <1>1 DEF Accepts
<1>2. ASSUME NEW r \in Served, ResponseIsOver(r) PROVE ShutdownInv'
  BY <1>2 DEF ResponseIsOver
<1>3. ASSUME NEW r \in Served, LogsRow(r) PROVE ShutdownInv'
  BY <1>3 DEF LogsRow
<1>4. ASSUME NEW r \in Served, PersistsCapture(r) PROVE ShutdownInv'
  BY <1>4 DEF PersistsCapture
<1>5. ASSUME NEW r \in Served, FinalizationFails(r) PROVE ShutdownInv'
  BY <1>5 DEF FinalizationFails
<1>6. ASSUME NEW c \in Client, ClientLeaves(c) PROVE ShutdownInv'
  BY <1>6 DEF ClientLeaves
<1>7. CASE PruneFinishes BY <1>7 DEF PruneFinishes
<1>8. CASE IdentityChanges BY <1>8 DEF IdentityChanges
<1>9. CASE IdentityWriteStarts BY <1>9 DEF IdentityWriteStarts
<1>10. CASE IdentityWritten BY <1>10 DEF IdentityWritten
<1>11. CASE Shutdown BY <1>11 DEF Shutdown
<1>12. CASE GraceEnds BY <1>12 DEF GraceEnds
<1>13. CASE Drains BY <1>13 DEF Drains
<1>14. CASE AllSettle BY <1>14 DEF AllSettle, RequestsHaveSettled
<1>15. CASE CapturesFlush BY <1>15 DEF CapturesFlush, CapturesHaveFlushed
<1>16. CASE ClosesDatabase BY <1>16 DEF ClosesDatabase, IdentityHasFlushed
<1>17. CASE ExitsCleanly BY <1>17 DEF ExitsCleanly
<1>18. CASE ExitsFailed BY <1>18 DEF ExitsFailed
<1>19. CASE UNCHANGED shutdownVars BY <1>19 DEF shutdownVars
<1> QED
  BY <1>1, <1>2, <1>3, <1>4, <1>5, <1>6, <1>7, <1>8, <1>9, <1>10, <1>11, <1>12, <1>13,
     <1>14, <1>15, <1>16, <1>17, <1>18, <1>19 DEF ShutdownNext

\* Nothing that writes the log outlives the database, and a clean exit has waited
\* for every request and file; the only requests without an end of their own are
\* those whose finalization threw before the drain (http.ts drainResources, main.ts).
THEOREM CleanExits == GatewaySpec => []CleanExitAwaitsRequests
<1>1. GatewayInit => ShutdownInv
  BY ShutdownStarts DEF GatewayInit
<1>2. ShutdownInv /\ [GatewayNext]_gatewayVars => ShutdownInv'
  BY ShutdownSteps DEF GatewayNext, gatewayVars
<1>3. ShutdownInv => CleanExitAwaitsRequests
  BY DEF ShutdownInv, CleanExitAwaitsRequests, Unsettled
<1> QED BY <1>1, <1>2, <1>3, PTL DEF GatewaySpec

-----------------------------------------------------------------------------
(* ClaudeKeyPool *)

HealthFields == {"version", "inFlight", "transientFailures", "quarantineUntil",
                 "rateLimitUntil", "cooldownUntil", "stickyOnlyUntil", "earnedBy"}
IsHealth(h) ==
  /\ DOMAIN h = HealthFields
  /\ h.version \in Int /\ h.inFlight \in Int /\ h.transientFailures \in Int
  /\ h.quarantineUntil \in Int /\ h.rateLimitUntil \in Int /\ h.cooldownUntil \in Int

ReservationFields == {"phase", "key", "session", "version", "orphan", "cred", "reserve"}
IsReservation(o) ==
  /\ DOMAIN o = ReservationFields
  /\ o.orphan \in BOOLEAN /\ o.version \in Int

\* A key of a profile as that profile was last routed.
IsKey(k, sig) ==
  \E p \in ClaudeProfile : \E id \in DOMAIN sig[p] : k = << p, id >>

Holders(k, open) == {r \in ClaudeRequest : open[r].key = k /\ ~open[r].orphan}

\* What is recorded of a key was earned by its credential, and its load is exact.
RecordsOwn(h, sig, open) ==
  \A k \in DOMAIN h :
    /\ k # NoKey /\ IsKey(k, sig) /\ IsHealth(h[k])
    /\ h[k].earnedBy \subseteq {sig[k[1]][k[2]]}
    /\ h[k].inFlight = Cardinality(Holders(k, open))

\* A reservation that is not orphaned is on a record, was made with its credential
\* and knows no later failure than it; none at all, if its key failed since.
ReservationsOwn(h, sig, open, tripped) ==
  \A r \in ClaudeRequest :
    /\ IsReservation(open[r])
    /\ open[r].phase \in {"reading", "done"} => open[r].key = NoKey
    /\ open[r].phase = "reading" => r \notin tripped
    /\ open[r].key # NoKey /\ ~open[r].orphan =>
         /\ open[r].key \in DOMAIN h
         /\ open[r].phase \in {"routed", "sent"}
         /\ open[r].cred = sig[open[r].key[1]][open[r].key[2]]
         /\ open[r].version <= h[open[r].key].version
         /\ r \in tripped => open[r].version < h[open[r].key].version

PinsOwn(pins, sig) ==
  \A s \in DOMAIN pins :
    /\ IsKey(pins[s].key, sig)
    /\ pins[s].cred = sig[pins[s].key[1]][pins[s].key[2]]

KeysInv ==
  /\ claudeRoute \in [ClaudeProfile -> ClaudeRoute] /\ claudeClock \in Int
  /\ DOMAIN signatures = ClaudeProfile
  /\ DOMAIN claudeOpen = ClaudeRequest
  /\ RecordsOwn(health, signatures, claudeOpen)
  /\ ReservationsOwn(health, signatures, claudeOpen, trippedSince)
  /\ PinsOwn(stickiness, signatures)

LEMMA LargestOf ==
  ASSUME NEW a \in Int, NEW b \in Int
  PROVE  Max({a, b}) \in Int /\ Max({a, b}) >= a /\ Max({a, b}) >= b
<1>1. \E x \in {a, b} : \A y \in {a, b} : x >= y
  BY SMT
<1> QED BY <1>1 DEF Max

LEMMA LargestOfThree ==
  ASSUME NEW a \in Int, NEW b \in Int, NEW c \in Int
  PROVE  /\ Max({a, b, c}) \in {a, b, c}
         /\ Max({a, b, c}) >= a /\ Max({a, b, c}) >= b /\ Max({a, b, c}) >= c
<1>1. \E x \in {a, b, c} : \A y \in {a, b, c} : x >= y
  BY SMT
<1> QED BY <1>1 DEF Max

LEMMA SmallestOf ==
  ASSUME NEW a \in Int, NEW b \in Int
  PROVE  Min({a, b}) \in Int
<1>1. \E x \in {a, b} : \A y \in {a, b} : x <= y
  BY SMT
<1> QED BY <1>1 DEF Min

LEMMA KeysStart == KeysInit => KeysInv
<1> SUFFICES ASSUME KeysInit PROVE KeysInv
  OBVIOUS
<1>1. claudeRoute \in [ClaudeProfile -> ClaudeRoute]
  BY KeyPoolAssumption DEF KeysInit
<1>2. \A r \in ClaudeRequest : IsReservation(claudeOpen[r])
  <2>1. IsReservation(NoReservation("reading"))
    BY DEF NoReservation, IsReservation, ReservationFields
  <2> QED BY <2>1 DEF KeysInit
<1>3. ReservationsOwn(health, signatures, claudeOpen, trippedSince)
  BY <1>2 DEF KeysInit, NoReservation, ReservationsOwn
<1> QED BY <1>1, <1>3 DEF KeysInit, KeysInv, RecordsOwn, PinsOwn

\* A key that reconciling leaves alone is a key as before.
LEMMA KeyKept ==
  ASSUME DOMAIN signatures = ClaudeProfile, NEW p \in ClaudeProfile,
         NEW k, IsKey(k, signatures), k \notin Replaced(p),
         NEW sig, sig = [signatures EXCEPT ![p] = SignaturesOf(claudeRoute[p])]
  PROVE  IsKey(k, sig) /\ sig[k[1]][k[2]] = signatures[k[1]][k[2]]
<1>1. PICK q \in ClaudeProfile : \E id \in DOMAIN signatures[q] : k = << q, id >>
  BY DEF IsKey
<1>2. PICK id \in DOMAIN signatures[q] : k = << q, id >>
  BY <1>1
<1>3. CASE q # p
  BY <1>2, <1>3 DEF IsKey
<1>4. CASE q = p
  <2>1. id \in DOMAIN SignaturesOf(claudeRoute[p]) /\ SignaturesOf(claudeRoute[p])[id] = signatures[p][id]
    BY <1>2, <1>4 DEF Replaced
  <2> QED BY <1>2, <1>4, <2>1 DEF IsKey
<1> QED BY <1>3, <1>4

\* Reconciling a profile drops what belongs to a replaced credential, and nothing
\* else: records, reservations and pins are those of the new credentials.
LEMMA Reconciled ==
  ASSUME KeysInv, NEW p \in ClaudeProfile, NEW sig,
         sig = [signatures EXCEPT ![p] = SignaturesOf(claudeRoute[p])]
  PROVE  /\ DOMAIN sig = ClaudeProfile /\ DOMAIN Orphaned(p) = ClaudeRequest
         /\ RecordsOwn(KeptHealth(p), sig, Orphaned(p))
         /\ ReservationsOwn(KeptHealth(p), sig, Orphaned(p), trippedSince)
         /\ PinsOwn(KeptPins(p), sig)
<1> DEFINE h == KeptHealth(p)
           open == Orphaned(p)
<1>0. DOMAIN signatures = ClaudeProfile
  BY DEF KeysInv
<1>1. DOMAIN sig = ClaudeProfile /\ DOMAIN Orphaned(p) = ClaudeRequest
  BY DEF KeysInv, Orphaned
<1>kept. \A k : IsKey(k, signatures) /\ k \notin Replaced(p)
                  => IsKey(k, sig) /\ sig[k[1]][k[2]] = signatures[k[1]][k[2]]
  <2> HIDE DEF h, open
  <2> TAKE k
  <2> HAVE IsKey(k, signatures) /\ k \notin Replaced(p)
  <2> QED BY <1>0, KeyKept
<1>2. \A k \in DOMAIN h : k \in DOMAIN health /\ k \notin Replaced(p) /\ h[k] = health[k]
  BY DEF KeptHealth
<1>3. ASSUME NEW r \in ClaudeRequest
      PROVE  /\ IsReservation(open[r])
             /\ open[r].phase = claudeOpen[r].phase /\ open[r].key = claudeOpen[r].key
             /\ open[r].cred = claudeOpen[r].cred /\ open[r].version = claudeOpen[r].version
             /\ open[r].orphan = (claudeOpen[r].orphan \/ claudeOpen[r].key \in Replaced(p))
  <2>1. IsReservation(claudeOpen[r])
    BY DEF KeysInv, ReservationsOwn
  <2> QED BY <2>1 DEF Orphaned, IsReservation, ReservationFields
<1>4. RecordsOwn(h, sig, open)
  <2> SUFFICES ASSUME NEW k \in DOMAIN h
               PROVE  /\ k # NoKey /\ IsKey(k, sig) /\ IsHealth(h[k])
                      /\ h[k].earnedBy \subseteq {sig[k[1]][k[2]]}
                      /\ h[k].inFlight = Cardinality(Holders(k, open))
    BY DEF RecordsOwn
  <2>1. /\ k # NoKey /\ IsKey(k, signatures) /\ IsHealth(health[k])
        /\ health[k].earnedBy \subseteq {signatures[k[1]][k[2]]}
        /\ health[k].inFlight = Cardinality(Holders(k, claudeOpen))
    BY <1>2 DEF KeysInv, RecordsOwn
  <2>2. IsKey(k, sig) /\ sig[k[1]][k[2]] = signatures[k[1]][k[2]]
    BY <1>kept, <1>2, <2>1
  <2>3. Holders(k, open) = Holders(k, claudeOpen)
    BY <1>2, <1>3 DEF Holders
  <2> QED BY <1>2, <2>1, <2>2, <2>3
<1>5. ReservationsOwn(h, sig, open, trippedSince)
  <2> SUFFICES ASSUME NEW r \in ClaudeRequest
               PROVE  /\ IsReservation(open[r])
                      /\ open[r].phase \in {"reading", "done"} => open[r].key = NoKey
                      /\ open[r].phase = "reading" => r \notin trippedSince
                      /\ open[r].key # NoKey /\ ~open[r].orphan =>
                           /\ open[r].key \in DOMAIN h
                           /\ open[r].phase \in {"routed", "sent"}
                           /\ open[r].cred = sig[open[r].key[1]][open[r].key[2]]
                           /\ open[r].version <= h[open[r].key].version
                           /\ r \in trippedSince => open[r].version < h[open[r].key].version
    BY DEF ReservationsOwn
  <2>1. /\ claudeOpen[r].phase \in {"reading", "done"} => claudeOpen[r].key = NoKey
        /\ claudeOpen[r].phase = "reading" => r \notin trippedSince
        /\ claudeOpen[r].key # NoKey /\ ~claudeOpen[r].orphan =>
             /\ claudeOpen[r].key \in DOMAIN health
             /\ claudeOpen[r].phase \in {"routed", "sent"}
             /\ claudeOpen[r].cred = signatures[claudeOpen[r].key[1]][claudeOpen[r].key[2]]
             /\ claudeOpen[r].version <= health[claudeOpen[r].key].version
             /\ r \in trippedSince => claudeOpen[r].version < health[claudeOpen[r].key].version
    BY DEF KeysInv, ReservationsOwn
  <2>2. CASE open[r].key # NoKey /\ ~open[r].orphan
    <3> DEFINE k == claudeOpen[r].key
    <3>1. k \in DOMAIN health /\ k \notin Replaced(p) /\ ~claudeOpen[r].orphan
      BY <1>3, <2>1, <2>2
    <3>2. k \in DOMAIN h /\ h[k] = health[k]
      BY <3>1 DEF KeptHealth
    <3>3. sig[k[1]][k[2]] = signatures[k[1]][k[2]]
      <4>1. IsKey(k, signatures)
        BY <3>1 DEF KeysInv, RecordsOwn
      <4> QED BY <1>kept, <3>1, <4>1
    <3> HIDE DEF h, open
    <3> QED BY <1>3, <2>1, <2>2, <3>1, <3>2, <3>3
  <2>3. CASE ~(open[r].key # NoKey /\ ~open[r].orphan)
    <3> HIDE DEF open, h
    <3> QED BY <1>3, <2>1, <2>3
  <2> QED BY <2>2, <2>3
<1>6. PinsOwn(KeptPins(p), sig)
  <2> SUFFICES ASSUME NEW s \in DOMAIN KeptPins(p)
               PROVE  /\ IsKey(KeptPins(p)[s].key, sig)
                      /\ KeptPins(p)[s].cred = sig[KeptPins(p)[s].key[1]][KeptPins(p)[s].key[2]]
    BY DEF PinsOwn
  <2>1. /\ s \in DOMAIN stickiness /\ stickiness[s].key \notin Replaced(p)
        /\ KeptPins(p)[s] = stickiness[s]
    BY DEF KeptPins
  <2>2. /\ IsKey(stickiness[s].key, signatures)
        /\ stickiness[s].cred = signatures[stickiness[s].key[1]][stickiness[s].key[2]]
    BY <2>1 DEF KeysInv, PinsOwn
  <2> QED BY <1>kept, <2>1, <2>2
<1> QED BY <1>1, <1>4, <1>5, <1>6

\* Any selected key is one of the profile as it is now configured.
LEMMA SelectedIsKey ==
  ASSUME claudeRoute \in [ClaudeProfile -> ClaudeRoute], NEW p \in ClaudeProfile,
         NEW h, NEW pins, NEW s, NEW k \in SelectableKeys(h, pins, p, s)
  PROVE  k # NoKey /\ \E id \in DOMAIN SignaturesOf(claudeRoute[p]) : k = << p, id >>
<1> DEFINE pool == ClaudePool(claudeRoute[p])
<1>1. k \in Candidates(p, pool)
  <2> HIDE DEF pool
  <2>1. SelectableKeys(h, pins, p, s) \subseteq Candidates(p, pool)
    BY Zenon DEF SelectableKeys, PinnedKey, FirstInLine, SoonestBack, Candidates, pool
  <2> QED BY <2>1
<1>2. PICK n \in DOMAIN pool : k = << p, pool[n].id >>
  BY <1>1 DEF Candidates
<1>3. k # NoKey
  BY <1>2, KeyPoolAssumption
<1>4. pool[n].id \in DOMAIN SignaturesOf(claudeRoute[p])
  BY DEF SignaturesOf
<1> QED BY <1>2, <1>3, <1>4

\* No reservation is open on a key that has no record.
LEMMA FreshKeyIsFree ==
  ASSUME NEW h, NEW sig, NEW open, NEW tripped, ReservationsOwn(h, sig, open, tripped),
         NEW k, k # NoKey, k \notin DOMAIN h
  PROVE  Holders(k, open) = {}
  BY DEF ReservationsOwn, Holders

LEMMA HoldersAreFinite ==
  ASSUME NEW k, NEW open
  PROVE  IsFiniteSet(Holders(k, open))
  BY KeyPoolAssumption, FS_Subset DEF Holders

Extends(f2, f, x, value) ==
  /\ DOMAIN f2 = DOMAIN f \cup {x} /\ f2[x] = value
  /\ \A y \in DOMAIN f : y # x => f2[y] = f[y]

OnlyChanges(f2, f, x, value) ==
  f2[x] = value /\ \A y \in ClaudeRequest : y # x => f2[y] = f[y]

\* A request that takes a key is counted on it.
LEMMA KeyReserved ==
  ASSUME NEW h, NEW sig, NEW open, DOMAIN open = ClaudeRequest,
         RecordsOwn(h, sig, open), ReservationsOwn(h, sig, open, trippedSince),
         NEW r \in ClaudeRequest, open[r].phase = "reading",
         NEW k, k # NoKey, IsKey(k, sig),
         NEW used, used = HealthOf(h, k),
         NEW o, IsReservation(o), o.key = k, ~o.orphan, o.phase = "routed",
         o.cred = sig[k[1]][k[2]], o.version = used.version,
         NEW taken, taken = [used EXCEPT !.inFlight = used.inFlight + 1],
         NEW h2, Extends(h2, h, k, taken), NEW open2, OnlyChanges(open2, open, r, o)
  PROVE  RecordsOwn(h2, sig, open2) /\ ReservationsOwn(h2, sig, open2, trippedSince)
<1>1. open[r].key = NoKey /\ r \notin trippedSince
  BY DEF ReservationsOwn
<1>2. /\ IsHealth(used) /\ used.earnedBy \subseteq {sig[k[1]][k[2]]}
      /\ used.inFlight = Cardinality(Holders(k, open))
  <2>1. CASE k \in DOMAIN h
    BY <2>1 DEF HealthOf, RecordsOwn
  <2>2. CASE k \notin DOMAIN h
    <3>1. IsHealth(Fresh) /\ Fresh.inFlight = 0 /\ Fresh.earnedBy = {}
      BY DEF Fresh, IsHealth, HealthFields
    <3> QED BY <2>2, <3>1, FreshKeyIsFree, FS_EmptySet DEF HealthOf
  <2> QED BY <2>1, <2>2
<1>3. /\ IsHealth(taken) /\ taken.earnedBy = used.earnedBy /\ taken.version = used.version
      /\ taken.inFlight = used.inFlight + 1
  BY <1>2 DEF IsHealth, HealthFields
<1>4. /\ DOMAIN h2 = DOMAIN h \cup {k} /\ h2[k] = taken
      /\ \A x \in DOMAIN h : x # k => h2[x] = h[x]
  BY DEF Extends
<1>5. /\ open2[r] = o /\ \A x \in ClaudeRequest : x # r => open2[x] = open[x]
  BY DEF OnlyChanges
<1>6. Holders(k, open2) = Holders(k, open) \cup {r} /\ r \notin Holders(k, open)
  BY <1>1, <1>5 DEF Holders
<1>7. Cardinality(Holders(k, open2)) = Cardinality(Holders(k, open)) + 1
  BY <1>6, HoldersAreFinite, FS_AddElement
<1>8. RecordsOwn(h2, sig, open2)
  <2> SUFFICES ASSUME NEW x \in DOMAIN h2
               PROVE  /\ x # NoKey /\ IsKey(x, sig) /\ IsHealth(h2[x])
                      /\ h2[x].earnedBy \subseteq {sig[x[1]][x[2]]}
                      /\ h2[x].inFlight = Cardinality(Holders(x, open2))
    BY DEF RecordsOwn
  <2>1. CASE x = k
    BY <1>2, <1>3, <1>4, <1>7, <2>1
  <2>2. CASE x # k
    <3>1. x \in DOMAIN h /\ h2[x] = h[x]
      BY <1>4, <2>2
    <3>2. x # NoKey
      BY <3>1 DEF RecordsOwn
    <3>3. open[r].key # x /\ open2[r].key # x
      BY <1>1, <1>5, <2>2, <3>2
    <3>4. Holders(x, open2) = Holders(x, open)
      BY <1>5, <3>3, Zenon DEF Holders
    <3> QED BY <3>1, <3>2, <3>4 DEF RecordsOwn
  <2> QED BY <2>1, <2>2
<1>9. ReservationsOwn(h2, sig, open2, trippedSince)
  <2> SUFFICES ASSUME NEW x \in ClaudeRequest
               PROVE  /\ IsReservation(open2[x])
                      /\ open2[x].phase \in {"reading", "done"} => open2[x].key = NoKey
                      /\ open2[x].phase = "reading" => x \notin trippedSince
                      /\ open2[x].key # NoKey /\ ~open2[x].orphan =>
                           /\ open2[x].key \in DOMAIN h2
                           /\ open2[x].phase \in {"routed", "sent"}
                           /\ open2[x].cred = sig[open2[x].key[1]][open2[x].key[2]]
                           /\ open2[x].version <= h2[open2[x].key].version
                           /\ x \in trippedSince => open2[x].version < h2[open2[x].key].version
    BY DEF ReservationsOwn
  <2>1. CASE x = r
    <3>1. /\ open2[x] = o /\ k \in DOMAIN h2 /\ h2[k].version = o.version
          /\ o.version \in Int /\ x \notin trippedSince
      BY <1>1, <1>3, <1>4, <1>5, <2>1 DEF IsReservation
    <3> QED BY <3>1
  <2>2. CASE x # r
    <3>1. open2[x] = open[x]
      BY <1>5, <2>2
    <3>2. \A y \in DOMAIN h : y \in DOMAIN h2 /\ h2[y].version = h[y].version
      BY <1>3, <1>4 DEF HealthOf
    <3> QED BY <3>1, <3>2 DEF ReservationsOwn
  <2> QED BY <2>1, <2>2
<1> QED BY <1>8, <1>9

LEMMA SettledIsReservation == IsReservation(NoReservation("done"))
  BY DEF NoReservation, IsReservation, ReservationFields

\* A request without a key of its own, or whose key was replaced, settles nothing.
LEMMA UnjudgedSettles ==
  ASSUME KeysInv, NEW r \in ClaudeRequest,
         claudeOpen[r].key = NoKey \/ claudeOpen[r].orphan,
         claudeOpen' = [claudeOpen EXCEPT ![r] = NoReservation("done")],
         UNCHANGED << health, stickiness, trippedSince, claudeRoute, signatures, claudeClock >>
  PROVE  KeysInv'
<1>1. /\ claudeOpen'[r] = NoReservation("done") /\ DOMAIN claudeOpen' = ClaudeRequest
      /\ \A x \in ClaudeRequest : x # r => claudeOpen'[x] = claudeOpen[x]
  BY DEF KeysInv
<1>2. \A k \in DOMAIN health : Holders(k, claudeOpen') = Holders(k, claudeOpen)
  <2> SUFFICES ASSUME NEW k \in DOMAIN health
               PROVE  Holders(k, claudeOpen') = Holders(k, claudeOpen)
    OBVIOUS
  <2>1. k # NoKey
    BY DEF KeysInv, RecordsOwn
  <2>2. /\ claudeOpen[r].key # k \/ claudeOpen[r].orphan
        /\ claudeOpen'[r].key # k
    BY <1>1, <2>1 DEF NoReservation
  <2> QED BY <1>1, <2>2, Zenon DEF Holders
<1>3. RecordsOwn(health, signatures, claudeOpen')
  BY <1>2 DEF KeysInv, RecordsOwn
<1>4. ReservationsOwn(health, signatures, claudeOpen', trippedSince)
  <2>1. ReservationsOwn(health, signatures, claudeOpen, trippedSince)
    BY DEF KeysInv
  <2> QED BY <1>1, <2>1, SettledIsReservation DEF ReservationsOwn, NoReservation
<1> QED BY <1>1, <1>3, <1>4 DEF KeysInv

\* A verdict on a record is counted on that record and trips every other
\* reservation of the key if it is a failure.
LEMMA JudgedSettles ==
  ASSUME KeysInv, NEW r \in ClaudeRequest, NEW k, k = claudeOpen[r].key,
         k # NoKey, ~claudeOpen[r].orphan,
         NEW failed \in BOOLEAN, NEW verdict, IsHealth(verdict),
         verdict.inFlight = health[k].inFlight - 1,
         verdict.version = health[k].version + (IF failed THEN 1 ELSE 0),
         verdict.earnedBy \subseteq health[k].earnedBy \cup {claudeOpen[r].cred},
         health' = [health EXCEPT ![k] = verdict],
         trippedSince' = IF failed THEN trippedSince \cup Outstanding(k) ELSE trippedSince,
         claudeOpen' = [claudeOpen EXCEPT ![r] = NoReservation("done")],
         PinsOwn(stickiness', signatures),
         UNCHANGED << claudeRoute, signatures, claudeClock >>
  PROVE  KeysInv'
<1>1. /\ claudeOpen'[r] = NoReservation("done") /\ DOMAIN claudeOpen' = ClaudeRequest
      /\ \A x \in ClaudeRequest : x # r => claudeOpen'[x] = claudeOpen[x]
  BY DEF KeysInv
<1>2. /\ k \in DOMAIN health /\ claudeOpen[r].cred = signatures[k[1]][k[2]]
      /\ claudeOpen[r].phase \in {"routed", "sent"}
  BY DEF KeysInv, ReservationsOwn
<1>3. /\ DOMAIN health' = DOMAIN health /\ health'[k] = verdict
      /\ \A x \in DOMAIN health : x # k => health'[x] = health[x]
  BY <1>2
<1>4. Holders(k, claudeOpen') = Holders(k, claudeOpen) \ {r} /\ r \in Holders(k, claudeOpen)
  BY <1>1 DEF Holders, NoReservation
<1>5. Cardinality(Holders(k, claudeOpen')) = Cardinality(Holders(k, claudeOpen)) - 1
  BY <1>4, HoldersAreFinite, FS_RemoveElement
<1>6. RecordsOwn(health', signatures, claudeOpen')
  <2> SUFFICES ASSUME NEW x \in DOMAIN health
               PROVE  /\ x # NoKey /\ IsKey(x, signatures) /\ IsHealth(health'[x])
                      /\ health'[x].earnedBy \subseteq {signatures[x[1]][x[2]]}
                      /\ health'[x].inFlight = Cardinality(Holders(x, claudeOpen'))
    BY <1>3 DEF RecordsOwn
  <2>1. /\ x # NoKey /\ IsKey(x, signatures) /\ IsHealth(health[x])
        /\ health[x].earnedBy \subseteq {signatures[x[1]][x[2]]}
        /\ health[x].inFlight = Cardinality(Holders(x, claudeOpen))
    BY DEF KeysInv, RecordsOwn
  <2>2. CASE x = k
    BY <1>2, <1>3, <1>5, <2>1, <2>2
  <2>3. CASE x # k
    <3>1. claudeOpen[r].key # x /\ claudeOpen'[r].key # x
      BY <1>1, <2>1, <2>3 DEF NoReservation
    <3>2. Holders(x, claudeOpen') = Holders(x, claudeOpen)
      BY <1>1, <3>1, Zenon DEF Holders
    <3> QED BY <1>3, <2>1, <2>3, <3>2
  <2> QED BY <2>2, <2>3
<1>7. ReservationsOwn(health', signatures, claudeOpen', trippedSince')
  <2> SUFFICES ASSUME NEW x \in ClaudeRequest
               PROVE  LET o == claudeOpen'[x]
                      IN  /\ IsReservation(o)
                          /\ o.phase \in {"reading", "done"} => o.key = NoKey
                          /\ o.phase = "reading" => x \notin trippedSince'
                          /\ o.key # NoKey /\ ~o.orphan =>
                               /\ o.key \in DOMAIN health'
                               /\ o.phase \in {"routed", "sent"}
                               /\ o.cred = signatures[o.key[1]][o.key[2]]
                               /\ o.version <= health'[o.key].version
                               /\ x \in trippedSince' => o.version < health'[o.key].version
    BY DEF ReservationsOwn
  <2>1. CASE x = r
    BY <1>1, <2>1, SettledIsReservation DEF NoReservation
  <2>2. CASE x # r
    <3> DEFINE o == claudeOpen[x]
    <3>1. claudeOpen'[x] = o
      BY <1>1, <2>2
    <3>2. /\ IsReservation(o)
          /\ o.phase \in {"reading", "done"} => o.key = NoKey
          /\ o.phase = "reading" => x \notin trippedSince
          /\ o.key # NoKey /\ ~o.orphan =>
               /\ o.key \in DOMAIN health
               /\ o.phase \in {"routed", "sent"}
               /\ o.cred = signatures[o.key[1]][o.key[2]]
               /\ o.version <= health[o.key].version
               /\ x \in trippedSince => o.version < health[o.key].version
      BY DEF KeysInv, ReservationsOwn
    <3>3. x \in trippedSince' => \/ x \in trippedSince
                                 \/ failed /\ o.key = k /\ o.phase \in {"routed", "sent"}
      BY DEF Outstanding
    <3>4. /\ o.key = k /\ ~o.orphan /\ x \in trippedSince => o.version < verdict.version
          /\ o.key = k /\ ~o.orphan /\ failed => o.version < verdict.version
          /\ o.key = k /\ ~o.orphan => o.version <= verdict.version
      <4>1. o.version \in Int /\ health[k].version \in Int
        BY <1>2, <3>2 DEF IsReservation, KeysInv, RecordsOwn, IsHealth
      <4> HIDE DEF o
      <4> QED BY <3>2, <4>1
    <3> HIDE DEF o
    <3>5. o.phase = "reading" => x \notin trippedSince'
      BY <3>2, <3>3
    <3>6. ASSUME o.key # NoKey, ~o.orphan
          PROVE  /\ o.key \in DOMAIN health'
                 /\ o.version <= health'[o.key].version
                 /\ x \in trippedSince' => o.version < health'[o.key].version
      <4>1. CASE o.key = k
        BY <1>2, <1>3, <3>3, <3>4, <3>6, <4>1
      <4>2. CASE o.key # k
        BY <1>3, <3>2, <3>3, <3>6, <4>2
      <4> QED BY <4>1, <4>2
    <3> QED BY <3>1, <3>2, <3>5, <3>6
  <2> QED BY <2>1, <2>2
<1> QED BY <1>1, <1>6, <1>7 DEF KeysInv

\* A failure raises one of the three blocks and lowers none.
Raises(h, v) ==
  /\ IsHealth(v) /\ v.inFlight = h.inFlight /\ v.earnedBy = h.earnedBy
  /\ v.version = h.version
  /\ v.quarantineUntil >= h.quarantineUntil /\ v.rateLimitUntil >= h.rateLimitUntil
  /\ v.cooldownUntil >= h.cooldownUntil

LEMMA QuarantineRaises ==
  ASSUME claudeClock \in Int, NEW h, IsHealth(h)
  PROVE  Raises(h, Quarantined(h))
<1> DEFINE until == Max({h.quarantineUntil, claudeClock + AUTH_QUARANTINE})
<1>1. until \in Int /\ until >= h.quarantineUntil
  <2>1. h.quarantineUntil \in Int /\ claudeClock + AUTH_QUARANTINE \in Int
    BY KeyPoolAssumption DEF IsHealth
  <2> QED BY <2>1, LargestOf, Zenon
<1>2. Quarantined(h) = [h EXCEPT !.quarantineUntil = until]
  BY DEF Quarantined
<1> HIDE DEF until
<1> QED BY <1>1, <1>2 DEF Raises, IsHealth, HealthFields

LEMMA RateLimitRaises ==
  ASSUME claudeClock \in Int, NEW h, IsHealth(h), NEW header \in RetryAfter, NEW reserve
  PROVE  Raises(h, RateLimited(h, header, reserve))
<1> DEFINE until == Max({h.rateLimitUntil, claudeClock + retryAfterCooldown(header)})
           only == IF reserve > 0 THEN Max({h.stickyOnlyUntil, until + reserve})
                   ELSE h.stickyOnlyUntil
<1>1. retryAfterCooldown(header) \in Int
  BY SmallestOf, KeyPoolAssumption DEF retryAfterCooldown
<1>2. until \in Int /\ until >= h.rateLimitUntil
  <2>1. h.rateLimitUntil \in Int /\ claudeClock + retryAfterCooldown(header) \in Int
    BY <1>1 DEF IsHealth
  <2> QED BY <2>1, LargestOf, Zenon
<1>3. RateLimited(h, header, reserve)
        = [h EXCEPT !.rateLimitUntil = until, !.stickyOnlyUntil = only]
  BY DEF RateLimited
<1> HIDE DEF until, only
<1> QED BY <1>2, <1>3 DEF Raises, IsHealth, HealthFields

LEMMA StumbleRaises ==
  ASSUME claudeClock \in Int, NEW h, IsHealth(h)
  PROVE  Raises(h, Stumbled(h))
<1> DEFINE failures == h.transientFailures + 1
           times == Max({1, failures - TRANSIENT_THRESHOLD + 1})
           pause == Min({TRANSIENT_COOLDOWN_MAX, TRANSIENT_COOLDOWN * times})
           until == IF failures < TRANSIENT_THRESHOLD THEN h.cooldownUntil
                    ELSE Max({h.cooldownUntil, claudeClock + pause})
<1>1. failures \in Int
  BY DEF IsHealth
<1>2. times \in Int
  <2> HIDE DEF failures
  <2>1. 1 \in Int /\ failures - TRANSIENT_THRESHOLD + 1 \in Int
    BY <1>1, KeyPoolAssumption
  <2> QED BY <2>1, LargestOf, Zenon
<1>3. pause \in Int
  <2> HIDE DEF times
  <2>1. TRANSIENT_COOLDOWN * times \in Int
    BY <1>2, KeyPoolAssumption
  <2> QED BY <2>1, SmallestOf, KeyPoolAssumption
<1>4. until \in Int /\ until >= h.cooldownUntil
  <2> HIDE DEF pause, failures
  <2>1. CASE failures < TRANSIENT_THRESHOLD
    BY <2>1 DEF IsHealth
  <2>2. CASE ~(failures < TRANSIENT_THRESHOLD)
    <3>1. h.cooldownUntil \in Int /\ claudeClock + pause \in Int
      BY <1>3 DEF IsHealth
    <3>2. LET latest == Max({h.cooldownUntil, claudeClock + pause})
          IN  latest \in Int /\ latest >= h.cooldownUntil
      BY <3>1, LargestOf, Zenon
    <3> QED BY <2>2, <3>2
  <2> QED BY <2>1, <2>2
<1>5. Stumbled(h) = [h EXCEPT !.transientFailures = failures, !.cooldownUntil = until]
  BY DEF Stumbled
<1> HIDE DEF failures, until
<1> QED BY <1>1, <1>4, <1>5 DEF Raises, IsHealth, HealthFields

LEMMA RaisedBlocksLater ==
  ASSUME NEW h, IsHealth(h), NEW v, Raises(h, v)
  PROVE  Latest(v) \in Int /\ Latest(h) \in Int /\ Latest(v) >= Latest(h)
<1> DEFINE a == h.quarantineUntil
           b == h.rateLimitUntil
           c == h.cooldownUntil
           d == v.quarantineUntil
           e == v.rateLimitUntil
           f == v.cooldownUntil
<1>1. a \in Int /\ b \in Int /\ c \in Int /\ d \in Int /\ e \in Int /\ f \in Int
  BY DEF IsHealth, Raises
<1>2. d >= a /\ e >= b /\ f >= c
  BY DEF Raises
<1>3. Latest(h) = Max({a, b, c}) /\ Latest(v) = Max({d, e, f})
  BY DEF Latest
<1> HIDE DEF a, b, c, d, e, f
<1>4. /\ Max({a, b, c}) \in {a, b, c}
      /\ Max({d, e, f}) \in {d, e, f}
      /\ Max({d, e, f}) >= d /\ Max({d, e, f}) >= e /\ Max({d, e, f}) >= f
  BY <1>1, LargestOfThree
<1> QED BY <1>1, <1>2, <1>3, <1>4

\* Late answers lift nothing: what a step may do to the blocks of a key.
BlocksHold ==
  \A k \in DOMAIN health \cap DOMAIN health' :
    Latest(health'[k]) < Latest(health[k]) =>
      \/ signatures'[k[1]][k[2]] # signatures[k[1]][k[2]]
      \/ \E r \in ClaudeRequest \ trippedSince :
            /\ claudeOpen[r].phase = "sent" /\ claudeOpen[r].key = k
            /\ claudeOpen'[r].phase = "done"

\* A released record is what it was but for its load.
LEMMA ReleasedRecord ==
  ASSUME NEW h, IsHealth(h), NEW v, v = [h EXCEPT !.inFlight = h.inFlight - 1]
  PROVE  /\ IsHealth(v) /\ v.inFlight = h.inFlight - 1
         /\ v.version = h.version /\ v.earnedBy = h.earnedBy /\ Latest(v) = Latest(h)
  BY DEF IsHealth, HealthFields, Latest

\* What releasing a reservation does to the records.
LEMMA ReleasedHealth ==
  ASSUME KeysInv, NEW r \in ClaudeRequest, NEW k, k = claudeOpen[r].key
  PROVE  /\ k = NoKey \/ claudeOpen[r].orphan => Release(r) = health
         /\ k # NoKey /\ ~claudeOpen[r].orphan =>
              /\ k \in DOMAIN health /\ IsHealth(health[k])
              /\ Release(r) = [health EXCEPT ![k] = [health[k] EXCEPT !.inFlight = health[k].inFlight - 1]]
<1>1. k # NoKey /\ ~claudeOpen[r].orphan => k \in DOMAIN health
  BY DEF KeysInv, ReservationsOwn
<1>2. k # NoKey /\ ~claudeOpen[r].orphan => IsHealth(health[k])
  BY <1>1 DEF KeysInv, RecordsOwn
<1> QED BY <1>1, <1>2 DEF Release

LEMMA Overwritten ==
  ASSUME NEW h, NEW k \in DOMAIN h, NEW a, NEW b, NEW h2, h2 = [h EXCEPT ![k] = a]
  PROVE  [h2 EXCEPT ![k] = b] = [h EXCEPT ![k] = b] /\ h2[k] = a
  OBVIOUS

LEMMA FailureSettles ==
  ASSUME KeysInv, NEW r \in ClaudeRequest, NEW k, k = claudeOpen[r].key,
         k # NoKey, ~claudeOpen[r].orphan,
         NEW rec, rec = [health[k] EXCEPT !.inFlight = health[k].inFlight - 1],
         NEW changed, Raises(rec, changed),
         health' = [health EXCEPT ![k] = Failed(rec, r, changed)],
         trippedSince' = trippedSince \cup Outstanding(k),
         claudeOpen' = [claudeOpen EXCEPT ![r] = NoReservation("done")],
         UNCHANGED << stickiness, claudeRoute, signatures, claudeClock >>
  PROVE  KeysInv' /\ BlocksHold
<1> DEFINE verdict == Failed(rec, r, changed)
<1>1. k \in DOMAIN health /\ IsHealth(health[k])
  BY ReleasedHealth
<1>2. /\ IsHealth(rec) /\ rec.inFlight = health[k].inFlight - 1
      /\ rec.version = health[k].version /\ rec.earnedBy = health[k].earnedBy
      /\ Latest(rec) = Latest(health[k])
  BY <1>1, ReleasedRecord
<1>3. /\ IsHealth(changed) /\ changed.inFlight = rec.inFlight
      /\ changed.earnedBy = rec.earnedBy
  BY DEF Raises
<1>4. /\ IsHealth(verdict) /\ verdict.inFlight = health[k].inFlight - 1
      /\ verdict.version = health[k].version + 1
      /\ verdict.earnedBy = health[k].earnedBy \cup {claudeOpen[r].cred}
      /\ Latest(verdict) = Latest(changed)
  BY <1>2, <1>3 DEF Failed, IsHealth, HealthFields, Latest
<1> HIDE DEF verdict
<1>5. PinsOwn(stickiness', signatures)
  BY DEF KeysInv, PinsOwn
<1>6. KeysInv'
  BY <1>4, <1>5, JudgedSettles, TRUE \in BOOLEAN DEF verdict
<1>7. BlocksHold
  <2>1. Latest(verdict) \in Int /\ Latest(rec) \in Int /\ Latest(verdict) >= Latest(rec)
    BY <1>2, <1>4, RaisedBlocksLater
  <2>2. health'[k] = verdict /\ \A x \in DOMAIN health : x # k => health'[x] = health[x]
    BY <1>1 DEF verdict
  <2>3. \A x \in DOMAIN health : x # k => Latest(health'[x]) = Latest(health[x])
    BY <2>2
  <2>4. \A x \in DOMAIN health : ~(Latest(health'[x]) < Latest(health[x]))
    <3> SUFFICES ASSUME NEW x \in DOMAIN health, Latest(health'[x]) < Latest(health[x])
                 PROVE  FALSE
      OBVIOUS
    <3>1. CASE x = k
      BY <1>2, <2>1, <2>2, <3>1
    <3>2. CASE x # k
      <4>1. IsHealth(health[x])
        BY DEF KeysInv, RecordsOwn
      <4>2. Raises(health[x], health[x])
        BY <4>1 DEF Raises, IsHealth
      <4>3. Latest(health[x]) \in Int
        BY <4>1, <4>2, RaisedBlocksLater
      <4> QED BY <2>3, <3>2, <4>3
    <3> QED BY <3>1, <3>2
  <2> QED BY <2>4 DEF BlocksHold
<1> QED BY <1>6, <1>7

\* Where the records stay as they are, so do the blocks.
LEMMA SameBlocks ==
  ASSUME KeysInv, \A k \in DOMAIN health \cap DOMAIN health' : Latest(health'[k]) = Latest(health[k])
  PROVE  BlocksHold
<1> SUFFICES ASSUME NEW k \in DOMAIN health \cap DOMAIN health',
                    Latest(health'[k]) < Latest(health[k])
             PROVE  FALSE
  BY DEF BlocksHold
<1>1. IsHealth(health[k])
  BY DEF KeysInv, RecordsOwn
<1>2. Latest(health[k]) \in Int
  BY <1>1, RaisedBlocksLater DEF Raises, IsHealth
<1> QED BY <1>2

LEMMA RefusalStep ==
  ASSUME KeysInv, NEW r \in ClaudeRequest, RefuseCredential(r)
  PROVE  KeysInv' /\ BlocksHold
<1> DEFINE k == claudeOpen[r].key
           rec == [health[k] EXCEPT !.inFlight = health[k].inFlight - 1]
<1>1. CASE k = NoKey \/ claudeOpen[r].orphan
  <2>1. health' = health
    BY <1>1, ReleasedHealth DEF RefuseCredential, Judge
  <2> QED BY <1>1, <2>1, UnjudgedSettles, SameBlocks DEF RefuseCredential, Judge
<1>2. CASE k # NoKey /\ ~claudeOpen[r].orphan
  <2>1. k \in DOMAIN health /\ IsHealth(health[k]) /\ Release(r) = [health EXCEPT ![k] = rec]
    BY <1>2, ReleasedHealth
  <2>2. IsHealth(rec)
    BY <2>1, ReleasedRecord
  <2>3. Raises(rec, Quarantined(rec))
    BY <2>2, QuarantineRaises DEF KeysInv
  <2>4. health' = [health EXCEPT ![k] = Failed(rec, r, Quarantined(rec))]
    <3> HIDE DEF rec
    <3>1. health' = [Release(r) EXCEPT ![k] = Failed(Release(r)[k], r, Quarantined(Release(r)[k]))]
      BY <1>2 DEF RefuseCredential, Judge
    <3> QED BY <2>1, <3>1, Overwritten
  <2>5. /\ trippedSince' = trippedSince \cup Outstanding(k)
        /\ claudeOpen' = [claudeOpen EXCEPT ![r] = NoReservation("done")]
        /\ UNCHANGED << stickiness, claudeRoute, signatures, claudeClock >>
    BY <1>2 DEF RefuseCredential, Judge
  <2> QED BY <1>2, <2>3, <2>4, <2>5, FailureSettles
<1> QED BY <1>1, <1>2

LEMMA RateLimitStep ==
  ASSUME KeysInv, NEW r \in ClaudeRequest, LimitRate(r)
  PROVE  KeysInv' /\ BlocksHold
<1> DEFINE k == claudeOpen[r].key
           rec == [health[k] EXCEPT !.inFlight = health[k].inFlight - 1]
<1>0. PICK header \in RetryAfter :
        Judge(r, LAMBDA h : Failed(h, r, RateLimited(h, header, claudeOpen[r].reserve)),
              TRUE, stickiness)
  BY DEF LimitRate
<1>1. CASE k = NoKey \/ claudeOpen[r].orphan
  <2>1. health' = health
    BY <1>0, <1>1, ReleasedHealth DEF Judge
  <2> QED BY <1>0, <1>1, <2>1, UnjudgedSettles, SameBlocks DEF Judge
<1>2. CASE k # NoKey /\ ~claudeOpen[r].orphan
  <2> DEFINE limited == RateLimited(rec, header, claudeOpen[r].reserve)
  <2>1. k \in DOMAIN health /\ IsHealth(health[k]) /\ Release(r) = [health EXCEPT ![k] = rec]
    BY <1>2, ReleasedHealth
  <2>2. IsHealth(rec)
    BY <2>1, ReleasedRecord
  <2>3. Raises(rec, limited)
    BY <2>2, RateLimitRaises DEF KeysInv
  <2>4. health' = [health EXCEPT ![k] = Failed(rec, r, limited)]
    <3> HIDE DEF rec
    <3>1. health' = [Release(r) EXCEPT ![k] =
            Failed(Release(r)[k], r, RateLimited(Release(r)[k], header, claudeOpen[r].reserve))]
      BY <1>0, <1>2 DEF Judge
    <3> QED BY <2>1, <3>1, Overwritten
  <2>5. /\ trippedSince' = trippedSince \cup Outstanding(k)
        /\ claudeOpen' = [claudeOpen EXCEPT ![r] = NoReservation("done")]
        /\ UNCHANGED << stickiness, claudeRoute, signatures, claudeClock >>
    BY <1>0, <1>2 DEF Judge
  <2> HIDE DEF limited
  <2> QED BY <1>2, <2>3, <2>4, <2>5, FailureSettles
<1> QED BY <1>1, <1>2

LEMMA StumbleStep ==
  ASSUME KeysInv, NEW r \in ClaudeRequest, FailTransiently(r)
  PROVE  KeysInv' /\ BlocksHold
<1> DEFINE k == claudeOpen[r].key
           rec == [health[k] EXCEPT !.inFlight = health[k].inFlight - 1]
<1>1. CASE k = NoKey \/ claudeOpen[r].orphan
  <2>1. health' = health
    BY <1>1, ReleasedHealth DEF FailTransiently, Judge
  <2> QED BY <1>1, <2>1, UnjudgedSettles, SameBlocks DEF FailTransiently, Judge
<1>2. CASE k # NoKey /\ ~claudeOpen[r].orphan
  <2>1. k \in DOMAIN health /\ IsHealth(health[k]) /\ Release(r) = [health EXCEPT ![k] = rec]
    BY <1>2, ReleasedHealth
  <2>2. IsHealth(rec)
    BY <2>1, ReleasedRecord
  <2>3. Raises(rec, Stumbled(rec))
    BY <2>2, StumbleRaises DEF KeysInv
  <2>4. health' = [health EXCEPT ![k] = Failed(rec, r, Stumbled(rec))]
    <3> HIDE DEF rec
    <3>1. health' = [Release(r) EXCEPT ![k] = Failed(Release(r)[k], r, Stumbled(Release(r)[k]))]
      BY <1>2 DEF FailTransiently, Judge
    <3> QED BY <2>1, <3>1, Overwritten
  <2>5. /\ trippedSince' = trippedSince \cup Outstanding(k)
        /\ claudeOpen' = [claudeOpen EXCEPT ![r] = NoReservation("done")]
        /\ UNCHANGED << stickiness, claudeRoute, signatures, claudeClock >>
    BY <1>2 DEF FailTransiently, Judge
  <2> QED BY <1>2, <2>3, <2>4, <2>5, FailureSettles
<1> QED BY <1>1, <1>2

LEMMA ReleaseStep ==
  ASSUME KeysInv, NEW r \in ClaudeRequest, ReleaseClaude(r)
  PROVE  KeysInv' /\ BlocksHold
<1> DEFINE k == claudeOpen[r].key
           rec == [health[k] EXCEPT !.inFlight = health[k].inFlight - 1]
<1>0. /\ trippedSince' = trippedSince /\ stickiness' = stickiness
      /\ claudeOpen' = [claudeOpen EXCEPT ![r] = NoReservation("done")]
      /\ UNCHANGED << claudeRoute, signatures, claudeClock >>
  BY DEF ReleaseClaude, Judge
<1>1. CASE k = NoKey \/ claudeOpen[r].orphan
  <2>1. health' = health
    BY <1>1, ReleasedHealth DEF ReleaseClaude, Judge
  <2> QED BY <1>0, <1>1, <2>1, UnjudgedSettles, SameBlocks
<1>2. CASE k # NoKey /\ ~claudeOpen[r].orphan
  <2>1. k \in DOMAIN health /\ IsHealth(health[k]) /\ Release(r) = [health EXCEPT ![k] = rec]
    BY <1>2, ReleasedHealth
  <2>2. /\ IsHealth(rec) /\ rec.inFlight = health[k].inFlight - 1
        /\ rec.version = health[k].version /\ rec.earnedBy = health[k].earnedBy
        /\ Latest(rec) = Latest(health[k])
    BY <2>1, ReleasedRecord
  <2> HIDE DEF rec
  <2>3. health' = [health EXCEPT ![k] = rec]
    <3>1. health' = [Release(r) EXCEPT ![k] = Release(r)[k]]
      BY <1>2 DEF ReleaseClaude, Judge
    <3> QED BY <2>1, <3>1, Overwritten
  <2>4. rec.version = health[k].version + (IF FALSE THEN 1 ELSE 0)
    BY <2>1, <2>2 DEF IsHealth
  <2>5. PinsOwn(stickiness', signatures)
    BY <1>0 DEF KeysInv, PinsOwn
  <2>6. KeysInv'
    BY <1>0, <1>2, <2>2, <2>3, <2>4, <2>5, JudgedSettles, FALSE \in BOOLEAN
  <2>7. \A x \in DOMAIN health : Latest(health'[x]) = Latest(health[x])
    BY <2>1, <2>2, <2>3
  <2> QED BY <2>6, <2>7, SameBlocks
<1> QED BY <1>1, <1>2

LEMMA SuccessStep ==
  ASSUME KeysInv, NEW r \in ClaudeRequest, SucceedClaude(r)
  PROVE  KeysInv' /\ BlocksHold
<1> DEFINE k == claudeOpen[r].key
           rec == [health[k] EXCEPT !.inFlight = health[k].inFlight - 1]
           whole == Whole(rec, claudeOpen[r].version)
<1>0. /\ trippedSince' = trippedSince /\ claudeOpen[r].phase = "sent"
      /\ claudeOpen' = [claudeOpen EXCEPT ![r] = NoReservation("done")]
      /\ UNCHANGED << claudeRoute, signatures, claudeClock >>
  BY DEF SucceedClaude, Judge
<1>1. CASE k = NoKey \/ claudeOpen[r].orphan
  <2>1. health' = health /\ stickiness' = stickiness
    BY <1>1, ReleasedHealth DEF SucceedClaude, Judge
  <2> QED BY <1>0, <1>1, <2>1, UnjudgedSettles, SameBlocks
<1>2. CASE k # NoKey /\ ~claudeOpen[r].orphan
  <2>1. k \in DOMAIN health /\ IsHealth(health[k]) /\ Release(r) = [health EXCEPT ![k] = rec]
    BY <1>2, ReleasedHealth
  <2>2. /\ IsHealth(rec) /\ rec.inFlight = health[k].inFlight - 1
        /\ rec.version = health[k].version /\ rec.earnedBy = health[k].earnedBy
        /\ Latest(rec) = Latest(health[k])
    BY <2>1, ReleasedRecord
  <2> HIDE DEF rec
  <2>3. /\ IsHealth(whole) /\ whole.inFlight = rec.inFlight
        /\ whole.version = rec.version /\ whole.earnedBy \subseteq rec.earnedBy
    BY <2>2 DEF Whole, IsHealth, HealthFields
  <2>4. claudeOpen[r].version # rec.version => whole = rec
    BY DEF Whole
  <2> HIDE DEF whole
  <2>5. health' = [health EXCEPT ![k] = whole]
    <3>1. health' = [Release(r) EXCEPT ![k] = Whole(Release(r)[k], claudeOpen[r].version)]
      BY <1>2 DEF SucceedClaude, Judge
    <3> QED BY <2>1, <3>1, Overwritten DEF whole
  <2>6. whole.version = health[k].version + (IF FALSE THEN 1 ELSE 0)
    BY <2>1, <2>2, <2>3 DEF IsHealth
  <2>7. PinsOwn(stickiness', signatures)
    <3>1. CASE stickiness' = stickiness
      BY <3>1 DEF KeysInv, PinsOwn
    <3>2. CASE stickiness' # stickiness
      <4> DEFINE pin == [key |-> k, expiresAt |-> claudeClock + SESSION_STICKY_TTL,
                         cred |-> claudeOpen[r].cred]
                 s == claudeOpen[r].session
      <4>1. stickiness' = [t \in DOMAIN stickiness \cup {s} |->
                             IF t = s THEN pin ELSE stickiness[t]]
        BY <1>2, <3>2 DEF SucceedClaude, Judge
      <4>2. IsKey(pin.key, signatures) /\ pin.cred = signatures[pin.key[1]][pin.key[2]]
        BY <1>2, <2>1 DEF KeysInv, ReservationsOwn, RecordsOwn
      <4> HIDE DEF pin, s
      <4>3. ASSUME NEW t \in DOMAIN stickiness'
            PROVE  /\ IsKey(stickiness'[t].key, signatures)
                   /\ stickiness'[t].cred
                        = signatures[stickiness'[t].key[1]][stickiness'[t].key[2]]
        <5>1. CASE t = s
          <6>1. stickiness'[t] = pin
            BY <4>1, <5>1
          <6> QED BY <4>2, <6>1
        <5>2. CASE t # s
          <6>1. t \in DOMAIN stickiness /\ stickiness'[t] = stickiness[t]
            BY <4>1, <5>2
          <6> QED BY <6>1 DEF KeysInv, PinsOwn
        <5> QED BY <5>1, <5>2
      <4> QED BY <4>3 DEF PinsOwn
    <3> QED BY <3>1, <3>2
  <2>8. KeysInv'
    <3>1. whole.inFlight = health[k].inFlight - 1
      BY <2>2, <2>3
    <3>2. whole.earnedBy \subseteq health[k].earnedBy \cup {claudeOpen[r].cred}
      BY <2>2, <2>3
    <3> QED BY <1>0, <1>2, <2>3, <2>5, <2>6, <2>7, <3>1, <3>2, JudgedSettles, FALSE \in BOOLEAN
  <2>9. CASE whole = rec
    <3>1. \A x \in DOMAIN health : Latest(health'[x]) = Latest(health[x])
      BY <2>1, <2>2, <2>5, <2>9
    <3> QED BY <2>8, <3>1, SameBlocks
  <2>10. CASE whole # rec
    <3>1. r \notin trippedSince
      <4>1. claudeOpen[r].version = health[k].version
        BY <2>2, <2>4, <2>10
      <4> QED BY <1>2, <2>1, <4>1 DEF KeysInv, ReservationsOwn, IsHealth
    <3>2. claudeOpen'[r].phase = "done"
      BY <1>0 DEF KeysInv, NoReservation
    <3>3. \A x \in DOMAIN health : x # k => Latest(health'[x]) = Latest(health[x])
      BY <2>1, <2>5
    <3>4. ASSUME NEW x \in DOMAIN health, Latest(health'[x]) < Latest(health[x])
          PROVE  x = k
      <4>1. IsHealth(health[x])
        BY DEF KeysInv, RecordsOwn
      <4>2. Latest(health[x]) \in Int
        BY <4>1, RaisedBlocksLater DEF Raises, IsHealth
      <4> QED BY <3>3, <3>4, <4>2
    <3>5. BlocksHold
      BY <1>0, <3>1, <3>2, <3>4 DEF BlocksHold
    <3> QED BY <2>8, <3>5
  <2> QED BY <2>9, <2>10
<1> QED BY <1>1, <1>2

\* Moving a request without a key on, and pins that expire, change no evidence.
LEMMA MovesOn ==
  ASSUME NEW h, NEW sig, NEW open, DOMAIN open = ClaudeRequest,
         RecordsOwn(h, sig, open), ReservationsOwn(h, sig, open, trippedSince),
         NEW r \in ClaudeRequest,
         NEW to, \/ open[r].phase = "reading" /\ to = "routed"
                 \/ open[r].phase = "routed" /\ to = "sent",
         NEW open2, open2 = [open EXCEPT ![r].phase = to]
  PROVE  /\ RecordsOwn(h, sig, open2) /\ ReservationsOwn(h, sig, open2, trippedSince)
         /\ DOMAIN open2 = ClaudeRequest
<1>1. IsReservation(open[r])
  BY DEF ReservationsOwn
<1>2. /\ IsReservation(open2[r]) /\ open2[r].phase = to
      /\ open2[r].key = open[r].key /\ open2[r].orphan = open[r].orphan
      /\ open2[r].cred = open[r].cred /\ open2[r].version = open[r].version
  BY <1>1 DEF IsReservation, ReservationFields
<1>3. \A x \in ClaudeRequest : x # r => open2[x] = open[x]
  OBVIOUS
<1>4. \A k : Holders(k, open2) = Holders(k, open)
  BY <1>2, <1>3 DEF Holders
<1>5. RecordsOwn(h, sig, open2)
  BY <1>4 DEF RecordsOwn
<1>6. ReservationsOwn(h, sig, open2, trippedSince)
  BY <1>2, <1>3 DEF ReservationsOwn
<1> QED BY <1>5, <1>6

LEMMA RouteStep ==
  ASSUME KeysInv, NEW r \in ClaudeRequest, RouteClaude(r)
  PROVE  KeysInv' /\ BlocksHold
<1>0. claudeOpen[r].phase = "reading" /\ UNCHANGED << claudeRoute, claudeClock, trippedSince >>
  BY DEF RouteClaude
<1>1. PICK p \in ClaudeProfile, s \in Session \cup {NoSession} :
         /\ signatures' = [signatures EXCEPT ![p] = SignaturesOf(claudeRoute[p])]
         /\ IF Len(ClaudePool(claudeRoute[p])) <= 1
            THEN /\ health' = KeptHealth(p)
                 /\ stickiness' = KeptPins(p)
                 /\ claudeOpen' = [Orphaned(p) EXCEPT ![r].phase = "routed"]
            ELSE LET h == KeptHealth(p)
                     pins == Unexpired(KeptPins(p))
                 IN  \E k \in SelectableKeys(h, pins, p, s) :
                       LET used == HealthOf(h, k)
                       IN  /\ health' = [x \in DOMAIN h \cup {k} |->
                                           IF x = k THEN [used EXCEPT !.inFlight = @ + 1]
                                           ELSE h[x]]
                           /\ stickiness' = pins
                           /\ claudeOpen' = [Orphaned(p) EXCEPT ![r] =
                                 [phase |-> "routed", key |-> k, session |-> s,
                                  version |-> used.version, orphan |-> FALSE,
                                  cred |-> SignaturesOf(claudeRoute[p])[k[2]],
                                  reserve |-> claudeRoute[p].reserve]]
  BY DEF RouteClaude
<1> DEFINE h == KeptHealth(p)
           open == Orphaned(p)
           pins == Unexpired(KeptPins(p))
<1>2. /\ DOMAIN signatures' = ClaudeProfile /\ DOMAIN open = ClaudeRequest
      /\ RecordsOwn(h, signatures', open)
      /\ ReservationsOwn(h, signatures', open, trippedSince)
      /\ PinsOwn(KeptPins(p), signatures')
  BY <1>1, Reconciled
<1>3. open[r].phase = "reading"
  <2>1. IsReservation(claudeOpen[r])
    BY DEF KeysInv, ReservationsOwn
  <2> QED BY <1>0, <2>1 DEF Orphaned, IsReservation, ReservationFields
<1>4. \A x \in DOMAIN h : x \in DOMAIN health /\ h[x] = health[x]
  BY DEF KeptHealth
<1>5. claudeRoute \in [ClaudeProfile -> ClaudeRoute] /\ claudeClock \in Int
  BY DEF KeysInv
<1>6. CASE Len(ClaudePool(claudeRoute[p])) <= 1
  <2>1. /\ health' = h /\ stickiness' = KeptPins(p)
        /\ claudeOpen' = [open EXCEPT ![r].phase = "routed"]
    BY <1>1, <1>6
  <2>2. BlocksHold
    BY <1>4, <2>1, SameBlocks
  <2> HIDE DEF h, open
  <2>3. /\ RecordsOwn(h, signatures', claudeOpen')
        /\ ReservationsOwn(h, signatures', claudeOpen', trippedSince)
        /\ DOMAIN claudeOpen' = ClaudeRequest
    BY <1>2, <1>3, <2>1, MovesOn
  <2>4. KeysInv'
    BY <1>0, <1>2, <1>5, <2>1, <2>3 DEF KeysInv
  <2> QED BY <2>2, <2>4
<1>7. CASE ~(Len(ClaudePool(claudeRoute[p])) <= 1)
  <2>1. PICK k \in SelectableKeys(h, pins, p, s) :
          /\ health' = [x \in DOMAIN h \cup {k} |->
                          IF x = k THEN [HealthOf(h, k) EXCEPT !.inFlight = HealthOf(h, k).inFlight + 1]
                          ELSE h[x]]
          /\ stickiness' = pins
          /\ claudeOpen' = [open EXCEPT ![r] =
                [phase |-> "routed", key |-> k, session |-> s,
                 version |-> HealthOf(h, k).version, orphan |-> FALSE,
                 cred |-> SignaturesOf(claudeRoute[p])[k[2]],
                 reserve |-> claudeRoute[p].reserve]]
    BY <1>1, <1>7
  <2> DEFINE used == HealthOf(h, k)
             taken == [used EXCEPT !.inFlight = used.inFlight + 1]
             o == [phase |-> "routed", key |-> k, session |-> s,
                   version |-> used.version, orphan |-> FALSE,
                   cred |-> SignaturesOf(claudeRoute[p])[k[2]],
                   reserve |-> claudeRoute[p].reserve]
  <2>2. k # NoKey /\ \E id \in DOMAIN SignaturesOf(claudeRoute[p]) : k = << p, id >>
    BY <1>5, SelectedIsKey
  <2>3. PICK id \in DOMAIN SignaturesOf(claudeRoute[p]) : k = << p, id >>
    BY <2>2
  <2>4. signatures'[p] = SignaturesOf(claudeRoute[p])
    BY <1>1 DEF KeysInv
  <2>5. IsKey(k, signatures') /\ SignaturesOf(claudeRoute[p])[k[2]] = signatures'[k[1]][k[2]]
    BY <2>3, <2>4 DEF IsKey
  <2>6. /\ health' = [x \in DOMAIN h \cup {k} |-> IF x = k THEN taken ELSE h[x]]
        /\ claudeOpen' = [open EXCEPT ![r] = o]
    BY <2>1
  <2>7. IsHealth(used)
    <3>1. CASE k \in DOMAIN h
      BY <1>2, <3>1 DEF HealthOf, RecordsOwn
    <3>2. CASE k \notin DOMAIN h
      BY <3>2 DEF HealthOf, Fresh, IsHealth, HealthFields
    <3> QED BY <3>1, <3>2
  <2>8. /\ IsReservation(o) /\ o.key = k /\ ~o.orphan /\ o.phase = "routed"
        /\ o.cred = signatures'[k[1]][k[2]] /\ o.version = used.version
    <3> HIDE DEF used
    <3> QED BY <2>5, <2>7 DEF IsReservation, ReservationFields, IsHealth
  <2>9. /\ RecordsOwn(health', signatures', claudeOpen')
        /\ ReservationsOwn(health', signatures', claudeOpen', trippedSince)
    <3>1. used = HealthOf(h, k) /\ taken = [used EXCEPT !.inFlight = used.inFlight + 1]
      OBVIOUS
    <3> HIDE DEF o, h, open, used, taken
    <3>2. Extends(health', h, k, taken)
      BY <2>6 DEF Extends
    <3>3. OnlyChanges(claudeOpen', open, r, o)
      BY <1>2, <2>6 DEF OnlyChanges
    <3> QED BY <1>2, <1>3, <2>2, <2>5, <2>8, <3>1, <3>2, <3>3, KeyReserved
  <2>10. PinsOwn(stickiness', signatures') /\ DOMAIN claudeOpen' = ClaudeRequest
    BY <1>2, <2>1 DEF PinsOwn, Unexpired
  <2>11. KeysInv'
    BY <1>0, <1>2, <1>5, <2>9, <2>10 DEF KeysInv
  <2>12. CASE k \in DOMAIN h
    <3>1. Latest(taken) = Latest(used) /\ used = health[k]
      <4>1. used = health[k]
        BY <1>4, <2>12 DEF HealthOf
      <4> HIDE DEF used
      <4> QED BY <2>7, <4>1 DEF Latest, IsHealth, HealthFields
    <3>2. \A x \in DOMAIN health' : Latest(health'[x]) = Latest(health[x])
      <4> HIDE DEF taken, used, h
      <4> QED BY <1>4, <2>6, <2>12, <3>1
    <3>3. BlocksHold
      BY <3>2, SameBlocks
    <3> QED BY <2>11, <3>3
  <2>13. CASE k \notin DOMAIN h
    <3>1. k \in DOMAIN health => signatures'[k[1]][k[2]] # signatures[k[1]][k[2]]
      BY <2>3, <2>4, <2>13 DEF KeptHealth, Replaced
    <3>2. \A x \in DOMAIN health' : x # k => x \in DOMAIN health /\ health'[x] = health[x]
      <4> HIDE DEF taken, h
      <4> QED BY <1>4, <2>6
    <3>3. \A x \in DOMAIN health : ~(Latest(health[x]) < Latest(health[x]))
      <4> SUFFICES ASSUME NEW x \in DOMAIN health PROVE ~(Latest(health[x]) < Latest(health[x]))
        OBVIOUS
      <4>1. IsHealth(health[x])
        BY DEF KeysInv, RecordsOwn
      <4>2. Latest(health[x]) \in Int
        BY <4>1, RaisedBlocksLater DEF Raises, IsHealth
      <4> QED BY <4>2
    <3>4. BlocksHold
      BY <3>1, <3>2, <3>3 DEF BlocksHold
    <3> QED BY <2>11, <3>4
  <2> QED BY <2>12, <2>13
<1> QED BY <1>6, <1>7

LEMMA KeysSteps == KeysInv /\ [KeysNext]_keyVars => KeysInv' /\ BlocksHold
<1> SUFFICES ASSUME KeysInv, [KeysNext]_keyVars PROVE KeysInv' /\ BlocksHold
  OBVIOUS
<1>1. ASSUME NEW r \in ClaudeRequest, SendClaude(r) PROVE KeysInv' /\ BlocksHold
  <2>1. KeysInv'
    BY <1>1, MovesOn DEF SendClaude, KeysInv
  <2>2. BlocksHold
    BY <1>1, SameBlocks DEF SendClaude
  <2> QED BY <2>1, <2>2
<1>2. CASE EditClaudeRoute
  <2>1. claudeRoute' \in [ClaudeProfile -> ClaudeRoute]
    BY <1>2 DEF EditClaudeRoute, KeysInv
  <2>2. KeysInv'
    BY <1>2, <2>1 DEF EditClaudeRoute, KeysInv
  <2> QED BY <1>2, <2>2, SameBlocks DEF EditClaudeRoute
<1>3. CASE PassClaudeTime
  <2>1. claudeClock' \in Int
    BY <1>3 DEF PassClaudeTime, KeysInv
  <2>2. KeysInv'
    BY <1>3, <2>1 DEF PassClaudeTime, KeysInv
  <2> QED BY <1>3, <2>2, SameBlocks DEF PassClaudeTime
<1>4. CASE UNCHANGED keyVars
  <2>1. KeysInv'
    BY <1>4 DEF keyVars, KeysInv
  <2> QED BY <1>4, <2>1, SameBlocks DEF keyVars
<1> QED
  BY <1>1, <1>2, <1>3, <1>4, RouteStep, SuccessStep, RefusalStep, RateLimitStep, StumbleStep,
     ReleaseStep DEF KeysNext

\* Evidence, pins and load are of the credential a key was last routed with, and
\* no answer that is older than a failure of the key lifts its block.
THEOREM KeysAnswer == GatewaySpec => KeysAnswerForThemselves
<1>1. GatewayInit => KeysInv
  BY KeysStart DEF GatewayInit
<1>2. KeysInv /\ [GatewayNext]_gatewayVars => KeysInv' /\ (BlocksHold \/ UNCHANGED keyVars)
  BY KeysSteps DEF GatewayNext, gatewayVars
<1>3. KeysInv => EvidenceFollowsCredential
  <2> SUFFICES ASSUME KeysInv PROVE EvidenceFollowsCredential
    OBVIOUS
  <2>1. \A k : IsKey(k, signatures) => k[2] \in DOMAIN signatures[k[1]]
    BY DEF IsKey
  <2> QED BY <2>1 DEF KeysInv, RecordsOwn, PinsOwn, EvidenceFollowsCredential, Holders
<1>4. KeysInv /\ [GatewayNext]_gatewayVars => [BlocksHold]_keyVars
  BY <1>2
<1>5. GatewaySpec => []EvidenceFollowsCredential
  BY <1>1, <1>2, <1>3, PTL DEF GatewaySpec
<1>6. GatewaySpec => [][BlocksHold]_keyVars
  BY <1>1, <1>2, <1>4, PTL DEF GatewaySpec
<1>7. [][BlocksHold]_keyVars => BlocksOutliveLateSuccesses
  BY PTL DEF BlocksHold, BlocksOutliveLateSuccesses
<1> QED BY <1>5, <1>6, <1>7, PTL DEF KeysAnswerForThemselves

-----------------------------------------------------------------------------
(* StateRecovery *)

\* A request that is still out has no outcome.
TurnFields == {"phase", "canonical", "continues", "inSession", "arrived", "source", "target",
               "generation", "targetHealthy", "enabled", "strict", "agentrouter", "try",
               "tried", "sent", "evaluated", "generic", "trigger", "repaired", "outcome",
               "refusal", "fair"}

\* The row of a conversation is the claim that outranks all others made on it.
RowOf(row, c) ==
  row.domain = c.domain /\ row.generation = c.generation /\ row.version = c.arrived

RowsInv ==
  /\ DOMAIN claims = Turn \cup {SessionOf}
  /\ \A i \in DOMAIN claims : \A c \in claims[i] : c.generation \in Nat /\ c.arrived \in Nat
  /\ \A i \in DOMAIN claims : i \notin DOMAIN bindings => claims[i] = {}
  /\ \A i \in DOMAIN bindings :
       /\ i \in DOMAIN claims
       /\ \E c \in claims[i] : RowOf(bindings[i], c) /\ \A d \in claims[i] : Outranks(c, d)

RecoveryInv ==
  /\ DOMAIN turns = Turn
  /\ \A r \in Turn :
       /\ DOMAIN turns[r] = TurnFields
       /\ turns[r].phase \in {"idle", "arrived", "sent"} => turns[r].outcome = ""
       /\ turns[r].phase \in {"arrived", "sent"} => turns[r].arrived \in Nat
       /\ turns[r].phase = "sent" => /\ turns[r].generation \in Nat
                                     /\ turns[r].continues \in Turn \cup {Nowhere}
  /\ started \in Nat
  /\ RowsInv

LEMMA AttemptKeeps ==
  ASSUME NEW t, DOMAIN t = TurnFields, NEW try
  PROVE  /\ DOMAIN Attempt(t, try) = TurnFields
         /\ Attempt(t, try).phase = t.phase /\ Attempt(t, try).outcome = t.outcome
         /\ Attempt(t, try).generation = t.generation
         /\ Attempt(t, try).arrived = t.arrived /\ Attempt(t, try).continues = t.continues
  BY DEF Attempt, TurnFields

LEMMA IdleTurn == DOMAIN Idle = TurnFields /\ Idle.phase = "idle" /\ Idle.outcome = ""
  BY DEF Idle, TurnFields

IsDone(t) == DOMAIN t = TurnFields /\ t.phase = "done"

LEMMA FinishIsDone ==
  \A t : /\ \A refusal : IsDone(Finish(t, "failed", refusal))
         /\ IsDone(Finish(t, "success", ""))
  BY IdleTurn DEF Finish, TurnFields, IsDone

LEMMA RecoveryStarts == RecoveryInit => RecoveryInv
<1> SUFFICES ASSUME RecoveryInit PROVE RecoveryInv
  OBVIOUS
<1>1. DOMAIN turns = Turn /\ \A r \in Turn : turns[r] = Idle
  BY DEF RecoveryInit
<1>2. bindings = << >>
  BY DEF RecoveryInit
<1>3. \A r \in Turn : /\ DOMAIN turns[r] = TurnFields
                       /\ turns[r].phase = "idle" /\ turns[r].outcome = ""
  BY <1>1, IdleTurn
<1>4. RowsInv /\ started \in Nat
  BY <1>2 DEF RecoveryInit, RowsInv
<1>5. \A r \in Turn : turns[r].phase \notin {"arrived", "sent"}
  BY <1>3
<1> QED BY <1>1, <1>3, <1>4, <1>5, Zenon DEF RecoveryInv

LEMMA OneTurnChanges ==
  ASSUME RecoveryInv, NEW r \in Turn, NEW t, DOMAIN t = TurnFields,
         t.phase \in {"arrived", "sent", "done"},
         t.phase \in {"arrived", "sent"} => t.outcome = "" /\ t.arrived \in Nat,
         t.phase = "sent" => t.generation \in Nat /\ t.continues \in Turn \cup {Nowhere},
         turns' = [turns EXCEPT ![r] = t], started' \in Nat, UNCHANGED << bindings, claims >>
  PROVE  RecoveryInv'
<1>1. RowsInv'
  BY DEF RecoveryInv, RowsInv
<1>2. /\ DOMAIN turns' = Turn /\ turns'[r] = t
      /\ \A x \in Turn : x # r => turns'[x] = turns[x]
  BY DEF RecoveryInv
<1> QED BY <1>1, <1>2 DEF RecoveryInv

\* A success writes its row where it outranks what is written, and nowhere else.
LEMMA SuccessRanks ==
  ASSUME RecoveryInv, NEW r \in Turn, SucceedTurn(r)
  PROVE  RowsInv'
<1> DEFINE t == turns[r]
           row == [domain |-> t.target, version |-> Version(t),
                   generation |-> t.generation + (IF t.trigger THEN 1 ELSE 0),
                   expiresAt |-> recoveryClock + BindingTTL]
           identities == IdentityHashes(t) \cup {r}
           claim == [domain |-> t.target, generation |-> row.generation, arrived |-> t.arrived]
<1>1. /\ bindings' = Bound(identities, row)
      /\ claims' = [i \in DOMAIN claims |->
                      IF i \notin DOMAIN bindings' THEN {}
                      ELSE claims[i] \cup (IF i \in identities THEN {claim} ELSE {})]
      /\ t.phase = "sent"
  BY DEF SucceedTurn
<1>2. t.generation \in Nat /\ t.arrived \in Nat /\ t.continues \in Turn \cup {Nowhere}
  BY <1>1 DEF RecoveryInv
<1>3. RowOf(row, claim) /\ claim.generation \in Nat /\ claim.arrived \in Nat
  BY <1>2 DEF RowOf, Version
<1>4. identities \subseteq Turn \cup {SessionOf}
  BY <1>2 DEF IdentityHashes
<1> HIDE DEF row, claim, identities, t
<1>5. \A i \in DOMAIN bindings' :
        \/ /\ i \in identities /\ bindings'[i] = row
           /\ i \in DOMAIN bindings => Supersedes(row, bindings[i])
        \/ /\ i \in DOMAIN bindings /\ bindings'[i] = bindings[i]
           /\ i \in identities => ~Supersedes(row, bindings[i])
  BY <1>1 DEF Bound, Alive
<1>6. DOMAIN claims = Turn \cup {SessionOf} /\ DOMAIN claims' = DOMAIN claims
  BY <1>1 DEF RecoveryInv, RowsInv
<1>7. \A i \in DOMAIN claims : \A c \in claims[i] : c.generation \in Nat /\ c.arrived \in Nat
  BY DEF RecoveryInv, RowsInv
<1>8. ASSUME NEW i \in DOMAIN bindings'
      PROVE  /\ i \in DOMAIN claims'
             /\ \E c \in claims'[i] : RowOf(bindings'[i], c) /\ \A d \in claims'[i] : Outranks(c, d)
  <2>1. i \in DOMAIN claims
    BY <1>4, <1>5, <1>6 DEF RecoveryInv, RowsInv
  <2>2. claims'[i] = claims[i] \cup (IF i \in identities THEN {claim} ELSE {})
    BY <1>1, <2>1
  <2>3. i \in DOMAIN bindings =>
          \E c \in claims[i] : RowOf(bindings[i], c) /\ \A d \in claims[i] : Outranks(c, d)
    BY DEF RecoveryInv, RowsInv
  <2>4. Outranks(claim, claim)
    BY <1>3 DEF Outranks
  <2>5. CASE i \notin DOMAIN bindings
    <3>1. bindings'[i] = row /\ i \in identities
      BY <1>5, <2>5
    <3>2. claims[i] = {}
      BY <2>1, <2>5 DEF RecoveryInv, RowsInv
    <3> QED BY <1>3, <1>6, <2>1, <2>2, <2>4, <3>1, <3>2
  <2>6. CASE i \in DOMAIN bindings
    <3>1. PICK c \in claims[i] : RowOf(bindings[i], c) /\ \A d \in claims[i] : Outranks(c, d)
      BY <2>3, <2>6
    <3>2. /\ bindings[i].generation = c.generation /\ bindings[i].version = c.arrived
          /\ row.generation = claim.generation /\ row.version = claim.arrived
      BY <1>3, <3>1 DEF RowOf
    <3>3. c.generation \in Nat /\ c.arrived \in Nat
      BY <1>7, <2>1
    <3>4. CASE i \in identities /\ bindings'[i] = row /\ Supersedes(row, bindings[i])
      <4>1. Outranks(claim, c)
        BY <3>2, <3>4 DEF Supersedes, Outranks
      <4>2. \A d \in claims[i] : Outranks(claim, d)
        BY <1>3, <1>7, <2>1, <3>1, <3>3, <4>1 DEF Outranks
      <4> QED BY <1>3, <1>6, <2>1, <2>2, <2>4, <3>4, <4>2
    <3>5. CASE bindings'[i] = bindings[i] /\ (i \in identities => ~Supersedes(row, bindings[i]))
      <4>1. i \in identities => Outranks(c, claim)
        BY <1>3, <3>2, <3>3, <3>5 DEF Supersedes, Outranks
      <4> QED BY <1>6, <2>1, <2>2, <3>1, <3>5, <4>1
    <3> QED BY <1>5, <2>6, <3>4, <3>5
  <2> QED BY <2>5, <2>6
<1>9. \A i \in DOMAIN claims' : \A c \in claims'[i] : c.generation \in Nat /\ c.arrived \in Nat
  BY <1>1, <1>3, <1>7
<1>10. \A i \in DOMAIN claims' : i \notin DOMAIN bindings' => claims'[i] = {}
  BY <1>1
<1> QED BY <1>6, <1>8, <1>9, <1>10 DEF RowsInv

LEMMA RecoverySteps == RecoveryInv /\ [RecoveryNext]_recoveryVars => RecoveryInv'
<1> SUFFICES ASSUME RecoveryInv, [RecoveryNext]_recoveryVars PROVE RecoveryInv'
  OBVIOUS
<1>0. ASSUME NEW r \in Turn, ArriveTurn(r) PROVE RecoveryInv'
  <2> DEFINE t == [Idle EXCEPT !.phase = "arrived", !.arrived = started + 1]
  <2>1. turns' = [turns EXCEPT ![r] = t] /\ UNCHANGED << bindings, claims >>
    BY <1>0 DEF ArriveTurn
  <2>2. started \in Nat /\ started' = started + 1
    BY <1>0 DEF ArriveTurn, RecoveryInv
  <2>3. /\ DOMAIN t = TurnFields /\ t.phase = "arrived" /\ t.outcome = ""
        /\ t.arrived = started + 1
    BY DEF Idle, TurnFields
  <2> HIDE DEF t
  <2>4. started + 1 \in Nat
    BY <2>2
  <2>5. t.arrived \in Nat /\ started' \in Nat
    BY <2>2, <2>3, <2>4, Zenon
  <2> QED BY <2>1, <2>3, <2>5, OneTurnChanges
<1>1. ASSUME NEW r \in Turn, SendTurn(r) PROVE RecoveryInv'
  <2>1. PICK s \in Situation, target \in Domain, remembered \in Domain \cup {Nowhere},
             continues \in {Nowhere} \cup {x \in Turn : turns[x].outcome = "success"} :
         LET canonical == [s.body EXCEPT !.previous = continues # Nowhere]
             fresh == [Idle EXCEPT
                 !.phase = "sent", !.canonical = canonical, !.continues = continues,
                 !.inSession = s.inSession, !.arrived = turns[r].arrived, !.target = target,
                 !.enabled = s.enabled, !.strict = s.strict, !.agentrouter = s.agentrouter]
             binding == findProviderStateBinding(fresh)
         IN  turns' = [turns EXCEPT ![r] =
                Attempt([fresh EXCEPT
                    !.source = IF binding.domain # Nowhere THEN binding.domain ELSE remembered,
                    !.generation = binding.generation,
                    !.targetHealthy = HealthKey(target) \in DOMAIN Alive(evidence)],
                    Plain("original"))]
    BY <1>1 DEF SendTurn
  <2> DEFINE canonical == [s.body EXCEPT !.previous = continues # Nowhere]
             fresh == [Idle EXCEPT
                 !.phase = "sent", !.canonical = canonical, !.continues = continues,
                 !.inSession = s.inSession, !.arrived = turns[r].arrived, !.target = target,
                 !.enabled = s.enabled, !.strict = s.strict, !.agentrouter = s.agentrouter]
             binding == findProviderStateBinding(fresh)
             source == IF binding.domain # Nowhere THEN binding.domain ELSE remembered
             healthy == HealthKey(target) \in DOMAIN Alive(evidence)
             t == [fresh EXCEPT !.source = source, !.generation = binding.generation,
                                !.targetHealthy = healthy]
  <2>2. /\ DOMAIN fresh = TurnFields /\ fresh.phase = "sent" /\ fresh.outcome = ""
        /\ fresh.arrived = turns[r].arrived /\ fresh.continues = continues
    <3> HIDE DEF canonical
    <3> QED BY DEF Idle, TurnFields
  <2>3. /\ turns' = [turns EXCEPT ![r] = Attempt(t, Plain("original"))]
        /\ UNCHANGED << bindings, claims, started >>
    BY <1>1, <2>1 DEF SendTurn
  <2>7. turns[r].arrived \in Nat /\ started \in Nat
    BY <1>1 DEF SendTurn, RecoveryInv
  <2> HIDE DEF fresh
  <2>4. binding.generation \in Nat
    <3>1. \A i \in DOMAIN bindings : bindings[i].generation \in Nat
      <4> SUFFICES ASSUME NEW i \in DOMAIN bindings PROVE bindings[i].generation \in Nat
        OBVIOUS
      <4>1. i \in DOMAIN claims /\ \E c \in claims[i] : RowOf(bindings[i], c)
        BY DEF RecoveryInv, RowsInv
      <4>2. \A c \in claims[i] : c.generation \in Nat
        BY <4>1 DEF RecoveryInv, RowsInv
      <4> QED BY <4>1, <4>2 DEF RowOf
    <3> QED BY <3>1 DEF findProviderStateBinding, IdentityHashes
  <2> HIDE DEF binding, source, healthy
  <2>5. /\ DOMAIN t = TurnFields /\ t.phase = "sent" /\ t.outcome = ""
        /\ t.generation = binding.generation /\ t.arrived = turns[r].arrived
        /\ t.continues = continues
    BY <2>2 DEF TurnFields
  <2> HIDE DEF t
  <2> DEFINE u == Attempt(t, Plain("original"))
  <2>6. /\ DOMAIN u = TurnFields /\ u.phase = "sent" /\ u.outcome = ""
        /\ u.generation \in Nat /\ u.arrived \in Nat /\ u.continues \in Turn \cup {Nowhere}
    BY <2>4, <2>5, <2>7, AttemptKeeps
  <2> HIDE DEF u
  <2> QED BY <2>3, <2>6, <2>7, OneTurnChanges DEF u
<1>2. ASSUME NEW r \in Turn, SucceedTurn(r) PROVE RecoveryInv'
  <2>1. RowsInv'
    BY <1>2, SuccessRanks
  <2>2. turns' = [turns EXCEPT ![r] = Finish(turns[r], "success", "")] /\ UNCHANGED started
    BY <1>2 DEF SucceedTurn
  <2>3. /\ DOMAIN turns' = Turn /\ turns'[r] = Finish(turns[r], "success", "")
        /\ \A x \in Turn : x # r => turns'[x] = turns[x]
    BY <2>2 DEF RecoveryInv
  <2>4. IsDone(turns'[r])
    BY <2>3, FinishIsDone
  <2> QED BY <2>1, <2>2, <2>3, <2>4 DEF RecoveryInv, IsDone
<1>3. ASSUME NEW r \in Turn, EndTurn(r) PROVE RecoveryInv'
  <2> DEFINE t == Finish([turns[r] EXCEPT !.fair = FALSE], "failed", "")
  <2>1. turns' = [turns EXCEPT ![r] = t] /\ UNCHANGED << bindings, claims, started >>
    BY <1>3 DEF EndTurn
  <2>2. IsDone(t)
    BY FinishIsDone
  <2> HIDE DEF t
  <2>3. started \in Nat
    BY DEF RecoveryInv
  <2> QED BY <2>1, <2>2, <2>3, OneTurnChanges DEF IsDone
<1>4. ASSUME NEW r \in Turn, RefuseTurn(r) PROVE RecoveryInv'
  <2> DEFINE t == turns[r]
  <2>1. /\ t.phase = "sent" /\ UNCHANGED << bindings, claims, started >>
        /\ started \in Nat
    BY <1>4 DEF RefuseTurn, RecoveryInv
  <2>0. PICK answer \in Codes \cup {"refused", "other"} :
          LET judged == ~TakesRepair(t, answer) /\ ~GivesUp(t, answer)
              generic == t.generic \/ (judged /\ Unlocks(t, answer))
              honest == answer \in HonestAnswers(t)
              next == IF GivesUp(t, answer) THEN {} ELSE NextTry(t, answer, generic)
              told == [t EXCEPT
                  !.fair = @ /\ honest,
                  !.generic = generic,
                  !.evaluated = @ \/ judged,
                  !.trigger = @ \/ generic \/ (TakesRepair(t, answer) /\ ~GivesUp(t, answer))]
          IN  turns' = [turns EXCEPT ![r] =
                    IF next = {} THEN Finish(told, "failed", answer)
                    ELSE Attempt(told, CHOOSE f \in next : TRUE)]
    BY <1>4, Zenon DEF RefuseTurn
  <2> DEFINE judged == ~TakesRepair(t, answer) /\ ~GivesUp(t, answer)
             generic == t.generic \/ (judged /\ Unlocks(t, answer))
             fair == t.fair /\ answer \in HonestAnswers(t)
             evaluated == t.evaluated \/ judged
             trigger == t.trigger \/ generic \/ (TakesRepair(t, answer) /\ ~GivesUp(t, answer))
             next == IF GivesUp(t, answer) THEN {} ELSE NextTry(t, answer, generic)
             told == [t EXCEPT !.fair = fair, !.generic = generic,
                               !.evaluated = evaluated, !.trigger = trigger]
             u == IF next = {} THEN Finish(told, "failed", answer)
                  ELSE Attempt(told, CHOOSE f \in next : TRUE)
  <2>2. /\ DOMAIN t = TurnFields /\ t.outcome = "" /\ t.generation \in Nat
        /\ t.arrived \in Nat /\ t.continues \in Turn \cup {Nowhere}
    BY <2>1 DEF RecoveryInv
  <2> HIDE DEF t, fair, generic, evaluated, trigger
  <2>3. /\ DOMAIN told = TurnFields /\ told.phase = "sent" /\ told.outcome = ""
        /\ told.generation = t.generation /\ told.arrived = t.arrived
        /\ told.continues = t.continues
    BY <2>1, <2>2 DEF TurnFields
  <2>4. turns' = [turns EXCEPT ![r] = u]
    BY <2>0, Zenon DEF fair, generic, evaluated, trigger, t
  <2> HIDE DEF told, next
  <2>5. /\ DOMAIN u = TurnFields /\ u.phase \in {"sent", "done"}
        /\ u.phase = "sent" => /\ u.outcome = "" /\ u.generation \in Nat
                               /\ u.arrived \in Nat /\ u.continues \in Turn \cup {Nowhere}
    <3>1. CASE next = {}
      BY <3>1, FinishIsDone DEF IsDone
    <3>2. CASE next # {}
      BY <2>2, <2>3, <3>2, AttemptKeeps
    <3> QED BY <3>1, <3>2
  <2> HIDE DEF u
  <2> QED BY <2>1, <2>4, <2>5, OneTurnChanges
<1>5. ASSUME NEW r \in Turn, RepairTurn(r) PROVE RecoveryInv'
  <2> DEFINE t == turns[r]
             again == [t EXCEPT !.repaired = TRUE, !.fair = FALSE, !.trigger = TRUE,
                                !.sent = Append(t.sent, WithoutCompactionIds(Last(t.sent)))]
             lost == Finish([t EXCEPT !.fair = FALSE], "failed", "")
  <2>1. /\ t.phase = "sent" /\ UNCHANGED << bindings, claims, started >>
        /\ started \in Nat
        /\ turns' = [turns EXCEPT ![r] = again] \/ turns' = [turns EXCEPT ![r] = lost]
    BY <1>5 DEF RepairTurn, RecoveryInv
  <2>2. /\ DOMAIN t = TurnFields /\ t.outcome = "" /\ t.generation \in Nat
        /\ t.arrived \in Nat /\ t.continues \in Turn \cup {Nowhere}
    BY <2>1 DEF RecoveryInv
  <2>3. /\ DOMAIN again = TurnFields /\ again.phase = "sent" /\ again.outcome = ""
        /\ again.generation = t.generation /\ again.arrived = t.arrived
        /\ again.continues = t.continues
    <3> HIDE DEF t
    <3> QED BY <2>1, <2>2 DEF TurnFields
  <2>4. DOMAIN lost = TurnFields /\ lost.phase = "done"
    <3> HIDE DEF t
    <3> QED BY FinishIsDone DEF IsDone
  <2> HIDE DEF t, again, lost
  <2> QED BY <2>1, <2>2, <2>3, <2>4, OneTurnChanges
<1>6. CASE PassRecoveryTime
  BY <1>6 DEF PassRecoveryTime, RecoveryInv, RowsInv
<1>7. CASE UNCHANGED recoveryVars
  BY <1>7 DEF recoveryVars, RecoveryInv, RowsInv
<1> QED BY <1>0, <1>1, <1>2, <1>3, <1>4, <1>5, <1>6, <1>7 DEF RecoveryNext

\* Whoever finishes first, a conversation is bound to what the request found that
\* knew of the most migrations and, among those, arrived last.
THEOREM BindingsInOrder == GatewaySpec => []BindingsIgnoreFinishOrder
<1>1. GatewayInit => RecoveryInv
  BY RecoveryStarts DEF GatewayInit
<1>2. RecoveryInv /\ [GatewayNext]_gatewayVars => RecoveryInv'
  BY RecoverySteps DEF GatewayNext, gatewayVars, recoveryVars
<1>3. RecoveryInv => BindingsIgnoreFinishOrder
  BY DEF RecoveryInv, RowsInv, RowOf, BindingsIgnoreFinishOrder
<1> QED BY <1>1, <1>2, <1>3, PTL DEF GatewaySpec

-----------------------------------------------------------------------------
(* What a conversation sheds: StatePortability and StateRecovery *)

\* The inputs that bodies have.
Inputs == UNION {[places -> Items] : places \in SUBSET Nat}

\* Items at some places of a body's input make an input.
LEMMA MadeOf ==
  ASSUME NEW body \in Bodies, NEW places \in SUBSET DOMAIN body.input, NEW made,
         \A n \in places : made[n] \in Items
  PROVE  [n \in places |-> made[n]] \in Inputs
<1>1. PICK all \in SUBSET Nat : body.input \in [all -> Items]
  BY DEF Bodies
<1>2. places \in SUBSET Nat /\ [n \in places |-> made[n]] \in [places -> Items]
  BY <1>1
<1> QED BY <1>2 DEF Inputs

LEMMA BodyIs ==
  ASSUME NEW body \in Bodies
  PROVE  /\ body.input \in Inputs /\ body.previous \in BOOLEAN /\ body.meta \in BOOLEAN
         /\ body.cacheKey \in {"none", "client", "target"} /\ body.store \in BOOLEAN
         /\ \A n \in DOMAIN body.input : body.input[n] \in Items
         /\ ItemsOf(body) = {body.input[n] : n \in DOMAIN body.input}
<1>1. PICK all \in SUBSET Nat : body.input \in [all -> Items]
  BY DEF Bodies
<1> QED BY <1>1 DEF Bodies, Inputs, ItemsOf, ToSet

LEMMA OtherInput ==
  ASSUME NEW body \in Bodies, NEW input \in Inputs
  PROVE  LET next == [body EXCEPT !.input = input]
         IN  next \in Bodies /\ next.input = input /\ next.previous = body.previous
BY BodyIs DEF Bodies, Inputs

\* A client's body.
LEMMA ClientBody ==
  ASSUME NEW s \in Situation, NEW continues \in BOOLEAN
  PROVE  [s.body EXCEPT !.previous = continues] \in Bodies
<1>1. s.body.input \in [1..Len(s.body.input) -> Items] /\ 1..Len(s.body.input) \in SUBSET Nat
  BY SituationAssumption
<1>2. s.body.input \in Inputs BY <1>1 DEF Inputs
<1> QED BY <1>2, SituationAssumption DEF Bodies, Inputs

\* What of a body has some type, an attempt at it had before.
NoNewTypes(next, body) == \A type : HasType(next, type) => HasType(body, type)

LEMMA ItemsMapped ==
  ASSUME NEW body \in Bodies, NEW made,
         \A n \in DOMAIN body.input : made[n] \in Items /\ made[n].type = body.input[n].type
  PROVE  LET next == [body EXCEPT !.input = [n \in DOMAIN body.input |-> made[n]]]
         IN  /\ next \in Bodies /\ NoNewTypes(next, body)
             /\ next.previous = body.previous
<1> DEFINE input == [n \in DOMAIN body.input |-> made[n]]
           next == [body EXCEPT !.input = input]
<1>1. input \in Inputs BY MadeOf
<1>2. DOMAIN input = DOMAIN body.input /\ \A n \in DOMAIN body.input : input[n].type = body.input[n].type
  OBVIOUS
<1> HIDE DEF input
<1>3. next \in Bodies /\ next.input = input /\ next.previous = body.previous
  BY <1>1, OtherInput
<1> HIDE DEF next
<1>4. NoNewTypes(next, body)
  BY <1>2, <1>3, BodyIs DEF NoNewTypes, HasType
<1> QED BY <1>3, <1>4 DEF next, input

LEMMA ItemChanged ==
  ASSUME NEW i \in Items, NEW enc \in {"none", "valid", "malformed", "readable", "opaque"}, NEW id \in BOOLEAN
  PROVE  /\ [i EXCEPT !.enc = enc, !.id = id] \in Items
         /\ [i EXCEPT !.enc = enc, !.id = id].type = i.type
         /\ [i EXCEPT !.id = id] \in Items /\ [i EXCEPT !.id = id].type = i.type
BY DEF Items

LEMMA CpaIs ==
  ASSUME NEW body \in Bodies
  PROVE  /\ applyCpaCleanup(body) \in Bodies /\ NoNewTypes(applyCpaCleanup(body), body)
         /\ applyCpaCleanup(body).previous = body.previous
<1> DEFINE made == [n \in DOMAIN body.input |->
             IF body.input[n].type # "reasoning" \/ isValidEnvelope(body.input[n])
             THEN body.input[n]
             ELSE [body.input[n] EXCEPT !.enc = "none", !.id = body.input[n].id /\ body.store]]
<1>1. \A n \in DOMAIN body.input : made[n] \in Items /\ made[n].type = body.input[n].type
  <2> SUFFICES ASSUME NEW n \in DOMAIN body.input
               PROVE  made[n] \in Items /\ made[n].type = body.input[n].type
    OBVIOUS
  <2>1. body.input[n] \in Items BY BodyIs
  <2>2. (body.input[n].id /\ body.store) \in BOOLEAN OBVIOUS
  <2> QED BY <2>1, <2>2, ItemChanged
<1>2. applyCpaCleanup(body) = [body EXCEPT !.input = [n \in DOMAIN body.input |-> made[n]]]
  BY BodyIs DEF applyCpaCleanup, MapItems, Bodies, Items
<1> HIDE DEF made
<1> QED BY <1>1, <1>2, ItemsMapped

LEMMA CrossIs ==
  ASSUME NEW body \in Bodies
  PROVE  applyCrossDomainCleanup(body) \in Bodies /\ ForeignKinds(applyCrossDomainCleanup(body)) = {}
<1> DEFINE left == {n \in DOMAIN body.input :
                      /\ body.input[n].type # "reasoning"
                      /\ body.input[n].type = "compaction" => body.input[n].enc = "readable"}
           kept == [n \in left |-> body.input[n]]
           own == [n \in left |-> Portable(kept[n])]
           input == removeOrphanToolItems(own)
           next == applyCrossDomainCleanup(body)
<1>1. Keeping(body.input, {i \in ItemsOf(body) :
                             /\ i.type # "reasoning"
                             /\ i.type = "compaction" => i.enc = "readable"}) = kept
  <2>1. \A n \in DOMAIN body.input : body.input[n] \in ItemsOf(body) BY BodyIs
  <2> QED BY <2>1 DEF Keeping, Restrict
<1>2. \A n \in left : own[n] \in Items /\ own[n].type \notin {"reasoning", "compaction"}
  <2> SUFFICES ASSUME NEW n \in left
               PROVE  Portable(kept[n]) \in Items
                      /\ Portable(kept[n]).type \notin {"reasoning", "compaction"}
    OBVIOUS
  <2>1. kept[n] \in Items /\ kept[n].type # "reasoning" BY BodyIs
  <2> HIDE DEF kept, left
  <2>2. CASE kept[n].type = "compaction"
    BY <2>2 DEF Portable, Message, Item, Items
  <2>3. CASE kept[n].type # "compaction"
    <3>1. Portable(kept[n]) = [kept[n] EXCEPT !.id = FALSE] BY <2>3 DEF Portable
    <3> QED BY <2>1, <2>3, <3>1, ItemChanged
  <2> QED BY <2>2, <2>3
<1>3. next = [body EXCEPT !.previous = FALSE, !.meta = FALSE,
                          !.cacheKey = IF body.cacheKey = "none" THEN body.cacheKey ELSE "target",
                          !.input = input]
  BY <1>1 DEF applyCrossDomainCleanup
<1> DEFINE last == DOMAIN input
<1>4. last \subseteq left /\ input = [n \in last |-> own[n]]
  BY DEF removeOrphanToolItems, Keeping, Restrict
<1> HIDE DEF own, input
<1>5. input \in Inputs
  BY <1>2, <1>4, MadeOf
<1>6. next \in Bodies /\ next.input = input /\ next.previous = FALSE
  <2> DEFINE key == IF body.cacheKey = "none" THEN body.cacheKey ELSE "target"
  <2>1. key \in {"none", "client", "target"} BY BodyIs
  <2> HIDE DEF key
  <2>2. next = [body EXCEPT !.previous = FALSE, !.meta = FALSE, !.cacheKey = key, !.input = input]
    BY <1>3 DEF key
  <2> HIDE DEF next
  <2> QED BY <1>5, <2>1, <2>2 DEF Bodies, Inputs
<1> HIDE DEF next
<1>7. \A i \in ItemsOf(next) : i.type \notin {"reasoning", "compaction"}
  BY <1>2, <1>4, <1>6, BodyIs
<1> QED BY <1>6, <1>7 DEF ForeignKinds, next

LEMMA RepairIs ==
  ASSUME NEW body \in Bodies, NEW code \in Codes
  PROVE  /\ applyErrorRecovery(body, code) \in Bodies
         /\ NoNewTypes(applyErrorRecovery(body, code), body)
         /\ code = "invalid_responses_request" =>
              ~HasType(applyErrorRecovery(body, code), "compaction")
<1> DEFINE next == applyErrorRecovery(body, code)
<1>1. CASE code = "invalid_encrypted_content"
  <2> DEFINE made == [n \in DOMAIN body.input |->
               IF body.input[n].type # "reasoning" THEN body.input[n]
               ELSE [body.input[n] EXCEPT !.enc = "none", !.id = FALSE]]
  <2>1. \A n \in DOMAIN body.input : made[n] \in Items /\ made[n].type = body.input[n].type
    BY BodyIs, ItemChanged
  <2>2. next = [body EXCEPT !.input = [n \in DOMAIN body.input |-> made[n]]]
    BY <1>1 DEF applyErrorRecovery, MapItems
  <2> HIDE DEF made
  <2> QED BY <1>1, <2>1, <2>2, ItemsMapped
<1>2. CASE code = "previous_response_not_found"
  <2>1. next = [body EXCEPT !.previous = FALSE]
    BY <1>2 DEF applyErrorRecovery
  <2>2. next \in Bodies /\ next.input = body.input
    BY <2>1, BodyIs DEF Bodies, Inputs
  <2> QED BY <1>2, <2>2 DEF NoNewTypes, HasType, ItemsOf
<1>3. CASE code = "invalid_responses_request"
  <2> DEFINE left == {n \in DOMAIN body.input : body.input[n].type # "compaction"}
             input == [n \in left |-> body.input[n]]
  <2>1. next = [body EXCEPT !.input = input]
    <3>1. \A n \in DOMAIN body.input : body.input[n] \in ItemsOf(body) BY BodyIs
    <3> QED BY <1>3, <3>1 DEF applyErrorRecovery, Keeping, Restrict
  <2>2. input \in Inputs
    BY BodyIs, MadeOf
  <2>3. \A n \in DOMAIN input : n \in DOMAIN body.input /\ input[n] = body.input[n]
                                /\ input[n].type # "compaction"
    OBVIOUS
  <2> HIDE DEF input
  <2>4. next \in Bodies /\ next.input = input
    BY <2>1, <2>2, OtherInput
  <2> QED BY <2>3, <2>4, BodyIs DEF NoNewTypes, HasType
<1> QED BY <1>1, <1>2, <1>3 DEF Codes

\* The attempts a recovery that goes by the book makes.
Repairs == [strategy : {"error_400"}, prior : {"original", "cpa"}, code : Codes]
Tries == {Plain("original"), Plain("cpa"), Plain("cross_domain")} \cup Repairs

LEMMA AttemptIs ==
  ASSUME NEW body \in Bodies, NEW try \in Tries
  PROVE  LET next == compileProviderStateAttempt(body, try)
         IN  /\ next \in Bodies
             /\ HasType(next, "compaction") =>
                  /\ HasType(body, "compaction") \/ try = Plain("cross_domain")
                  /\ ~(try.strategy = "error_400" /\ try.code = "invalid_responses_request")
             /\ try = Plain("cross_domain") => ForeignKinds(next) = {}
<1> DEFINE next == compileProviderStateAttempt(body, try)
<1>1. \A strategy \in {"original", "cpa"} :
         BaseBody(body, strategy) \in Bodies /\ NoNewTypes(BaseBody(body, strategy), body)
  BY CpaIs DEF BaseBody, NoNewTypes
<1>2. CASE try \in Repairs
  <2>1. next = applyErrorRecovery(BaseBody(body, try.prior), try.code)
    BY <1>2 DEF compileProviderStateAttempt, Repairs
  <2>2. try.prior \in {"original", "cpa"} /\ try.code \in Codes /\ try.strategy = "error_400"
    BY <1>2 DEF Repairs
  <2>3. Plain("cross_domain").strategy = "cross_domain" BY DEF Plain, Try
  <2>4. try # Plain("cross_domain") BY <2>2, <2>3
  <2> HIDE DEF next
  <2> QED BY <1>1, <2>1, <2>2, <2>4, RepairIs DEF NoNewTypes, next
<1>3. CASE try = Plain("cross_domain")
  <2>1. next = applyCrossDomainCleanup(body)
    BY <1>3 DEF compileProviderStateAttempt, Plain, Try, BaseBody
  <2> QED BY <1>3, <2>1, CrossIs DEF Plain, Try
<1>4. CASE try \in {Plain("original"), Plain("cpa")}
  <2>1. PICK strategy \in {"original", "cpa"} : try = Plain(strategy)
    BY <1>4
  <2>2. try.strategy = strategy BY <2>1 DEF Plain, Try
  <2>3. next = BaseBody(body, strategy)
    BY <2>2 DEF compileProviderStateAttempt
  <2>4. Plain("cross_domain").strategy = "cross_domain" BY DEF Plain, Try
  <2>5. try # Plain("cross_domain") BY <2>2, <2>4
  <2> HIDE DEF next
  <2> QED BY <1>1, <2>2, <2>3, <2>5 DEF NoNewTypes, next
<1> QED BY <1>2, <1>3, <1>4 DEF Tries

\* A request that nothing but its state can keep from its provider: that provider
\* is well, and another one than issued the state; and its answers said so.
ByTheBook(t) ==
  /\ t.phase = "sent" /\ t.fair /\ t.targetHealthy
  /\ t.source # Nowhere /\ t.source # t.target

\* What it was sent as so far, and what that says of the attempts left.
Course(t) ==
  \/ /\ t.try = Plain("original") /\ Len(t.sent) = 1 /\ t.tried = {"original"}
  \/ /\ t.try = Plain("cpa") /\ Len(t.sent) = 2 /\ t.tried = {"original", "cpa"} /\ t.generic
  \/ /\ t.try \in Repairs /\ Len(t.sent) <= 3 /\ "cross_domain" \notin t.tried
  \/ /\ t.try = Plain("cross_domain")

OnCourse(t) ==
  /\ t.canonical \in Bodies
  /\ t.sent \in Seq(Bodies) /\ t.sent # << >>
  /\ Last(t.sent) = compileProviderStateAttempt(t.canonical, t.try)
  /\ \A n \in 1..(Len(t.sent) - 1) : ForeignKinds(t.sent[n]) # {}
  /\ Course(t)
  /\ t.evaluated => t.generic
  /\ ~t.repaired

\* The attempt f is not what was sent before.
LEMMA NextAttempt ==
  ASSUME NEW t, DOMAIN t = TurnFields, t.canonical \in Bodies, t.sent \in Seq(Bodies),
         \A n \in 1..Len(t.sent) : ForeignKinds(t.sent[n]) # {},
         NEW f \in Tries,
         t.evaluated => t.generic, ~t.repaired,
         \/ /\ f = Plain("original") /\ Len(t.sent) = 0 /\ t.tried = {}
         \/ /\ f = Plain("cpa") /\ Len(t.sent) = 1 /\ t.tried = {"original"} /\ t.generic
         \/ /\ f \in Repairs /\ Len(t.sent) <= 2 /\ "cross_domain" \notin t.tried
         \/ /\ f = Plain("cross_domain")
  PROVE  OnCourse(Attempt(t, f))
<1> DEFINE u == Attempt(t, f)
           body == compileProviderStateAttempt(t.canonical, f)
<1>1. /\ u.canonical = t.canonical /\ u.try = f /\ u.tried = t.tried \cup {f.strategy}
      /\ u.sent = Append(t.sent, body) /\ u.evaluated = t.evaluated /\ u.generic = t.generic
      /\ u.repaired = t.repaired
  BY DEF Attempt, TurnFields
<1>2. body \in Bodies BY AttemptIs
<1> HIDE DEF body, u
<1>3. /\ Len(t.sent) \in Nat /\ u.sent \in Seq(Bodies) /\ Len(u.sent) = Len(t.sent) + 1
      /\ u.sent # << >> /\ u.sent[Len(t.sent) + 1] = body
      /\ \A n \in 1..Len(t.sent) : u.sent[n] = t.sent[n]
  BY <1>1, <1>2
<1>4. Last(u.sent) = body BY <1>3 DEF Last
<1>5. \A n \in 1..(Len(u.sent) - 1) : ForeignKinds(u.sent[n]) # {}
  BY <1>3
<1>6. Course(u)
  <2>1. Plain("original").strategy = "original" /\ Plain("cpa").strategy = "cpa"
    BY DEF Plain, Try
  <2>2. f \in Repairs => f.strategy = "error_400" BY DEF Repairs
  <2> QED BY <1>1, <1>3, <2>1, <2>2 DEF Course
<1> QED BY <1>1, <1>3, <1>4, <1>5, <1>6 DEF OnCourse, body, u

\* An honest refusal names state that the last body carries.
LEMMA RefusedForState ==
  ASSUME NEW t, ByTheBook(t), OnCourse(t), NEW answer \in HonestAnswers(t), answer # "success"
  PROVE  /\ \A n \in 1..Len(t.sent) : ForeignKinds(t.sent[n]) # {}
         /\ t.try # Plain("cross_domain")
         /\ answer \in Codes \cup {"refused"}
         /\ ~GivesUp(t, answer)
<1> DEFINE last == Last(t.sent)
           body == compileProviderStateAttempt(t.canonical, t.try)
<1>1. /\ Len(t.sent) \in Nat /\ Len(t.sent) # 0 /\ last = t.sent[Len(t.sent)] /\ last = body
      /\ t.try \in Tries
  BY DEF OnCourse, Last, Course, Tries
<1>2. PICK kind \in ForeignKinds(last) : answer \in {"refused"} \cup CodesFor(kind)
  BY DEF HonestAnswers, Objections, ByTheBook
<1>3. \A n \in 1..Len(t.sent) : ForeignKinds(t.sent[n]) # {}
  <2> SUFFICES ASSUME NEW n \in 1..Len(t.sent) PROVE ForeignKinds(t.sent[n]) # {}
    OBVIOUS
  <2> HIDE DEF last
  <2>1. n \in 1..(Len(t.sent) - 1) \/ n = Len(t.sent) BY <1>1
  <2> QED BY <1>1, <1>2, <2>1 DEF OnCourse
<1>4. t.try # Plain("cross_domain")
  BY <1>1, <1>2, AttemptIs DEF OnCourse
<1>5. kind \in {"compaction", "reasoning", "previous"}
      /\ (kind = "compaction" => HasType(last, "compaction"))
  BY <1>2 DEF ForeignKinds, HasType
<1>6. answer \in Codes \cup {"refused"}
      /\ (answer = "invalid_responses_request" => kind = "compaction")
  BY <1>2, <1>5 DEF CodesFor, Codes
<1>7. ~GivesUp(t, answer)
  <2> SUFFICES ASSUME answer = "invalid_responses_request" PROVE ~GivesUp(t, answer)
    BY DEF GivesUp
  <2>1. HasType(body, "compaction") BY <1>1, <1>5, <1>6
  <2>2. /\ HasType(t.canonical, "compaction")
        /\ ~(t.try.strategy = "error_400" /\ t.try.code = "invalid_responses_request")
    BY <1>1, <1>4, <2>1, AttemptIs DEF OnCourse
  <2> QED BY <2>2 DEF GivesUp
<1> QED BY <1>3, <1>4, <1>6, <1>7

\* The cleaned body is one that was not sent before.
LEMMA CleanIsNew ==
  ASSUME NEW t, t.canonical \in Bodies, t.sent \in Seq(Bodies),
         \A n \in 1..Len(t.sent) : ForeignKinds(t.sent[n]) # {}
  PROVE  ~IsDuplicate(t, Plain("cross_domain"))
<1>1. ForeignKinds(compileProviderStateAttempt(t.canonical, Plain("cross_domain"))) = {}
  BY AttemptIs DEF Tries
<1>2. ToSet(t.sent) = {t.sent[n] : n \in 1..Len(t.sent)} BY DEF ToSet
<1> QED BY <1>1, <1>2 DEF IsDuplicate

\* After an honest refusal, the loop goes on as it should, or ends where the repair
\* that the refusal names changes nothing.
LEMMA RefusalsLead ==
  ASSUME NEW t, DOMAIN t = TurnFields, ByTheBook(t), OnCourse(t),
         NEW answer \in HonestAnswers(t), answer # "success",
         NEW generic, generic = (t.generic \/ (~TakesRepair(t, answer) /\ Unlocks(t, answer)))
  PROVE  /\ ~TakesRepair(t, answer) => generic
         /\ NextTry(t, answer, generic) = {} =>
              /\ answer \in Codes /\ ~t.generic
              /\ IsDuplicate(t, Try("error_400", t.try.strategy, answer))
         /\ \A f \in NextTry(t, answer, generic) :
              /\ f \in Tries
              /\ \/ f = Plain("cpa") /\ Len(t.sent) = 1 /\ t.tried = {"original"} /\ generic
                 \/ f \in Repairs /\ Len(t.sent) <= 2 /\ "cross_domain" \notin t.tried
                 \/ f = Plain("cross_domain")
<1>1. /\ \A n \in 1..Len(t.sent) : ForeignKinds(t.sent[n]) # {}
      /\ t.try # Plain("cross_domain") /\ answer \in Codes \cup {"refused"}
      /\ ~IsDuplicate(t, Plain("cross_domain"))
  BY RefusedForState, CleanIsNew DEF OnCourse
<1>2. /\ Len(t.sent) \in Nat /\ Len(t.sent) < 4 /\ "cross_domain" \notin t.tried
      /\ \/ t.try = Plain("original") /\ Len(t.sent) = 1 /\ t.tried = {"original"}
         \/ t.try = Plain("cpa") /\ Len(t.sent) = 2 /\ t.tried = {"original", "cpa"} /\ t.generic
         \/ t.try \in Repairs
  BY <1>1 DEF OnCourse, Course
<1>3. /\ t.try = Plain("original") => t.try.strategy = "original"
      /\ t.try = Plain("cpa") => t.try.strategy = "cpa"
      /\ t.try \in Repairs => t.try.strategy = "error_400"
  <2>1. /\ Plain("original").strategy = "original" /\ Plain("cpa").strategy = "cpa"
        /\ \A f \in Repairs : f.strategy = "error_400"
    BY DEF Plain, Try, Repairs
  <2> QED BY <2>1
<1> DEFINE repair == Try("error_400", t.try.strategy, answer)
           first == IF TakesRepair(t, answer) THEN {repair}
                    ELSE {Plain(s) : s \in nextStrategyAfterFailure(t, generic)}
           second == UNION {{Plain(s) : s \in nextStrategyAfterDuplicate(t, generic, f.strategy)} :
                              f \in {f \in first : IsDuplicate(t, f)}}
<1>4. NextTry(t, answer, generic) = {f \in first \cup second : ~IsDuplicate(t, f)}
  BY <1>2 DEF NextTry, MaxAttempts
<1>5. CASE TakesRepair(t, answer)
  <2>1. /\ answer \in Codes /\ t.try.strategy \in {"original", "cpa"} /\ Len(t.sent) <= 2
        /\ (generic <=> t.generic) /\ first = {repair}
    <3>1. answer \in Codes /\ t.try \notin Repairs BY <1>3, <1>5 DEF TakesRepair
    <3> HIDE DEF repair, first
    <3>2. t.try.strategy \in {"original", "cpa"} /\ Len(t.sent) <= 2
      <4>1. \/ t.try = Plain("original") /\ Len(t.sent) = 1
            \/ t.try = Plain("cpa") /\ Len(t.sent) = 2
        BY <1>2, <3>1
      <4>2. CASE t.try = Plain("original") /\ Len(t.sent) = 1 BY <1>3, <4>2
      <4>3. CASE t.try = Plain("cpa") /\ Len(t.sent) = 2 BY <1>3, <4>3
      <4> QED BY <4>1, <4>2, <4>3
    <3>3. first = {repair} BY <1>5 DEF first
    <3>4. generic <=> t.generic BY <1>5
    <3> QED BY <3>1, <3>2, <3>3, <3>4
  <2>6. repair \in Repairs /\ repair.strategy = "error_400" /\ repair \in Tries
    BY <2>1 DEF Try, Repairs, Tries
  <2> HIDE DEF repair
  <2>2. second = IF IsDuplicate(t, repair) /\ generic THEN {Plain("cross_domain")} ELSE {}
    BY <1>2, <2>1, <2>6 DEF nextStrategyAfterDuplicate
  <2> HIDE DEF first, second
  <2>3. Plain("cross_domain") \in Tries BY DEF Tries
  <2> QED BY <1>1, <1>2, <1>4, <1>5, <2>1, <2>2, <2>3, <2>6 DEF repair
<1>6. CASE ~TakesRepair(t, answer)
  <2>1. generic
    <3> SUFFICES ASSUME ~t.generic PROVE Unlocks(t, answer)
      BY <1>6
    <3>1. ~t.evaluated BY DEF OnCourse
    <3>2. isEligible(answer, t.try.strategy = "error_400")
      BY <1>1, <1>6 DEF isEligible, TakesRepair
    <3> QED BY <3>1, <3>2 DEF Unlocks, ByTheBook
  <2>2. /\ first = {Plain("cpa")} /\ t.try = Plain("original") /\ Len(t.sent) = 1
           /\ t.tried = {"original"}
        \/ first = {Plain("cross_domain")}
    BY <1>2, <1>3, <1>6, <2>1 DEF nextStrategyAfterFailure
  <2>3. Plain("cpa") \in Tries /\ Plain("cross_domain") \in Tries
        /\ Plain("cpa").strategy = "cpa"
    BY DEF Tries, Plain, Try
  <2>4. CASE first = {Plain("cross_domain")}
    <3>1. second = {} BY <1>1, <2>4
    <3> HIDE DEF first, second
    <3> QED BY <1>1, <1>4, <1>6, <2>1, <2>3, <2>4, <3>1
  <2>5. CASE /\ first = {Plain("cpa")} /\ t.try = Plain("original") /\ Len(t.sent) = 1
             /\ t.tried = {"original"}
    <3>1. second = IF IsDuplicate(t, Plain("cpa")) THEN {Plain("cross_domain")} ELSE {}
      <4>1. nextStrategyAfterDuplicate(t, generic, "cpa") = {"cross_domain"}
        BY <1>2, <2>1 DEF nextStrategyAfterDuplicate
      <4> QED BY <2>3, <2>5, <4>1
    <3> HIDE DEF first, second
    <3> QED BY <1>1, <1>4, <1>6, <2>1, <2>3, <2>5, <3>1
  <2> QED BY <2>2, <2>4, <2>5
<1> QED BY <1>5, <1>6

ShedInv == \A r \in Turn : ByTheBook(turns[r]) => OnCourse(turns[r])

\* How a request may end that nothing but its state has kept from its provider.
ShedHolds ==
  \A r \in Turn :
    LET t == turns[r]
        refusal == turns'[r].refusal
    IN  /\ t.phase = "sent" /\ turns'[r].outcome = "failed" /\ turns'[r].fair
        /\ t.targetHealthy /\ t.source \notin {Nowhere, t.target}
        => /\ refusal \in Codes /\ ~t.generic
           /\ IsDuplicate(t, Try("error_400", t.try.strategy, refusal))

LEMMA OneTurnSheds ==
  ASSUME RecoveryInv, ShedInv, NEW r \in Turn, NEW u, turns' = [turns EXCEPT ![r] = u],
         ByTheBook(u) => OnCourse(u),
         u.outcome = "failed" /\ u.fair /\ ByTheBook(turns[r]) =>
           /\ u.refusal \in Codes /\ ~turns[r].generic
           /\ IsDuplicate(turns[r], Try("error_400", turns[r].try.strategy, u.refusal)),
         u.outcome = "failed" /\ u.fair => turns[r].fair
  PROVE  ShedInv' /\ ShedHolds
<1>1. DOMAIN turns = Turn /\ turns'[r] = u /\ \A q \in Turn \ {r} : turns'[q] = turns[q]
  BY DEF RecoveryInv
<1>2. ShedInv' BY <1>1 DEF ShedInv
<1>3. ShedHolds
  <2> SUFFICES ASSUME NEW q \in Turn, turns[q].phase = "sent",
                      turns'[q].outcome = "failed", turns'[q].fair,
                      turns[q].targetHealthy, turns[q].source \notin {Nowhere, turns[q].target}
               PROVE  /\ turns'[q].refusal \in Codes /\ ~turns[q].generic
                      /\ IsDuplicate(turns[q], Try("error_400", turns[q].try.strategy,
                                                   turns'[q].refusal))
    BY DEF ShedHolds
  <2>1. q = r BY <1>1 DEF RecoveryInv
  <2> QED BY <1>1, <2>1 DEF ByTheBook
<1> QED BY <1>2, <1>3

LEMMA RefuseSheds ==
  ASSUME RecoveryInv, ShedInv, NEW r \in Turn, RefuseTurn(r)
  PROVE  ShedInv' /\ ShedHolds
<1> DEFINE t == turns[r]
<1>0. PICK answer \in Codes \cup {"refused", "other"} :
        LET judged == ~TakesRepair(t, answer) /\ ~GivesUp(t, answer)
            generic == t.generic \/ (judged /\ Unlocks(t, answer))
            honest == answer \in HonestAnswers(t)
            next == IF GivesUp(t, answer) THEN {} ELSE NextTry(t, answer, generic)
            told == [t EXCEPT
                !.fair = @ /\ honest,
                !.generic = generic,
                !.evaluated = @ \/ judged,
                !.trigger = @ \/ generic \/ (TakesRepair(t, answer) /\ ~GivesUp(t, answer))]
        IN  turns' = [turns EXCEPT ![r] =
                  IF next = {} THEN Finish(told, "failed", answer)
                  ELSE Attempt(told, CHOOSE f \in next : TRUE)]
  BY Zenon DEF RefuseTurn
<1> DEFINE judged == ~TakesRepair(t, answer) /\ ~GivesUp(t, answer)
           generic == t.generic \/ (judged /\ Unlocks(t, answer))
           fair == t.fair /\ answer \in HonestAnswers(t)
           evaluated == t.evaluated \/ judged
           trigger == t.trigger \/ generic \/ (TakesRepair(t, answer) /\ ~GivesUp(t, answer))
           next == IF GivesUp(t, answer) THEN {} ELSE NextTry(t, answer, generic)
           told == [t EXCEPT !.fair = fair, !.generic = generic,
                             !.evaluated = evaluated, !.trigger = trigger]
           u == IF next = {} THEN Finish(told, "failed", answer)
                ELSE Attempt(told, CHOOSE f \in next : TRUE)
<1>1. t.phase = "sent" /\ ~t.repaired /\ DOMAIN t = TurnFields
  BY DEF RefuseTurn, RecoveryInv
<1>2. turns' = [turns EXCEPT ![r] = u]
  BY <1>0, Zenon DEF fair, generic, evaluated, trigger, t
<1>3. answer # "success" BY DEF Codes
<1>4. ByTheBook(t) => OnCourse(t) BY DEF ShedInv
<1> HIDE DEF t, trigger
<1>5. /\ DOMAIN told = TurnFields /\ told.phase = t.phase /\ told.fair = fair
      /\ told.generic = generic /\ told.evaluated = evaluated /\ told.canonical = t.canonical
      /\ told.sent = t.sent /\ told.tried = t.tried /\ told.repaired = t.repaired
      /\ told.targetHealthy = t.targetHealthy /\ told.source = t.source /\ told.target = t.target
  BY <1>1 DEF TurnFields
<1> HIDE DEF told, fair, evaluated, generic, judged
<1>6. next = {} => /\ u.phase = "done" /\ u.outcome = "failed" /\ u.refusal = answer
                   /\ u.fair = fair
  BY <1>5 DEF Finish, Idle
<1>7. \A f : /\ Attempt(told, f).fair = fair /\ Attempt(told, f).outcome = t.outcome
             /\ Attempt(told, f).targetHealthy = t.targetHealthy
             /\ Attempt(told, f).source = t.source /\ Attempt(told, f).target = t.target
  BY <1>1, <1>5 DEF Attempt, TurnFields, told
<1>8. t.outcome = "" BY <1>1 DEF RecoveryInv, t
<1>9. ASSUME ByTheBook(t), fair
      PROVE  /\ next = {} => /\ answer \in Codes /\ ~t.generic
                             /\ IsDuplicate(t, Try("error_400", t.try.strategy, answer))
             /\ \A f \in next : OnCourse(Attempt(told, f))
  <2>1. OnCourse(t) /\ answer \in HonestAnswers(t) BY <1>4, <1>9 DEF fair
  <2>2. /\ \A n \in 1..Len(t.sent) : ForeignKinds(t.sent[n]) # {}
        /\ ~GivesUp(t, answer)
    BY <1>3, <1>9, <2>1, RefusedForState
  <2>3. generic = (t.generic \/ (~TakesRepair(t, answer) /\ Unlocks(t, answer)))
    BY <2>2 DEF generic, judged
  <2>4. next = NextTry(t, answer, generic) BY <2>2
  <2>5. /\ ~TakesRepair(t, answer) => generic
        /\ next = {} => /\ answer \in Codes /\ ~t.generic
                        /\ IsDuplicate(t, Try("error_400", t.try.strategy, answer))
        /\ \A f \in next :
             /\ f \in Tries
             /\ \/ f = Plain("cpa") /\ Len(t.sent) = 1 /\ t.tried = {"original"} /\ generic
                \/ f \in Repairs /\ Len(t.sent) <= 2 /\ "cross_domain" \notin t.tried
                \/ f = Plain("cross_domain")
    BY <1>1, <1>3, <1>9, <2>1, <2>3, <2>4, RefusalsLead
  <2>6. told.evaluated => told.generic
    BY <1>5, <2>1, <2>5 DEF evaluated, judged, generic, OnCourse
  <2> HIDE DEF next
  <2>7. ASSUME NEW f \in next PROVE OnCourse(Attempt(told, f))
    BY <1>1, <1>5, <2>1, <2>2, <2>5, <2>6, NextAttempt DEF OnCourse
  <2> QED BY <2>5, <2>7
<1>10. next # {} => (CHOOSE f \in next : TRUE) \in next
  OBVIOUS
<1>11. fair => t.fair BY DEF fair
<1> HIDE DEF next
<1>12. ByTheBook(u) => OnCourse(u)
  <2>1. CASE next = {} BY <1>6, <2>1 DEF ByTheBook
  <2>2. CASE next # {}
    <3> DEFINE f == CHOOSE f \in next : TRUE
    <3>1. u = Attempt(told, f) /\ f \in next BY <1>10, <2>2
    <3> HIDE DEF u, f
    <3>2. ByTheBook(u) => ByTheBook(t) /\ fair BY <1>1, <1>7, <1>11, <3>1 DEF ByTheBook
    <3> QED BY <1>9, <3>1, <3>2
  <2> QED BY <2>1, <2>2
<1>13. u.outcome = "failed" /\ u.fair =>
         next = {} /\ fair /\ u.refusal = answer /\ t.fair
  BY <1>6, <1>7, <1>8, <1>11
<1> HIDE DEF u
<1>14. u.outcome = "failed" /\ u.fair /\ ByTheBook(t) =>
         /\ u.refusal \in Codes /\ ~t.generic
         /\ IsDuplicate(t, Try("error_400", t.try.strategy, u.refusal))
  BY <1>9, <1>13
<1> QED BY <1>2, <1>12, <1>13, <1>14, OneTurnSheds DEF t

LEMMA SendSheds ==
  ASSUME RecoveryInv, ShedInv, NEW r \in Turn, SendTurn(r)
  PROVE  ShedInv' /\ ShedHolds
<1>1. PICK s \in Situation, target \in Domain, remembered \in Domain \cup {Nowhere},
          continues \in {Nowhere} \cup {x \in Turn : turns[x].outcome = "success"} :
         LET canonical == [s.body EXCEPT !.previous = continues # Nowhere]
             fresh == [Idle EXCEPT
                 !.phase = "sent", !.canonical = canonical, !.continues = continues,
                 !.inSession = s.inSession, !.arrived = turns[r].arrived, !.target = target,
                 !.enabled = s.enabled, !.strict = s.strict, !.agentrouter = s.agentrouter]
             binding == findProviderStateBinding(fresh)
         IN  turns' = [turns EXCEPT ![r] =
                Attempt([fresh EXCEPT
                    !.source = IF binding.domain # Nowhere THEN binding.domain ELSE remembered,
                    !.generation = binding.generation,
                    !.targetHealthy = HealthKey(target) \in DOMAIN Alive(evidence)],
                    Plain("original"))]
  BY Zenon DEF SendTurn
<1> DEFINE canonical == [s.body EXCEPT !.previous = continues # Nowhere]
           fresh == [Idle EXCEPT
                 !.phase = "sent", !.canonical = canonical, !.continues = continues,
                 !.inSession = s.inSession, !.arrived = turns[r].arrived, !.target = target,
                 !.enabled = s.enabled, !.strict = s.strict, !.agentrouter = s.agentrouter]
           binding == findProviderStateBinding(fresh)
           source == IF binding.domain # Nowhere THEN binding.domain ELSE remembered
           healthy == HealthKey(target) \in DOMAIN Alive(evidence)
           t == [fresh EXCEPT !.source = source, !.generation = binding.generation,
                              !.targetHealthy = healthy]
           u == Attempt(t, Plain("original"))
<1>2. turns' = [turns EXCEPT ![r] = u] BY <1>1, Zenon
<1>3. canonical \in Bodies
  <2>1. (continues # Nowhere) \in BOOLEAN OBVIOUS
  <2> QED BY <2>1, ClientBody
<1> HIDE DEF canonical
<1>4. /\ DOMAIN fresh = TurnFields /\ fresh.canonical = canonical /\ fresh.sent = << >>
      /\ fresh.tried = {} /\ ~fresh.evaluated /\ ~fresh.repaired /\ fresh.outcome = ""
  BY DEF Idle, TurnFields
<1> HIDE DEF fresh, source, healthy, binding
<1>5. /\ DOMAIN t = TurnFields /\ t.canonical = canonical /\ t.sent = << >>
      /\ t.tried = {} /\ ~t.evaluated /\ ~t.repaired /\ t.outcome = ""
  BY <1>4 DEF TurnFields
<1> HIDE DEF t
<1>6. u.outcome = "" BY <1>5 DEF Attempt, TurnFields
<1>7. OnCourse(u)
  <2>1. << >> \in Seq(Bodies) /\ Len(<< >>) = 0 OBVIOUS
  <2>2. t.sent \in Seq(Bodies) /\ Len(t.sent) = 0 BY <1>5, <2>1
  <2>3. \A n \in 1..Len(t.sent) : FALSE BY <2>2
  <2>4. Plain("original") \in Tries BY DEF Tries
  <2> QED BY <1>3, <1>5, <2>2, <2>3, <2>4, NextAttempt
<1> HIDE DEF u
<1> QED BY <1>2, <1>6, <1>7, OneTurnSheds

LEMMA ArriveSheds ==
  ASSUME RecoveryInv, ShedInv, NEW r \in Turn, ArriveTurn(r)
  PROVE  ShedInv' /\ ShedHolds
<1> DEFINE u == [Idle EXCEPT !.phase = "arrived", !.arrived = started + 1]
<1>1. turns' = [turns EXCEPT ![r] = u] BY DEF ArriveTurn
<1>2. u.phase = "arrived" /\ u.outcome = "" BY DEF Idle
<1> HIDE DEF u
<1> QED BY <1>1, <1>2, OneTurnSheds DEF ByTheBook

LEMMA ShedStarts == RecoveryInit => ShedInv
<1>1. ASSUME NEW r \in Turn, RecoveryInit PROVE ~ByTheBook(turns[r])
  BY <1>1, IdleTurn DEF RecoveryInit, ByTheBook
<1> QED BY <1>1 DEF ShedInv

LEMMA ShedSteps == RecoveryInv /\ ShedInv /\ [RecoveryNext]_recoveryVars => ShedInv' /\ ShedHolds
<1> SUFFICES ASSUME RecoveryInv, ShedInv, [RecoveryNext]_recoveryVars PROVE ShedInv' /\ ShedHolds
  OBVIOUS
<1>1. ASSUME NEW r \in Turn, SucceedTurn(r) PROVE ShedInv' /\ ShedHolds
  <2> DEFINE u == Finish(turns[r], "success", "")
  <2>1. turns' = [turns EXCEPT ![r] = u] BY <1>1 DEF SucceedTurn
  <2>2. u.phase = "done" /\ u.outcome = "success" BY DEF Finish, Idle
  <2> HIDE DEF u
  <2> QED BY <2>1, <2>2, OneTurnSheds DEF ByTheBook
<1>2. ASSUME NEW r \in Turn, EndTurn(r) PROVE ShedInv' /\ ShedHolds
  <2> DEFINE t == turns[r]
             u == Finish([t EXCEPT !.fair = FALSE], "failed", "")
  <2>1. turns' = [turns EXCEPT ![r] = u] BY <1>2 DEF EndTurn
  <2>2. DOMAIN t = TurnFields BY DEF RecoveryInv
  <2> HIDE DEF t
  <2>3. u.phase = "done" /\ ~u.fair BY <2>2 DEF Finish, Idle, TurnFields
  <2> HIDE DEF u
  <2> QED BY <2>1, <2>3, OneTurnSheds DEF ByTheBook
<1>3. ASSUME NEW r \in Turn, RepairTurn(r) PROVE ShedInv' /\ ShedHolds
  <2> DEFINE t == turns[r]
             again == [t EXCEPT !.repaired = TRUE, !.fair = FALSE, !.trigger = TRUE,
                                !.sent = Append(t.sent, WithoutCompactionIds(Last(t.sent)))]
             lost == Finish([t EXCEPT !.fair = FALSE], "failed", "")
  <2>1. turns' = [turns EXCEPT ![r] = again] \/ turns' = [turns EXCEPT ![r] = lost]
    BY <1>3 DEF RepairTurn
  <2>2. DOMAIN t = TurnFields BY DEF RecoveryInv
  <2> HIDE DEF t
  <2>3. ~again.fair /\ ~lost.fair BY <2>2 DEF Finish, Idle, TurnFields
  <2> HIDE DEF again, lost
  <2> QED BY <2>1, <2>3, OneTurnSheds DEF ByTheBook
<1>4. CASE UNCHANGED turns
  BY <1>4 DEF ShedInv, ShedHolds, RecoveryInv
<1>5. CASE PassRecoveryTime \/ UNCHANGED recoveryVars
  BY <1>4, <1>5 DEF PassRecoveryTime, recoveryVars
<1> QED BY <1>1, <1>2, <1>3, <1>5, ArriveSheds, SendSheds, RefuseSheds DEF RecoveryNext

\* A conversation brought to another provider, known to be well, is answered but
\* where the repair that a refusal names was made before.
THEOREM StateIsShed == GatewaySpec => ForeignStateIsShed
<1>1. GatewayInit => RecoveryInv /\ ShedInv
  BY RecoveryStarts, ShedStarts DEF GatewayInit
<1>2. /\ RecoveryInv /\ ShedInv /\ [GatewayNext]_gatewayVars
      => RecoveryInv' /\ ShedInv' /\ (ShedHolds \/ UNCHANGED recoveryVars)
  BY RecoverySteps, ShedSteps DEF GatewayNext, gatewayVars
<1>3. RecoveryInv /\ ShedInv /\ [GatewayNext]_gatewayVars => [ShedHolds]_recoveryVars
  BY <1>2
<1>4. GatewaySpec => [][ShedHolds]_recoveryVars
  BY <1>1, <1>2, <1>3, PTL DEF GatewaySpec
<1>5. [][ShedHolds]_recoveryVars => ForeignStateIsShed
  BY PTL DEF ShedHolds, ForeignStateIsShed
<1> QED BY <1>4, <1>5, PTL

-----------------------------------------------------------------------------
(* Lists without repetition *)

\* A list that names every member of a set once.
Lists(list, set) ==
  /\ list \in Seq(set)
  /\ \A e \in set : \E n \in 1..Len(list) : list[n] = e
  /\ \A m, n \in 1..Len(list) : list[m] = list[n] => m = n

LEMMA ListEmpty ==
  /\ Lists(<< >>, {})
  /\ \A list : Lists(list, {}) => list = << >>
<1>1. Lists(<< >>, {})
  BY DEF Lists
<1>2. ASSUME NEW list, Lists(list, {}) PROVE list = << >>
  BY <1>2, EmptySeq DEF Lists
<1> QED BY <1>1, <1>2

LEMMA ListSet ==
  ASSUME NEW list, NEW set, Lists(list, set)
  PROVE  /\ ToSet(list) = set /\ Len(list) \in Nat
         /\ IsFiniteSet(set) /\ Cardinality(set) = Len(list)
<1>1. /\ list \in Seq(set) /\ Len(list) \in Nat /\ DOMAIN list = 1..Len(list)
      /\ \A n \in 1..Len(list) : list[n] \in set
  BY DEF Lists
<1>2. ToSet(list) = set
  BY <1>1 DEF Lists, ToSet
<1>3. list \in Bijection(1..Len(list), set)
  <2>1. list \in [1..Len(list) -> set]
    BY <1>1
  <2> QED BY <2>1 DEF Lists, Bijection, Injection, Surjection, IsInjective
<1>4. IsFiniteSet(1..Len(list)) /\ Cardinality(1..Len(list)) = Len(list)
  <2>1. 1 \in Int /\ Len(list) \in Int
    BY <1>1
  <2>2. /\ IsFiniteSet(1..Len(list))
        /\ Cardinality(1..Len(list)) = IF 1 > Len(list) THEN 0 ELSE Len(list) - 1 + 1
    BY <2>1, FS_Interval
  <2> QED BY <1>1, <2>2
<1>5. ExistsBijection(1..Len(list), set)
  BY <1>3 DEF ExistsBijection
<1> QED BY <1>1, <1>2, <1>4, <1>5, FS_Bijection

LEMMA ListAppend ==
  ASSUME NEW list, NEW set, Lists(list, set), NEW e, e \notin set
  PROVE  Lists(Append(list, e), set \cup {e}) /\ Len(Append(list, e)) = Len(list) + 1
<1> DEFINE all == set \cup {e}
           more == Append(list, e)
<1>1. list \in Seq(all) /\ list \in Seq(set) /\ Len(list) \in Nat /\ e \in all
  BY SeqMonotonic DEF Lists
<1>2. /\ more \in Seq(all) /\ Len(more) = Len(list) + 1
      /\ \A n \in 1..Len(list) : more[n] = list[n]
      /\ more[Len(list) + 1] = e
  BY <1>1, AppendProperties
<1> HIDE DEF more
<1>3. \A n \in 1..Len(list) : list[n] \in set
  BY <1>1
<1>4. \A n \in 1..Len(more) : n \in 1..Len(list) \/ n = Len(list) + 1
  BY <1>1, <1>2
<1>5. ASSUME NEW x \in all PROVE \E n \in 1..Len(more) : more[n] = x
  <2>1. CASE x = e
    BY <1>1, <1>2, <2>1
  <2>2. CASE x \in set
    <3>1. PICK n \in 1..Len(list) : list[n] = x
      BY <2>2 DEF Lists
    <3>2. n \in 1..Len(more)
      BY <1>1, <1>2
    <3> QED BY <1>2, <3>1, <3>2
  <2> QED BY <2>1, <2>2
<1>6. ASSUME NEW m \in 1..Len(more), NEW n \in 1..Len(more), more[m] = more[n]
      PROVE  m = n
  <2>1. CASE m \in 1..Len(list) /\ n \in 1..Len(list)
    <3>1. list[m] = list[n]
      BY <1>2, <1>6, <2>1
    <3> QED BY <2>1, <3>1 DEF Lists
  <2> QED BY <1>2, <1>3, <1>4, <1>6, <2>1
<1> QED BY <1>2, <1>5, <1>6 DEF Lists, more

LEMMA ListTail ==
  ASSUME NEW list, NEW set, Lists(list, set), list # << >>
  PROVE  /\ Head(list) \in set /\ Lists(Tail(list), set \ {Head(list)})
         /\ Len(Tail(list)) = Len(list) - 1
<1> DEFINE rest == Tail(list)
           left == set \ {Head(list)}
<1>1. /\ list \in Seq(set) /\ Len(list) \in Nat /\ Len(list) > 0 /\ Head(list) = list[1]
      /\ \A n \in 1..Len(list) : list[n] \in set
  BY EmptySeq DEF Lists
<1>2. /\ rest \in Seq(set) /\ Len(rest) = Len(list) - 1
      /\ \A n \in 1..Len(rest) : rest[n] = list[n + 1]
  BY <1>1, HeadTailProperties
<1> HIDE DEF rest
<1>3. \A n \in 1..Len(rest) : rest[n] \in left
  <2> SUFFICES ASSUME NEW n \in 1..Len(rest) PROVE rest[n] \in left
    OBVIOUS
  <2>1. n + 1 \in 1..Len(list) /\ 1 \in 1..Len(list) /\ rest[n] = list[n + 1] /\ n + 1 # 1
    BY <1>1, <1>2
  <2>2. list[n + 1] # list[1]
    BY <2>1 DEF Lists
  <2> QED BY <1>1, <2>1, <2>2
<1>4. rest \in Seq(left)
  BY <1>2, <1>3
<1>5. \A e \in left : \E n \in 1..Len(rest) : rest[n] = e
  <2> SUFFICES ASSUME NEW e \in left PROVE \E n \in 1..Len(rest) : rest[n] = e
    OBVIOUS
  <2>1. PICK n \in 1..Len(list) : list[n] = e
    BY DEF Lists
  <2>2. n - 1 \in 1..Len(rest) /\ rest[n - 1] = e
    BY <1>1, <1>2, <2>1
  <2> QED BY <2>2
<1>6. \A m, n \in 1..Len(rest) : rest[m] = rest[n] => m = n
  <2> SUFFICES ASSUME NEW m \in 1..Len(rest), NEW n \in 1..Len(rest), rest[m] = rest[n]
               PROVE  m = n
    OBVIOUS
  <2>1. m + 1 \in 1..Len(list) /\ n + 1 \in 1..Len(list) /\ list[m + 1] = list[n + 1]
    BY <1>1, <1>2
  <2> QED BY <2>1 DEF Lists
<1> QED BY <1>1, <1>2, <1>4, <1>5, <1>6 DEF Lists, rest

LEMMA ListRemove ==
  ASSUME NEW list, NEW set, Lists(list, set), NEW e
  PROVE  /\ e \in set => /\ Lists(RemoveFirst(list, e), set \ {e})
                         /\ Len(RemoveFirst(list, e)) = Len(list) - 1
         /\ e \notin set => RemoveFirst(list, e) = list
<1>1. /\ list \in Seq(set) /\ Len(list) \in Nat
      /\ \A n \in 1..Len(list) : list[n] \in set
  BY DEF Lists
<1>2. ASSUME e \notin set PROVE RemoveFirst(list, e) = list
  BY <1>1, <1>2 DEF RemoveFirst
<1>3. ASSUME e \in set
      PROVE  Lists(RemoveFirst(list, e), set \ {e}) /\ Len(RemoveFirst(list, e)) = Len(list) - 1
  <2>1. PICK p \in 1..Len(list) : list[p] = e
    BY <1>3 DEF Lists
  <2>2. {n \in 1..Len(list) : list[n] = e} = {p}
    BY <2>1 DEF Lists
  <2>3. RemoveFirst(list, e) = RemoveAt(list, p)
    <3>1. SelectInSeq(list, LAMBDA v : v = e) = Min({p})
      BY <2>2 DEF SelectInSeq
    <3>2. Min({p}) = p
      BY <2>1 DEF Min
    <3> QED BY <2>1, <3>1, <3>2 DEF RemoveFirst
  <2> DEFINE before == SubSeq(list, 1, p - 1)
             after == SubSeq(list, p + 1, Len(list))
             rest == before \o after
             left == set \ {e}
  <2>4. /\ before \in Seq(left) /\ Len(before) = p - 1
        /\ \A n \in 1..(p - 1) : before[n] = list[n]
    <3>1. \A n \in 1..(p - 1) : list[n] \in left
      <4> SUFFICES ASSUME NEW n \in 1..(p - 1) PROVE list[n] \in left
        OBVIOUS
      <4>1. n \in 1..Len(list) /\ n # p
        BY <1>1
      <4>2. list[n] # list[p]
        BY <4>1 DEF Lists
      <4> QED BY <1>1, <2>1, <4>1, <4>2
    <3>2. /\ before \in Seq(left) /\ Len(before) = IF 1 <= p - 1 THEN (p - 1) - 1 + 1 ELSE 0
          /\ \A n \in 1..((p - 1) - 1 + 1) : before[n] = list[1 + n - 1]
      BY <3>1, SubSeqProperties
    <3> HIDE DEF before
    <3> QED BY <3>2
  <2>5. /\ after \in Seq(left) /\ Len(after) = Len(list) - p
        /\ \A n \in 1..(Len(list) - p) : after[n] = list[p + n]
    <3>1. \A n \in (p + 1)..Len(list) : list[n] \in left
      BY <1>1, <2>1 DEF Lists
    <3>2. /\ after \in Seq(left)
          /\ Len(after) = IF p + 1 <= Len(list) THEN Len(list) - (p + 1) + 1 ELSE 0
          /\ \A n \in 1..(Len(list) - (p + 1) + 1) : after[n] = list[(p + 1) + n - 1]
      BY <1>1, <3>1, SubSeqProperties
    <3> HIDE DEF after
    <3> QED BY <1>1, <3>2
  <2> HIDE DEF before, after
  <2>6. /\ rest \in Seq(left) /\ Len(rest) = Len(list) - 1
        /\ \A n \in 1..(Len(list) - 1) : rest[n] = IF n < p THEN list[n] ELSE list[n + 1]
    <3>1. /\ rest \in Seq(left) /\ Len(rest) = Len(before) + Len(after)
          /\ \A n \in 1..(Len(before) + Len(after)) :
                rest[n] = IF n <= Len(before) THEN before[n] ELSE after[n - Len(before)]
      BY <2>4, <2>5, ConcatProperties
    <3> HIDE DEF rest
    <3>2. Len(rest) = Len(list) - 1
      BY <1>1, <2>4, <2>5, <3>1
    <3>3. ASSUME NEW n \in 1..(Len(list) - 1)
          PROVE  rest[n] = IF n < p THEN list[n] ELSE list[n + 1]
      <4>1. CASE n < p
        <5>1. n \in 1..(p - 1) /\ n <= Len(before) /\ n \in 1..(Len(before) + Len(after))
          BY <1>1, <2>4, <2>5, <4>1
        <5> QED BY <2>4, <3>1, <4>1, <5>1
      <4>2. CASE ~(n < p)
        <5>1. rest[n] = after[n - (p - 1)]
          BY <1>1, <2>4, <2>5, <3>1, <4>2
        <5>2. n - (p - 1) \in 1..(Len(list) - p)
          BY <1>1, <4>2
        <5>3. after[n - (p - 1)] = list[p + (n - (p - 1))]
          BY <2>5, <5>2
        <5> QED BY <4>2, <5>1, <5>3
      <4> QED BY <4>1, <4>2
    <3> QED BY <3>1, <3>2, <3>3
  <2> HIDE DEF rest
  <2>7. \A x \in left : \E n \in 1..Len(rest) : rest[n] = x
    <3> SUFFICES ASSUME NEW x \in left PROVE \E n \in 1..Len(rest) : rest[n] = x
      OBVIOUS
    <3>1. PICK n \in 1..Len(list) : list[n] = x
      BY DEF Lists
    <3>2. n # p
      BY <2>1, <3>1
    <3>3. CASE n < p
      <4>1. n \in 1..Len(rest) /\ rest[n] = x
        BY <1>1, <2>1, <2>6, <3>1, <3>3
      <4> QED BY <4>1
    <3>4. CASE n > p
      <4>1. n - 1 \in 1..Len(rest) /\ rest[n - 1] = x
        BY <1>1, <2>1, <2>6, <3>1, <3>4
      <4> QED BY <4>1
    <3> QED BY <3>2, <3>3, <3>4
  <2>8. \A m, n \in 1..Len(rest) : rest[m] = rest[n] => m = n
    <3> SUFFICES ASSUME NEW m \in 1..Len(rest), NEW n \in 1..Len(rest), rest[m] = rest[n]
                 PROVE  m = n
      OBVIOUS
    <3> DEFINE mm == IF m < p THEN m ELSE m + 1
               nn == IF n < p THEN n ELSE n + 1
    <3>1. /\ mm \in 1..Len(list) /\ nn \in 1..Len(list)
          /\ list[mm] = rest[m] /\ list[nn] = rest[n]
      BY <1>1, <2>1, <2>6
    <3>2. mm = nn
      <4> HIDE DEF mm, nn
      <4> QED BY <3>1 DEF Lists
    <3> QED BY <3>2
  <2>9. Lists(rest, left)
    BY <2>6, <2>7, <2>8 DEF Lists
  <2> QED BY <2>3, <2>6, <2>9 DEF RemoveAt, rest, before, after
<1> QED BY <1>2, <1>3

-----------------------------------------------------------------------------
(* ProxyAgents *)

AgentFields == {"proxy", "retired", "idleTimers", "draining"}
ExchangeFields == {"server", "agent", "target", "state", "socket"}

\* An exchange holds its socket from CONNECT until the socket is freed or destroyed.
Occupying == {"open", "draining", "ended"}

IdleAmong(so, id) == {c \in Connection : so[c].at = "free" /\ so[c].agent = id}
Draining(ex, id) == {x \in Exchange : ex[x].state = "draining" /\ ex[x].agent = id}

SocketOk(s, ag) ==
  \/ s = Unused
  \/ \E at \in {"busy", "free"}, id \in DOMAIN ag, target \in Target :
        s = [at |-> at, agent |-> id, target |-> target]

\* An agent times exactly its idle sockets, in a bounded list, and knows the tails
\* it reads; retired, it has neither.
AgentOk(a, so, ex, id) ==
  /\ DOMAIN a = AgentFields /\ a.retired \in BOOLEAN
  /\ Lists(a.idleTimers, IdleAmong(so, id)) /\ Len(a.idleTimers) <= MaxIdlePerAgent
  /\ a.draining = Draining(ex, id)
  /\ a.retired => IdleAmong(so, id) = {} /\ a.draining = {}

\* What an exchange holds is busy, and for its agent.
ExchangeOk(e, ag, so) ==
  /\ DOMAIN e = ExchangeFields
  /\ e.state \in {"idle", "connecting", "done"} \cup Occupying
  /\ e.state \in {"connecting"} \cup Occupying => e.agent \in DOMAIN ag /\ e.target \in Target
  /\ e.state \in Occupying =>
       /\ e.socket \in Connection
       /\ so[e.socket] = [at |-> "busy", agent |-> e.agent, target |-> e.target]

Apart(ex) ==
  \A x, y \in Exchange :
    x # y /\ ex[x].state \in Occupying /\ ex[y].state \in Occupying => ex[x].socket # ex[y].socket

ConnectionsOk(ag, so, ex) ==
  /\ DOMAIN so = Connection /\ DOMAIN ex = Exchange
  /\ \A c \in Connection : SocketOk(so[c], ag)
  /\ \A id \in DOMAIN ag : AgentOk(ag[id], so, ex, id)
  /\ \A x \in Exchange : ExchangeOk(ex[x], ag, so)
  /\ Apart(ex)

Serving(ag) == {id \in DOMAIN ag : ~ag[id].retired}

\* The agents in the cache are those that serve; without a server none does.
AgentsInv ==
  /\ ConnectionsOk(agents, sockets, exchanges)
  /\ DOMAIN agents \subseteq 1..MaxAgents
  /\ Lists(cached, Serving(agents))
  /\ owners = {} => cached = << >>

LEMMA SocketStates ==
  ASSUME NEW ag, NEW s, SocketOk(s, ag)
  PROVE  /\ s.at \in {"none", "busy", "free"}
         /\ s.at = "none" => s = Unused
         /\ s.at # "none" => /\ s.agent \in DOMAIN ag /\ s.target \in Target
                             /\ s = [at |-> s.at, agent |-> s.agent, target |-> s.target]
  BY DEF SocketOk, Unused

\* An idle socket is in the free list of its target.
LEMMA IdleIsFree ==
  ASSUME \A c \in Connection : SocketOk(sockets[c], agents), NEW id
  PROVE  /\ IdleSockets(id) = IdleAmong(sockets, id)
         /\ \A target : FreeSockets(id, target) \subseteq IdleAmong(sockets, id)
<1>1. ASSUME NEW c \in Connection PROVE c \in IdleSockets(id) <=> c \in IdleAmong(sockets, id)
  <2>1. c \in IdleSockets(id) <=>
          \E target \in Target : sockets[c] = [at |-> "free", agent |-> id, target |-> target]
    BY DEF IdleSockets, FreeSockets
  <2>2. SocketOk(sockets[c], agents)
    OBVIOUS
  <2>3. ASSUME sockets[c].at = "free", sockets[c].agent = id
        PROVE  \E target \in Target :
                  sockets[c] = [at |-> "free", agent |-> id, target |-> target]
    <3>1. /\ sockets[c].target \in Target
          /\ sockets[c] = [at |-> sockets[c].at, agent |-> sockets[c].agent,
                           target |-> sockets[c].target]
      BY <2>2, <2>3, SocketStates
    <3> QED BY <2>3, <3>1
  <2>4. ASSUME NEW target \in Target,
               sockets[c] = [at |-> "free", agent |-> id, target |-> target]
        PROVE  sockets[c].at = "free" /\ sockets[c].agent = id
    BY <2>4
  <2>5. c \in IdleAmong(sockets, id) <=> sockets[c].at = "free" /\ sockets[c].agent = id
    BY DEF IdleAmong
  <2> QED BY <2>1, <2>3, <2>4, <2>5
<1>2. IdleSockets(id) \subseteq Connection /\ IdleAmong(sockets, id) \subseteq Connection
  BY DEF IdleSockets, FreeSockets, IdleAmong
<1>3. \A target : FreeSockets(id, target) \subseteq IdleAmong(sockets, id)
  BY DEF FreeSockets, IdleAmong
<1> QED BY <1>1, <1>2, <1>3

LEMMA AgentsStart == AgentsInit => AgentsInv
<1> SUFFICES ASSUME AgentsInit PROVE AgentsInv
  OBVIOUS
<1>1. DOMAIN agents = {} /\ DOMAIN sockets = Connection /\ DOMAIN exchanges = Exchange
  BY DEF AgentsInit
<1>2. \A c \in Connection : SocketOk(sockets[c], agents)
  BY DEF AgentsInit, SocketOk
<1>3. \A x \in Exchange : ExchangeOk(exchanges[x], agents, sockets) /\ exchanges[x].state = "idle"
  <2>1. /\ DOMAIN Begun(NoneOf, NoneOf, NoneOf, "idle", NoneOf) = ExchangeFields
        /\ Begun(NoneOf, NoneOf, NoneOf, "idle", NoneOf).state = "idle"
    BY DEF Begun, ExchangeFields
  <2>2. \A x \in Exchange : exchanges[x] = Begun(NoneOf, NoneOf, NoneOf, "idle", NoneOf)
    BY DEF AgentsInit
  <2> QED BY <2>1, <2>2 DEF ExchangeOk, Occupying
<1>4. Apart(exchanges)
  BY <1>3 DEF Apart, Occupying
<1>5. Lists(cached, Serving(agents)) /\ cached = << >>
  BY <1>1, ListEmpty DEF AgentsInit, Serving
<1> QED BY <1>1, <1>2, <1>3, <1>4, <1>5 DEF AgentsInv, ConnectionsOk

LEMMA AgentsAreAccountedFor == AgentsInv => ConnectionsAreAccountedFor
<1> SUFFICES ASSUME AgentsInv, NEW id \in AgentIds
             PROVE  /\ ToSet(agents[id].idleTimers) = IdleSockets(id)
                    /\ Cardinality(IdleSockets(id)) <= MaxIdlePerAgent
                    /\ agents[id].retired => IdleSockets(id) = {} /\ agents[id].draining = {}
                    /\ owners = {} => agents[id].retired
  BY DEF ConnectionsAreAccountedFor
<1>1. AgentOk(agents[id], sockets, exchanges, id) /\ IdleSockets(id) = IdleAmong(sockets, id)
  BY IdleIsFree DEF AgentsInv, ConnectionsOk, AgentIds
<1>2. /\ ToSet(agents[id].idleTimers) = IdleSockets(id)
      /\ Cardinality(IdleSockets(id)) = Len(agents[id].idleTimers)
  BY <1>1, ListSet DEF AgentOk
<1>3. owners = {} => agents[id].retired
  <2> SUFFICES ASSUME owners = {} PROVE agents[id].retired
    OBVIOUS
  <2>1. Lists(<< >>, Serving(agents))
    BY DEF AgentsInv
  <2>2. Serving(agents) = {}
    BY <2>1 DEF Lists
  <2> QED BY <2>2 DEF Serving, AgentIds
<1> QED BY <1>1, <1>2, <1>3 DEF AgentOk

LeavesOthers(x, e) ==
  \A y \in Exchange : y # x /\ exchanges[y].state \in Occupying =>
    /\ sockets'[exchanges[y].socket] = sockets[exchanges[y].socket]
    /\ e.state \in Occupying => exchanges[y].socket # e.socket

\* A step of one exchange, which may also change sockets that no other exchange
\* holds and what the agents know, but serves and retires no agent.
LEMMA OneExchange ==
  ASSUME AgentsInv, NEW x \in Exchange, NEW e, ExchangeOk(e, agents', sockets'),
         exchanges' = [exchanges EXCEPT ![x] = e],
         DOMAIN agents' = DOMAIN agents, DOMAIN sockets' = Connection,
         \A c \in Connection : SocketOk(sockets'[c], agents'),
         \A id \in DOMAIN agents : AgentOk(agents'[id], sockets', exchanges', id),
         \A id \in DOMAIN agents : agents'[id].retired = agents[id].retired,
         LeavesOthers(x, e),
         UNCHANGED << cached, owners >>
  PROVE  AgentsInv'
<1>1. /\ DOMAIN exchanges' = Exchange /\ exchanges'[x] = e
      /\ \A y \in Exchange : y # x => exchanges'[y] = exchanges[y]
  BY DEF AgentsInv, ConnectionsOk
<1>2. \A y \in Exchange : ExchangeOk(exchanges'[y], agents', sockets')
  <2> SUFFICES ASSUME NEW y \in Exchange, y # x
               PROVE  ExchangeOk(exchanges[y], agents', sockets')
    BY <1>1
  <2>1. ExchangeOk(exchanges[y], agents, sockets)
    BY DEF AgentsInv, ConnectionsOk
  <2> QED BY <2>1 DEF ExchangeOk, LeavesOthers
<1>3. Apart(exchanges')
  <2>1. Apart(exchanges)
    BY DEF AgentsInv, ConnectionsOk
  <2> QED BY <1>1, <2>1 DEF Apart, LeavesOthers
<1>4. Serving(agents') = Serving(agents)
  BY DEF Serving
<1>5. ConnectionsOk(agents', sockets', exchanges')
  BY <1>1, <1>2, <1>3 DEF ConnectionsOk
<1> QED BY <1>4, <1>5 DEF AgentsInv

\* What the invariant says of one exchange, its agent and its socket.
LEMMA HeldSocket ==
  ASSUME AgentsInv, NEW x \in Exchange
  PROVE  /\ ExchangeOk(exchanges[x], agents, sockets)
         /\ exchanges[x].state \in Occupying =>
              /\ exchanges[x].agent \in DOMAIN agents
              /\ exchanges[x].socket \in Connection
              /\ sockets[exchanges[x].socket].at = "busy"
              /\ \A y \in Exchange : y # x /\ exchanges[y].state \in Occupying =>
                    exchanges[y].socket # exchanges[x].socket
  BY DEF AgentsInv, ConnectionsOk, ExchangeOk, Apart

LEMMA ExchangeRecord ==
  ASSUME AgentsInv, NEW x \in Exchange
  PROVE  DOMAIN exchanges[x] = ExchangeFields
  BY HeldSocket DEF ExchangeOk

LEMMA ConnectFailsStep ==
  ASSUME AgentsInv, NEW x \in Exchange, ConnectFails(x)
  PROVE  AgentsInv'
<1> DEFINE e == [exchanges[x] EXCEPT !.state = "done"]
<1>1. /\ exchanges[x].state = "connecting" /\ exchanges' = [exchanges EXCEPT ![x] = e]
      /\ UNCHANGED <<agents, cached, sockets, owners>>
  BY DEF ConnectFails
<1>2. DOMAIN e = ExchangeFields /\ e.state = "done"
  BY ExchangeRecord DEF ExchangeFields
<1> HIDE DEF e
<1>3. ExchangeOk(e, agents', sockets')
  BY <1>2 DEF ExchangeOk, Occupying
<1>4. \A id : Draining(exchanges', id) = Draining(exchanges, id)
  BY <1>1, <1>2 DEF Draining, AgentsInv, ConnectionsOk
<1>5. \A id \in DOMAIN agents : AgentOk(agents'[id], sockets', exchanges', id)
  BY <1>1, <1>4 DEF AgentOk, AgentsInv, ConnectionsOk
<1>6. DOMAIN sockets' = Connection /\ \A c \in Connection : SocketOk(sockets'[c], agents')
  BY <1>1 DEF AgentsInv, ConnectionsOk
<1>7. LeavesOthers(x, e)
  BY <1>1, <1>2 DEF Occupying, LeavesOthers
<1> QED BY <1>1, <1>3, <1>5, <1>6, <1>7, OneExchange

LEMMA ResponseEndsStep ==
  ASSUME AgentsInv, NEW x \in Exchange, ResponseEnds(x)
  PROVE  AgentsInv'
<1> DEFINE e == [exchanges[x] EXCEPT !.state = "ended"]
<1>1. /\ exchanges[x].state = "open" /\ exchanges' = [exchanges EXCEPT ![x] = e]
      /\ UNCHANGED <<agents, cached, sockets, owners>>
  BY DEF ResponseEnds
<1>2. /\ DOMAIN e = ExchangeFields /\ e.state = "ended"
      /\ e.socket = exchanges[x].socket /\ e.agent = exchanges[x].agent
      /\ e.target = exchanges[x].target
  BY ExchangeRecord DEF ExchangeFields
<1> HIDE DEF e
<1>3. ExchangeOk(e, agents', sockets')
  BY <1>1, <1>2, HeldSocket DEF ExchangeOk, Occupying
<1>4. \A id : Draining(exchanges', id) = Draining(exchanges, id)
  BY <1>1, <1>2 DEF Draining, AgentsInv, ConnectionsOk
<1>5. \A id \in DOMAIN agents : AgentOk(agents'[id], sockets', exchanges', id)
  BY <1>1, <1>4 DEF AgentOk, AgentsInv, ConnectionsOk
<1>6. DOMAIN sockets' = Connection /\ \A c \in Connection : SocketOk(sockets'[c], agents')
  BY <1>1 DEF AgentsInv, ConnectionsOk
<1>7. LeavesOthers(x, e)
  BY <1>1, <1>2, HeldSocket DEF Occupying, LeavesOthers
<1>8. \A id \in DOMAIN agents : agents'[id].retired = agents[id].retired
  BY <1>1
<1> QED BY <1>1, <1>3, <1>5, <1>6, <1>7, <1>8, OneExchange

\* Closing busy sockets leaves the idle ones alone.
LEMMA BusyCloses ==
  ASSUME AgentsInv, NEW closing, \A c \in closing : c \in Connection /\ sockets[c].at = "busy",
         NEW so, so = Destroyed(closing)
  PROVE  /\ DOMAIN so = Connection /\ \A c \in Connection : SocketOk(so[c], agents)
         /\ \A c \in Connection : c \notin closing => so[c] = sockets[c]
         /\ \A id : IdleAmong(so, id) = IdleAmong(sockets, id)
<1>1. /\ DOMAIN so = Connection
      /\ \A c \in Connection : so[c] = IF c \in closing THEN Unused ELSE sockets[c]
  BY DEF Destroyed
<1>2. \A c \in Connection : SocketOk(so[c], agents)
  BY <1>1 DEF SocketOk, AgentsInv, ConnectionsOk
<1>3. Unused.at = "none"
  BY DEF Unused
<1> QED BY <1>1, <1>2, <1>3 DEF IdleAmong

LEMMA RequestDestroyedStep ==
  ASSUME AgentsInv, NEW x \in Exchange, RequestDestroyed(x)
  PROVE  AgentsInv'
<1> DEFINE e == [exchanges[x] EXCEPT !.state = "done"]
<1>1. /\ exchanges[x].state = "open" /\ exchanges' = [exchanges EXCEPT ![x] = e]
      /\ sockets' = Destroyed({exchanges[x].socket})
      /\ UNCHANGED <<agents, cached, owners>>
  BY DEF RequestDestroyed
<1>2. DOMAIN e = ExchangeFields /\ e.state = "done"
  BY ExchangeRecord DEF ExchangeFields
<1> HIDE DEF e
<1>3. ExchangeOk(e, agents', sockets')
  BY <1>2 DEF ExchangeOk, Occupying
<1>4. \A id : Draining(exchanges', id) = Draining(exchanges, id)
  BY <1>1, <1>2 DEF Draining, AgentsInv, ConnectionsOk
<1>5. \A c \in {exchanges[x].socket} : c \in Connection /\ sockets[c].at = "busy"
  BY <1>1, HeldSocket DEF Occupying
<1>6. /\ DOMAIN sockets' = Connection /\ \A c \in Connection : SocketOk(sockets'[c], agents')
      /\ \A c \in Connection : c # exchanges[x].socket => sockets'[c] = sockets[c]
      /\ \A id : IdleAmong(sockets', id) = IdleAmong(sockets, id)
  BY <1>1, <1>5, BusyCloses
<1>7. \A id \in DOMAIN agents : AgentOk(agents'[id], sockets', exchanges', id)
  BY <1>1, <1>4, <1>6 DEF AgentOk, AgentsInv, ConnectionsOk
<1>8. LeavesOthers(x, e)
  BY <1>1, <1>2, <1>6, HeldSocket DEF Occupying, LeavesOthers
<1> QED BY <1>1, <1>3, <1>6, <1>7, <1>8, OneExchange

\* Only the tails one agent reads change.
LEMMA TailsChange ==
  ASSUME AgentsInv, NEW id \in DOMAIN agents, NEW d, agents' = [agents EXCEPT ![id].draining = d],
         agents[id].retired => d = {},
         Draining(exchanges', id) = d,
         \A i : i # id => Draining(exchanges', i) = Draining(exchanges, i),
         \A i : IdleAmong(sockets', i) = IdleAmong(sockets, i)
  PROVE  /\ DOMAIN agents' = DOMAIN agents
         /\ \A i \in DOMAIN agents : agents'[i].retired = agents[i].retired
         /\ \A i \in DOMAIN agents : AgentOk(agents'[i], sockets', exchanges', i)
<1>1. AgentOk(agents[id], sockets, exchanges, id)
  BY DEF AgentsInv, ConnectionsOk
<1> DEFINE a == [agents[id] EXCEPT !.draining = d]
<1>2. /\ DOMAIN a = AgentFields /\ a.retired = agents[id].retired
      /\ a.idleTimers = agents[id].idleTimers /\ a.draining = d
  BY <1>1 DEF AgentOk, AgentFields
<1> HIDE DEF a
<1>3. /\ DOMAIN agents' = DOMAIN agents /\ agents'[id] = a
      /\ \A i \in DOMAIN agents : i # id => agents'[i] = agents[i]
  BY DEF a
<1>4. AgentOk(a, sockets', exchanges', id)
  BY <1>1, <1>2 DEF AgentOk
<1>5. \A i \in DOMAIN agents : i # id => AgentOk(agents'[i], sockets', exchanges', i)
  BY <1>3 DEF AgentOk, AgentsInv, ConnectionsOk
<1> QED BY <1>2, <1>3, <1>4, <1>5

LEMMA DrainStep ==
  ASSUME AgentsInv, NEW x \in Exchange, drainResponse(x)
  PROVE  AgentsInv'
<1> DEFINE e == [exchanges[x] EXCEPT !.state = "draining"]
           id == exchanges[x].agent
           d == agents[id].draining \cup {x}
<1>1. /\ exchanges[x].state = "open" /\ exchanges' = [exchanges EXCEPT ![x] = e]
      /\ ~agents[id].retired /\ agents' = [agents EXCEPT ![id].draining = d]
      /\ UNCHANGED <<cached, sockets, owners>>
  BY DEF drainResponse, MayDrain
<1>2. /\ DOMAIN e = ExchangeFields /\ e.state = "draining"
      /\ e.socket = exchanges[x].socket /\ e.agent = id /\ e.target = exchanges[x].target
  BY ExchangeRecord DEF ExchangeFields
<1> HIDE DEF e
<1>3. id \in DOMAIN agents
  BY <1>1, HeldSocket DEF Occupying
<1>4. agents[id].draining = Draining(exchanges, id)
  BY <1>3 DEF AgentsInv, ConnectionsOk, AgentOk
<1>5. /\ Draining(exchanges', id) = d
      /\ \A i : i # id => Draining(exchanges', i) = Draining(exchanges, i)
  BY <1>1, <1>2, <1>4 DEF Draining, AgentsInv, ConnectionsOk
<1> HIDE DEF d, id
<1>6. /\ DOMAIN agents' = DOMAIN agents
      /\ \A i \in DOMAIN agents : agents'[i].retired = agents[i].retired
      /\ \A i \in DOMAIN agents : AgentOk(agents'[i], sockets', exchanges', i)
  BY <1>1, <1>3, <1>5, TailsChange
<1>7. ExchangeOk(e, agents', sockets')
  BY <1>1, <1>2, <1>6, HeldSocket DEF ExchangeOk, Occupying, id
<1>8. DOMAIN sockets' = Connection /\ \A c \in Connection : SocketOk(sockets'[c], agents')
  BY <1>1, <1>6 DEF AgentsInv, ConnectionsOk, SocketOk
<1>9. LeavesOthers(x, e)
  BY <1>1, <1>2, HeldSocket DEF Occupying, LeavesOthers
<1> QED BY <1>1, <1>6, <1>7, <1>8, <1>9, OneExchange

LEMMA FinishDrainStep ==
  ASSUME AgentsInv, NEW x \in Exchange, FinishesDrain(x)
  PROVE  AgentsInv'
<1> DEFINE id == exchanges[x].agent
           c == exchanges[x].socket
           d == agents[id].draining \ {x}
           ended == [exchanges[x] EXCEPT !.state = "ended"]
           done == [exchanges[x] EXCEPT !.state = "done"]
<1>1. /\ exchanges[x].state = "draining" /\ agents' = [agents EXCEPT ![id].draining = d]
      /\ UNCHANGED <<cached, owners>>
  BY DEF FinishesDrain
<1>2. \/ exchanges' = [exchanges EXCEPT ![x] = ended] /\ sockets' = sockets
      \/ exchanges' = [exchanges EXCEPT ![x] = done] /\ sockets' = Destroyed({c})
  BY DEF FinishesDrain
<1>3. /\ DOMAIN ended = ExchangeFields /\ ended.state = "ended"
      /\ ended.socket = c /\ ended.agent = id /\ ended.target = exchanges[x].target
      /\ DOMAIN done = ExchangeFields /\ done.state = "done"
  BY ExchangeRecord DEF ExchangeFields
<1> HIDE DEF ended, done
<1>4. id \in DOMAIN agents
  BY <1>1, HeldSocket DEF Occupying
<1>5. /\ agents[id].draining = Draining(exchanges, id)
      /\ agents[id].retired => agents[id].draining = {}
  BY <1>4 DEF AgentsInv, ConnectionsOk, AgentOk
<1>6. /\ Draining(exchanges', id) = d
      /\ \A i : i # id => Draining(exchanges', i) = Draining(exchanges, i)
  BY <1>1, <1>2, <1>3, <1>5 DEF Draining, AgentsInv, ConnectionsOk
<1>7. \A k \in {c} : k \in Connection /\ sockets[k].at = "busy"
  BY <1>1, HeldSocket DEF Occupying
<1>8. CASE exchanges' = [exchanges EXCEPT ![x] = ended] /\ sockets' = sockets
  <2>1. /\ DOMAIN agents' = DOMAIN agents
        /\ \A i \in DOMAIN agents : agents'[i].retired = agents[i].retired
        /\ \A i \in DOMAIN agents : AgentOk(agents'[i], sockets', exchanges', i)
    <3> HIDE DEF id, c
    <3>1. agents[id].retired => d = {}
      BY <1>5
    <3> HIDE DEF d
    <3> QED BY <1>1, <1>4, <1>6, <1>8, <3>1, TailsChange
  <2>2. ExchangeOk(ended, agents', sockets')
    BY <1>1, <1>3, <1>8, <2>1, HeldSocket DEF ExchangeOk, Occupying
  <2>3. DOMAIN sockets' = Connection /\ \A k \in Connection : SocketOk(sockets'[k], agents')
    BY <1>8, <2>1 DEF AgentsInv, ConnectionsOk, SocketOk
  <2>4. LeavesOthers(x, ended)
    BY <1>1, <1>3, <1>8, HeldSocket DEF Occupying, LeavesOthers
  <2> QED BY <1>1, <1>8, <2>1, <2>2, <2>3, <2>4, OneExchange
<1>9. CASE exchanges' = [exchanges EXCEPT ![x] = done] /\ sockets' = Destroyed({c})
  <2>1. /\ DOMAIN sockets' = Connection /\ \A k \in Connection : SocketOk(sockets'[k], agents)
        /\ \A k \in Connection : k # c => sockets'[k] = sockets[k]
        /\ \A i : IdleAmong(sockets', i) = IdleAmong(sockets, i)
    BY <1>7, <1>9, BusyCloses
  <2>2. /\ DOMAIN agents' = DOMAIN agents
        /\ \A i \in DOMAIN agents : agents'[i].retired = agents[i].retired
        /\ \A i \in DOMAIN agents : AgentOk(agents'[i], sockets', exchanges', i)
    <3> HIDE DEF id, c
    <3>1. agents[id].retired => d = {}
      BY <1>5
    <3> HIDE DEF d
    <3> QED BY <1>1, <1>4, <1>6, <2>1, <3>1, TailsChange
  <2>3. ExchangeOk(done, agents', sockets')
    BY <1>3 DEF ExchangeOk, Occupying
  <2>4. \A k \in Connection : SocketOk(sockets'[k], agents')
    BY <2>1, <2>2 DEF SocketOk
  <2>5. LeavesOthers(x, done)
    BY <1>1, <1>3, <2>1, HeldSocket DEF Occupying, LeavesOthers
  <2> QED BY <1>1, <1>9, <2>1, <2>2, <2>3, <2>4, <2>5, OneExchange
<1> QED BY <1>2, <1>8, <1>9

LEMMA ConnectSucceedsStep ==
  ASSUME AgentsInv, NEW x \in Exchange, ConnectSucceeds(x)
  PROVE  AgentsInv'
<1>1. PICK c \in Connection :
        /\ sockets[c] = Unused
        /\ sockets' = [sockets EXCEPT ![c] =
             [at |-> "busy", agent |-> exchanges[x].agent, target |-> exchanges[x].target]]
        /\ exchanges' = [exchanges EXCEPT ![x].state = "open", ![x].socket = c]
  BY DEF ConnectSucceeds
<1> DEFINE e == [exchanges[x] EXCEPT !.state = "open", !.socket = c]
           b == [at |-> "busy", agent |-> exchanges[x].agent, target |-> exchanges[x].target]
<1>2. /\ exchanges[x].state = "connecting" /\ exchanges' = [exchanges EXCEPT ![x] = e]
      /\ sockets' = [sockets EXCEPT ![c] = b] /\ UNCHANGED <<agents, cached, owners>>
  BY <1>1 DEF ConnectSucceeds, AgentsInv, ConnectionsOk
<1>3. /\ DOMAIN e = ExchangeFields /\ e.state = "open" /\ e.socket = c
      /\ e.agent = exchanges[x].agent /\ e.target = exchanges[x].target
  BY ExchangeRecord DEF ExchangeFields
<1>4. exchanges[x].agent \in DOMAIN agents /\ exchanges[x].target \in Target
  BY <1>2, HeldSocket DEF ExchangeOk
<1>5. SocketOk(b, agents) /\ b.at = "busy"
  BY <1>4 DEF SocketOk
<1>6. b = [at |-> "busy", agent |-> e.agent, target |-> e.target]
  BY <1>3
<1> HIDE DEF e, b
<1>7. /\ DOMAIN sockets' = Connection /\ sockets'[c] = b
      /\ \A k \in Connection : k # c => sockets'[k] = sockets[k]
  BY <1>2 DEF AgentsInv, ConnectionsOk
<1>8. \A k \in Connection : SocketOk(sockets'[k], agents')
  BY <1>2, <1>5, <1>7 DEF AgentsInv, ConnectionsOk
<1>9. \A i : IdleAmong(sockets', i) = IdleAmong(sockets, i)
  BY <1>1, <1>5, <1>7 DEF IdleAmong, Unused
<1>10. \A i : Draining(exchanges', i) = Draining(exchanges, i)
  BY <1>2, <1>3 DEF Draining, AgentsInv, ConnectionsOk
<1>11. \A i \in DOMAIN agents : AgentOk(agents'[i], sockets', exchanges', i)
  BY <1>2, <1>9, <1>10 DEF AgentOk, AgentsInv, ConnectionsOk
<1>12. ExchangeOk(e, agents', sockets')
  BY <1>2, <1>3, <1>4, <1>6, <1>7 DEF ExchangeOk, Occupying
<1>13. LeavesOthers(x, e)
  <2> SUFFICES ASSUME NEW y \in Exchange, y # x, exchanges[y].state \in Occupying
               PROVE  /\ sockets'[exchanges[y].socket] = sockets[exchanges[y].socket]
                      /\ exchanges[y].socket # e.socket
    BY DEF LeavesOthers
  <2>1. exchanges[y].socket \in Connection /\ sockets[exchanges[y].socket].at = "busy"
    BY HeldSocket
  <2>2. exchanges[y].socket # c
    BY <1>1, <2>1 DEF Unused
  <2> QED BY <1>3, <1>7, <2>1, <2>2
<1> QED BY <1>2, <1>7, <1>8, <1>11, <1>12, <1>13, OneExchange

\* Only the idle sockets one agent times change.
LEMMA TimersChange ==
  ASSUME AgentsInv, NEW id \in DOMAIN agents, NEW l,
         agents' = [agents EXCEPT ![id] = [agents[id] EXCEPT !.idleTimers = l]],
         Lists(l, IdleAmong(sockets', id)), Len(l) <= MaxIdlePerAgent,
         agents[id].retired => IdleAmong(sockets', id) = {},
         \A i : i # id => IdleAmong(sockets', i) = IdleAmong(sockets, i),
         \A i : Draining(exchanges', i) = Draining(exchanges, i)
  PROVE  /\ DOMAIN agents' = DOMAIN agents
         /\ \A i \in DOMAIN agents : agents'[i].retired = agents[i].retired
         /\ \A i \in DOMAIN agents : AgentOk(agents'[i], sockets', exchanges', i)
<1>1. AgentOk(agents[id], sockets, exchanges, id)
  BY DEF AgentsInv, ConnectionsOk
<1> DEFINE a == [agents[id] EXCEPT !.idleTimers = l]
<1>2. /\ DOMAIN a = AgentFields /\ a.retired = agents[id].retired
      /\ a.idleTimers = l /\ a.draining = agents[id].draining
  BY <1>1 DEF AgentOk, AgentFields
<1>3. agents' = [agents EXCEPT ![id] = a]
  OBVIOUS
<1> HIDE DEF a
<1>4. /\ DOMAIN agents' = DOMAIN agents /\ agents'[id] = a
      /\ \A i \in DOMAIN agents : i # id => agents'[i] = agents[i]
  BY <1>3
<1>5. AgentOk(a, sockets', exchanges', id)
  BY <1>1, <1>2 DEF AgentOk
<1>6. \A i \in DOMAIN agents : i # id => AgentOk(agents'[i], sockets', exchanges', i)
  BY <1>4 DEF AgentOk, AgentsInv, ConnectionsOk
<1> QED BY <1>2, <1>4, <1>5, <1>6

\* A step that leaves the exchanges and what they hold alone.
LEMMA NoExchange ==
  ASSUME AgentsInv, DOMAIN exchanges' = Exchange,
         \A x \in Exchange : exchanges'[x] = exchanges[x],
         DOMAIN agents' = DOMAIN agents, DOMAIN sockets' = Connection,
         \A c \in Connection : SocketOk(sockets'[c], agents'),
         \A id \in DOMAIN agents : AgentOk(agents'[id], sockets', exchanges', id),
         \A id \in DOMAIN agents : agents'[id].retired = agents[id].retired,
         \A c \in Connection : sockets[c].at = "busy" => sockets'[c] = sockets[c],
         UNCHANGED << cached, owners >>
  PROVE  AgentsInv'
<1>1. \A x \in Exchange : ExchangeOk(exchanges'[x], agents', sockets')
  <2> SUFFICES ASSUME NEW x \in Exchange PROVE ExchangeOk(exchanges[x], agents', sockets')
    OBVIOUS
  <2>1. /\ ExchangeOk(exchanges[x], agents, sockets)
        /\ exchanges[x].state \in Occupying =>
             exchanges[x].socket \in Connection /\ sockets[exchanges[x].socket].at = "busy"
    BY HeldSocket
  <2> QED BY <2>1 DEF ExchangeOk
<1>2. Apart(exchanges')
  BY DEF Apart, AgentsInv, ConnectionsOk
<1>3. Serving(agents') = Serving(agents)
  BY DEF Serving
<1>4. ConnectionsOk(agents', sockets', exchanges')
  BY <1>1, <1>2 DEF ConnectionsOk
<1> QED BY <1>3, <1>4 DEF AgentsInv

\* An idle socket leaves the free list, taken by a request or closed.
LEMMA LeavesFreeList ==
  ASSUME AgentsInv, NEW c \in Connection, sockets[c].at = "free",
         NEW id, id = sockets[c].agent, NEW s, s.at # "free", SocketOk(s, agents),
         DOMAIN sockets' = Connection, sockets'[c] = s,
         \A k \in Connection : k # c => sockets'[k] = sockets[k],
         agents' = [agents EXCEPT ![id] = clearIdleTimer(@, c)],
         \A i : Draining(exchanges', i) = Draining(exchanges, i)
  PROVE  /\ DOMAIN agents' = DOMAIN agents
         /\ \A i \in DOMAIN agents : agents'[i].retired = agents[i].retired
         /\ \A i \in DOMAIN agents : AgentOk(agents'[i], sockets', exchanges', i)
         /\ \A k \in Connection : SocketOk(sockets'[k], agents')
<1>1. SocketOk(sockets[c], agents)
  BY DEF AgentsInv, ConnectionsOk
<1>2. id \in DOMAIN agents
  BY <1>1, SocketStates
<1>3. AgentOk(agents[id], sockets, exchanges, id)
  BY <1>2 DEF AgentsInv, ConnectionsOk
<1>4. c \in IdleAmong(sockets, id)
  BY DEF IdleAmong
<1>5. /\ IdleAmong(sockets', id) = IdleAmong(sockets, id) \ {c}
      /\ \A i : i # id => IdleAmong(sockets', i) = IdleAmong(sockets, i)
  BY DEF IdleAmong
<1> DEFINE l == RemoveFirst(agents[id].idleTimers, c)
<1>6. /\ Lists(l, IdleAmong(sockets', id)) /\ Len(l) = Len(agents[id].idleTimers) - 1
      /\ Len(agents[id].idleTimers) \in Nat
  BY <1>3, <1>4, <1>5, ListRemove, ListSet DEF AgentOk
<1>7. Len(l) <= MaxIdlePerAgent
  BY <1>3, <1>6, AgentsAssumption DEF AgentOk
<1>8. agents' = [agents EXCEPT ![id] = [agents[id] EXCEPT !.idleTimers = l]]
  BY <1>2 DEF clearIdleTimer
<1> HIDE DEF l
<1>9. agents[id].retired => IdleAmong(sockets', id) = {}
  BY <1>3, <1>5 DEF AgentOk
<1>10. /\ DOMAIN agents' = DOMAIN agents
       /\ \A i \in DOMAIN agents : agents'[i].retired = agents[i].retired
       /\ \A i \in DOMAIN agents : AgentOk(agents'[i], sockets', exchanges', i)
  BY <1>2, <1>5, <1>6, <1>7, <1>8, <1>9, TimersChange
<1>11. \A k \in Connection : SocketOk(sockets'[k], agents)
  BY DEF AgentsInv, ConnectionsOk
<1> QED BY <1>10, <1>11 DEF SocketOk

LEMMA PeerClosesStep ==
  ASSUME AgentsInv, NEW c \in Connection, PeerCloses(c)
  PROVE  AgentsInv'
<1>1. /\ sockets[c].at = "free" /\ sockets' = Destroyed({c})
      /\ agents' = [agents EXCEPT ![sockets[c].agent] = clearIdleTimer(@, c)]
      /\ UNCHANGED << cached, exchanges, owners >>
  BY DEF PeerCloses
<1>2. /\ DOMAIN sockets' = Connection /\ sockets'[c] = Unused
      /\ \A k \in Connection : k # c => sockets'[k] = sockets[k]
  BY <1>1 DEF Destroyed
<1>3. Unused.at # "free" /\ SocketOk(Unused, agents)
  BY DEF Unused, SocketOk
<1>4. \A i : Draining(exchanges', i) = Draining(exchanges, i)
  BY <1>1
<1> HIDE DEF Unused
<1>5. /\ DOMAIN agents' = DOMAIN agents
      /\ \A i \in DOMAIN agents : agents'[i].retired = agents[i].retired
      /\ \A i \in DOMAIN agents : AgentOk(agents'[i], sockets', exchanges', i)
      /\ \A k \in Connection : SocketOk(sockets'[k], agents')
  BY <1>1, <1>2, <1>3, <1>4, LeavesFreeList
<1>6. DOMAIN exchanges' = Exchange /\ \A x \in Exchange : exchanges'[x] = exchanges[x]
  BY <1>1 DEF AgentsInv, ConnectionsOk
<1> QED BY <1>1, <1>2, <1>5, <1>6, NoExchange

LEMMA IdleTimerStep ==
  ASSUME AgentsInv, NEW id \in AgentIds, IdleTimerFires(id)
  PROVE  AgentsInv'
<1>1. PICK c \in ToSet(agents[id].idleTimers) :
        /\ agents' = [agents EXCEPT ![id] = clearIdleTimer(@, c)]
        /\ sockets' = Destroyed({c})
        /\ exchanges' = [x \in Exchange |->
             IF exchanges[x].socket = c /\ exchanges[x].state \in {"open", "draining"}
             THEN [exchanges[x] EXCEPT !.state = "done"] ELSE exchanges[x]]
        /\ UNCHANGED << cached, owners >>
  BY DEF IdleTimerFires
<1>2. AgentOk(agents[id], sockets, exchanges, id)
  BY DEF AgentIds, AgentsInv, ConnectionsOk
<1>3. ToSet(agents[id].idleTimers) = IdleAmong(sockets, id)
  BY <1>2, ListSet DEF AgentOk
<1>4. c \in Connection /\ sockets[c].at = "free" /\ id = sockets[c].agent
  BY <1>3 DEF IdleAmong
<1>5. DOMAIN exchanges' = Exchange /\ \A x \in Exchange : exchanges'[x] = exchanges[x]
  <2>1. \A x \in Exchange : ~(exchanges[x].socket = c /\ exchanges[x].state \in {"open", "draining"})
    BY <1>4, HeldSocket DEF Occupying
  <2> QED BY <1>1, <2>1
<1>6. /\ DOMAIN sockets' = Connection /\ sockets'[c] = Unused
      /\ \A k \in Connection : k # c => sockets'[k] = sockets[k]
  BY <1>1, <1>4 DEF Destroyed
<1>7. Unused.at # "free" /\ SocketOk(Unused, agents)
  BY DEF Unused, SocketOk
<1>8. \A i : Draining(exchanges', i) = Draining(exchanges, i)
  BY <1>5 DEF Draining
<1> HIDE DEF Unused
<1>9. /\ DOMAIN agents' = DOMAIN agents
      /\ \A i \in DOMAIN agents : agents'[i].retired = agents[i].retired
      /\ \A i \in DOMAIN agents : AgentOk(agents'[i], sockets', exchanges', i)
      /\ \A k \in Connection : SocketOk(sockets'[k], agents')
  BY <1>1, <1>4, <1>6, <1>7, <1>8, LeavesFreeList
<1>10. \A k \in Connection : sockets[k].at = "busy" => sockets'[k] = sockets[k]
  BY <1>4, <1>6
<1> QED BY <1>1, <1>5, <1>6, <1>9, <1>10, NoExchange

LEMMA SocketFreedStep ==
  ASSUME AgentsInv, NEW x \in Exchange, SocketFreed(x)
  PROVE  AgentsInv'
<1> DEFINE id == exchanges[x].agent
           c == exchanges[x].socket
           timers == agents[id].idleTimers
           closing == ClosedOnFree(agents[id], id, exchanges[x].target, c)
           kept == IF closing = {} THEN timers ELSE Tail(timers)
           l == IF c \in closing THEN timers ELSE Append(kept, c)
           e == [exchanges[x] EXCEPT !.state = "done"]
           freed == [sockets[c] EXCEPT !.at = "free"]
<1>1. /\ exchanges[x].state = "ended" /\ exchanges' = [exchanges EXCEPT ![x] = e]
      /\ sockets' = [Destroyed(closing) EXCEPT ![c] = IF c \in closing THEN @ ELSE freed]
      /\ agents' = [agents EXCEPT ![id].idleTimers = IF c \in closing THEN @ ELSE Append(kept, c)]
      /\ UNCHANGED << cached, owners >>
  BY DEF SocketFreed
<1>2. DOMAIN e = ExchangeFields /\ e.state = "done"
  BY ExchangeRecord DEF ExchangeFields
<1> HIDE DEF e
<1>3. /\ id \in DOMAIN agents /\ c \in Connection /\ sockets[c].at = "busy"
      /\ \A y \in Exchange : y # x /\ exchanges[y].state \in Occupying =>
            exchanges[y].socket # c
      /\ exchanges[x].target \in Target
      /\ sockets[c] = [at |-> "busy", agent |-> id, target |-> exchanges[x].target]
  BY <1>1, HeldSocket DEF Occupying, ExchangeOk
<1>4. /\ AgentOk(agents[id], sockets, exchanges, id)
      /\ Lists(timers, IdleAmong(sockets, id)) /\ Len(timers) <= MaxIdlePerAgent
  BY <1>3 DEF AgentsInv, ConnectionsOk, AgentOk
<1>5. c \notin IdleAmong(sockets, id)
  BY <1>3 DEF IdleAmong
<1>6. /\ DOMAIN sockets' = Connection
      /\ sockets'[c] = IF c \in closing THEN Unused ELSE freed
      /\ \A k \in Connection : k # c => sockets'[k] = IF k \in closing THEN Unused ELSE sockets[k]
  BY <1>1, <1>3 DEF Destroyed
<1>7. /\ freed = [at |-> "free", agent |-> id, target |-> exchanges[x].target]
      /\ freed.at = "free" /\ freed.agent = id /\ SocketOk(freed, agents)
  BY <1>3 DEF SocketOk
<1>8. Unused.at = "none" /\ SocketOk(Unused, agents)
  BY DEF Unused, SocketOk
<1> HIDE DEF freed, Unused
\* What closes is the socket itself, or the one that has been idle longest.
<1>9. /\ closing \subseteq {c} \cup IdleAmong(sockets, id)
      /\ c \in closing => closing = {c}
      /\ agents[id].retired => closing = {c}
      /\ c \notin closing => \/ closing = {} /\ Len(timers) < MaxIdlePerAgent
                             \/ timers # << >> /\ closing = {Head(timers)}
  <2>1. Len(timers) \in Nat /\ (Len(timers) > 0 => timers # << >>)
    BY <1>4, ListSet
  <2>2. timers # << >> => Head(timers) \in IdleAmong(sockets, id)
    BY <1>4, ListTail
  <2> HIDE DEF id, c
  <2> QED BY <1>4, <1>5, <2>1, <2>2, AgentsAssumption DEF ClosedOnFree, OldestIdle
<1> HIDE DEF closing
<1>10. /\ Lists(l, IdleAmong(sockets', id)) /\ Len(l) <= MaxIdlePerAgent
       /\ \A i : i # id => IdleAmong(sockets', i) = IdleAmong(sockets, i)
       /\ agents[id].retired => IdleAmong(sockets', id) = {}
  <2>0. \A i : i # id => IdleAmong(sockets', i) = IdleAmong(sockets, i)
    BY <1>3, <1>6, <1>7, <1>8, <1>9 DEF IdleAmong
  <2>1. CASE c \in closing
    <3>1. IdleAmong(sockets', id) = IdleAmong(sockets, id)
      BY <1>3, <1>6, <1>8, <1>9, <2>1 DEF IdleAmong
    <3>2. l = timers
      BY <2>1
    <3> QED BY <1>4, <2>0, <3>1, <3>2 DEF AgentOk
  <2>2. CASE closing = {} /\ Len(timers) < MaxIdlePerAgent
    <3>1. IdleAmong(sockets', id) = IdleAmong(sockets, id) \cup {c}
      BY <1>3, <1>6, <1>7, <2>2 DEF IdleAmong
    <3>2. l = Append(timers, c)
      BY <2>2
    <3>3. Lists(l, IdleAmong(sockets', id)) /\ Len(l) = Len(timers) + 1
      <4> HIDE DEF l, timers, c, id
      <4> QED BY <1>4, <1>5, <3>1, <3>2, ListAppend
    <3>4. Len(timers) \in Nat
      BY <1>4, ListSet
    <3> HIDE DEF l, timers, c, id
    <3>5. Len(l) <= MaxIdlePerAgent
      BY <2>2, <3>3, <3>4, AgentsAssumption
    <3>6. ~agents[id].retired
      BY <1>9, <2>2
    <3> QED BY <2>0, <3>3, <3>5, <3>6
  <2>3. CASE c \notin closing /\ timers # << >> /\ closing = {Head(timers)}
    <3> DEFINE h == Head(timers)
    <3>1. /\ h \in IdleAmong(sockets, id) /\ Lists(Tail(timers), IdleAmong(sockets, id) \ {h})
          /\ Len(Tail(timers)) = Len(timers) - 1
      <4> HIDE DEF timers, id
      <4> QED BY <1>4, <2>3, ListTail
    <3>2. IdleAmong(sockets', id) = (IdleAmong(sockets, id) \ {h}) \cup {c}
      BY <1>3, <1>6, <1>7, <1>8, <2>3, <3>1 DEF IdleAmong
    <3>3. l = Append(Tail(timers), c)
      BY <2>3
    <3>4. Lists(l, IdleAmong(sockets', id)) /\ Len(l) = Len(Tail(timers)) + 1
      <4> DEFINE t == Tail(timers)
                 s == IdleAmong(sockets, id) \ {h}
      <4>1. Lists(t, s) /\ c \notin s /\ l = Append(t, c) /\ IdleAmong(sockets', id) = s \cup {c}
        BY <1>5, <3>1, <3>2, <3>3
      <4> HIDE DEF t, s, l, c, id
      <4>2. Lists(l, s \cup {c}) /\ Len(l) = Len(t) + 1
        BY <4>1, ListAppend
      <4> QED BY <4>1, <4>2 DEF t
    <3>5. Len(timers) \in Nat
      BY <1>4, ListSet
    <3> HIDE DEF l, timers, c, id
    <3>6. Len(l) <= MaxIdlePerAgent
      <4> HIDE DEF h
      <4> QED BY <1>4, <3>1, <3>4, <3>5, AgentsAssumption
    <3>7. ~agents[id].retired
      BY <1>9, <2>3
    <3> QED BY <2>0, <3>4, <3>6, <3>7
  <2> QED BY <1>9, <2>1, <2>2, <2>3
<1>11. agents' = [agents EXCEPT ![id] = [agents[id] EXCEPT !.idleTimers = l]]
  BY <1>1, <1>3
<1>12. \A i : Draining(exchanges', i) = Draining(exchanges, i)
  BY <1>1, <1>2 DEF Draining, AgentsInv, ConnectionsOk
<1> HIDE DEF l, id, c, timers
<1>13. /\ DOMAIN agents' = DOMAIN agents
       /\ \A i \in DOMAIN agents : agents'[i].retired = agents[i].retired
       /\ \A i \in DOMAIN agents : AgentOk(agents'[i], sockets', exchanges', i)
  BY <1>3, <1>10, <1>11, <1>12, TimersChange
<1>14. \A k \in Connection : SocketOk(sockets'[k], agents')
  <2>1. \A k \in Connection : SocketOk(sockets'[k], agents)
    BY <1>6, <1>7, <1>8 DEF AgentsInv, ConnectionsOk
  <2> QED BY <1>13, <2>1 DEF SocketOk
<1>15. ExchangeOk(e, agents', sockets')
  BY <1>2 DEF ExchangeOk, Occupying
<1>16. LeavesOthers(x, e)
  <2> SUFFICES ASSUME NEW y \in Exchange, y # x, exchanges[y].state \in Occupying
               PROVE  sockets'[exchanges[y].socket] = sockets[exchanges[y].socket]
    BY <1>2 DEF LeavesOthers, Occupying
  <2>1. /\ exchanges[y].socket \in Connection /\ exchanges[y].socket # c
        /\ sockets[exchanges[y].socket].at = "busy"
    BY <1>3, HeldSocket
  <2>2. exchanges[y].socket \notin closing
    BY <1>9, <2>1 DEF IdleAmong
  <2> QED BY <1>6, <2>1, <2>2
<1> QED BY <1>1, <1>6, <1>13, <1>14, <1>15, <1>16, OneExchange

\* The agents ids are retired: their idle sockets and their tails are gone.
RetiredState(ids, ag, so, ex) ==
  /\ DOMAIN ag = DOMAIN agents
  /\ \A n \in DOMAIN agents : ag[n] = IF n \in ids THEN Retired(agents[n]) ELSE agents[n]
  /\ so = Destroyed(UNION {ClosedByRetiring(id) : id \in ids})
  /\ DOMAIN ex = Exchange
  /\ \A x \in Exchange :
       ex[x] = IF \E id \in ids : x \in EndedByRetiring(id)
               THEN [exchanges[x] EXCEPT !.state = "done"] ELSE exchanges[x]

LEMMA Retiring ==
  ASSUME AgentsInv, NEW ids \in SUBSET DOMAIN agents, NEW ag, NEW so, NEW ex,
         RetiredState(ids, ag, so, ex)
  PROVE  ConnectionsOk(ag, so, ex) /\ Serving(ag) = Serving(agents) \ ids
<1> DEFINE closing == UNION {ClosedByRetiring(id) : id \in ids}
           ended == {x \in Exchange : exchanges[x].state = "draining" /\ exchanges[x].agent \in ids}
<1>1. \A id \in DOMAIN agents : AgentOk(agents[id], sockets, exchanges, id)
  BY DEF AgentsInv, ConnectionsOk
<1>2. \A id \in ids : /\ ToSet(agents[id].idleTimers) = IdleAmong(sockets, id)
                      /\ agents[id].draining = Draining(exchanges, id)
  BY <1>1, ListSet DEF AgentOk
<1>3. closing = {c \in Connection : sockets[c].at = "free" /\ sockets[c].agent \in ids}
                  \cup {exchanges[x].socket : x \in ended}
  BY <1>2 DEF ClosedByRetiring, IdleAmong, Draining
<1>4. \A x \in Exchange : (\E id \in ids : x \in EndedByRetiring(id)) <=> x \in ended
  BY <1>2 DEF EndedByRetiring, Draining
<1>5. /\ DOMAIN so = Connection
      /\ \A c \in Connection : so[c] = IF c \in closing THEN Unused ELSE sockets[c]
  BY DEF RetiredState, Destroyed
<1>6. \A x \in Exchange :
        /\ DOMAIN ex[x] = ExchangeFields
        /\ x \in ended => ex[x].state = "done"
        /\ x \notin ended => ex[x] = exchanges[x]
  BY <1>4, ExchangeRecord DEF RetiredState, ExchangeFields
<1> HIDE DEF closing
<1>7. \A x \in Exchange : exchanges[x].state \in Occupying =>
        /\ exchanges[x].socket \in Connection /\ sockets[exchanges[x].socket].at = "busy"
        /\ exchanges[x].agent \in DOMAIN agents
  BY HeldSocket
<1>8. \A x \in ended : exchanges[x].state \in Occupying
  BY DEF Occupying
<1>9. \A c \in Connection : sockets[c].at = "free" =>
         (c \in closing <=> sockets[c].agent \in ids)
  BY <1>3, <1>7, <1>8
<1>10. \A id : IdleAmong(so, id) = IF id \in ids THEN {} ELSE IdleAmong(sockets, id)
  BY <1>5, <1>9 DEF IdleAmong, Unused
<1>11. \A id : Draining(ex, id) = IF id \in ids THEN {} ELSE Draining(exchanges, id)
  BY <1>6 DEF Draining
<1>12. \A c \in Connection : SocketOk(so[c], ag)
  BY <1>5 DEF SocketOk, RetiredState, AgentsInv, ConnectionsOk
<1>13. ASSUME NEW id \in DOMAIN ag PROVE AgentOk(ag[id], so, ex, id)
  <2>1. id \in DOMAIN agents /\ AgentOk(agents[id], sockets, exchanges, id)
    BY <1>1 DEF RetiredState
  <2>2. CASE id \in ids
    <3>1. /\ DOMAIN Retired(agents[id]) = AgentFields /\ Retired(agents[id]).retired = TRUE
          /\ Retired(agents[id]).idleTimers = << >> /\ Retired(agents[id]).draining = {}
      BY <2>1 DEF Retired, AgentOk, AgentFields
    <3>2. ag[id] = Retired(agents[id])
      BY <2>1, <2>2 DEF RetiredState
    <3>3. Len(<< >>) <= MaxIdlePerAgent
      BY AgentsAssumption
    <3> QED BY <1>10, <1>11, <2>2, <3>1, <3>2, <3>3, ListEmpty DEF AgentOk
  <2>3. CASE id \notin ids
    <3>1. ag[id] = agents[id]
      BY <2>1, <2>3 DEF RetiredState
    <3> QED BY <1>10, <1>11, <2>1, <2>3, <3>1 DEF AgentOk
  <2> QED BY <2>2, <2>3
<1>14. \A x \in Exchange : ExchangeOk(ex[x], ag, so)
  <2> SUFFICES ASSUME NEW x \in Exchange PROVE ExchangeOk(ex[x], ag, so)
    OBVIOUS
  <2>1. ExchangeOk(exchanges[x], agents, sockets)
    BY HeldSocket
  <2>2. CASE x \in ended
    BY <1>6, <2>2 DEF ExchangeOk, Occupying
  <2>3. CASE x \notin ended
    <3>1. ASSUME exchanges[x].state \in Occupying
          PROVE  so[exchanges[x].socket] = sockets[exchanges[x].socket]
      <4>1. \A y \in ended : exchanges[y].socket # exchanges[x].socket
        BY <1>8, <2>3, <3>1, HeldSocket
      <4>2. exchanges[x].socket \notin closing
        BY <1>3, <1>7, <3>1, <4>1
      <4> QED BY <1>5, <1>7, <3>1, <4>2
    <3>2. DOMAIN ag = DOMAIN agents /\ ex[x] = exchanges[x]
      BY <1>6, <2>3 DEF RetiredState
    <3> QED BY <2>1, <3>1, <3>2 DEF ExchangeOk
  <2> QED BY <2>2, <2>3
<1>15. Apart(ex)
  <2>1. \A x \in Exchange : ex[x].state \in Occupying => ex[x] = exchanges[x]
    BY <1>6 DEF Occupying
  <2>2. Apart(exchanges)
    BY DEF AgentsInv, ConnectionsOk
  <2> QED BY <2>1, <2>2 DEF Apart
<1>16. Serving(ag) = Serving(agents) \ ids
  <2>1. ASSUME NEW id \in DOMAIN agents
        PROVE  id \in Serving(ag) <=> id \in Serving(agents) \ ids
    <3>1. DOMAIN agents[id] = AgentFields
      BY <1>1 DEF AgentOk
    <3>2. Retired(agents[id]).retired = TRUE
      BY <3>1 DEF Retired, AgentFields
    <3> QED BY <3>2 DEF Serving, RetiredState
  <2> QED BY <2>1 DEF Serving, RetiredState
<1> QED BY <1>5, <1>12, <1>13, <1>14, <1>15, <1>16 DEF ConnectionsOk, RetiredState

\* A new agent, and a request x that connects through it.
AgentAdded(id, proxy, ag, more) ==
  /\ DOMAIN more = DOMAIN ag \cup {id}
  /\ more[id] = NewAgent(proxy)
  /\ \A n \in DOMAIN ag : more[n] = ag[n]

ConnectsThrough(x, id, ex, then) ==
  /\ DOMAIN then = Exchange
  /\ DOMAIN then[x] = ExchangeFields
  /\ then[x].state = "connecting" /\ then[x].agent = id /\ then[x].target \in Target
  /\ \A y \in Exchange : y # x => then[y] = ex[y]

LEMMA Adding ==
  ASSUME NEW ag, NEW so, NEW ex, ConnectionsOk(ag, so, ex), NEW id, id \notin DOMAIN ag,
         NEW proxy, NEW more, AgentAdded(id, proxy, ag, more),
         NEW x \in Exchange, ex[x].state = "idle", NEW then, ConnectsThrough(x, id, ex, then)
  PROVE  ConnectionsOk(more, so, then) /\ Serving(more) = Serving(ag) \cup {id}
<1>1. /\ DOMAIN so = Connection /\ DOMAIN ex = Exchange
      /\ \A c \in Connection : SocketOk(so[c], ag)
      /\ \A n \in DOMAIN ag : AgentOk(ag[n], so, ex, n)
      /\ \A y \in Exchange : ExchangeOk(ex[y], ag, so)
      /\ Apart(ex)
  BY DEF ConnectionsOk
<1>2. IdleAmong(so, id) = {}
  BY <1>1, SocketStates DEF IdleAmong
<1>3. Draining(then, id) = {} /\ \A n : Draining(then, n) = Draining(ex, n)
  <2>1. \A y \in Exchange : ex[y].state = "draining" => ex[y].agent \in DOMAIN ag
    BY <1>1 DEF ExchangeOk, Occupying
  <2>2. \A y \in Exchange : then[y].state = "draining" => y # x /\ then[y] = ex[y]
    BY DEF ConnectsThrough
  <2>3. \A n : Draining(then, n) = Draining(ex, n)
    BY <2>2 DEF Draining, ConnectsThrough
  <2> QED BY <2>1, <2>3 DEF Draining
<1>4. AgentOk(more[id], so, then, id) /\ ~more[id].retired
  <2>1. /\ DOMAIN NewAgent(proxy) = AgentFields /\ NewAgent(proxy).retired = FALSE
        /\ NewAgent(proxy).idleTimers = << >> /\ NewAgent(proxy).draining = {}
    BY DEF NewAgent, AgentFields
  <2>2. Len(<< >>) <= MaxIdlePerAgent
    BY AgentsAssumption
  <2> QED BY <1>2, <1>3, <2>1, <2>2, ListEmpty DEF AgentOk, AgentAdded
<1>5. \A n \in DOMAIN ag : AgentOk(more[n], so, then, n)
  BY <1>1, <1>3 DEF AgentOk, AgentAdded
<1>6. \A c \in Connection : SocketOk(so[c], more)
  BY <1>1 DEF SocketOk, AgentAdded
<1>7. \A y \in Exchange : ExchangeOk(then[y], more, so)
  <2>1. ExchangeOk(then[x], more, so)
    BY DEF ExchangeOk, ConnectsThrough, AgentAdded, Occupying
  <2>2. \A y \in Exchange : y # x => ExchangeOk(then[y], more, so)
    BY <1>1 DEF ExchangeOk, ConnectsThrough, AgentAdded
  <2> QED BY <2>1, <2>2
<1>8. Apart(then)
  BY <1>1 DEF Apart, ConnectsThrough, Occupying
<1>9. Serving(more) = Serving(ag) \cup {id}
  BY <1>4 DEF Serving, AgentAdded
<1> QED BY <1>1, <1>4, <1>5, <1>6, <1>7, <1>8, <1>9 DEF ConnectionsOk, ConnectsThrough, AgentAdded

LEMMA BegunExchange ==
  ASSUME NEW s, NEW id, NEW target, NEW state, NEW socket
  PROVE  /\ DOMAIN Begun(s, id, target, state, socket) = ExchangeFields
         /\ Begun(s, id, target, state, socket).agent = id
         /\ Begun(s, id, target, state, socket).target = target
         /\ Begun(s, id, target, state, socket).state = state
         /\ Begun(s, id, target, state, socket).socket = socket
  BY DEF Begun, ExchangeFields

LEMMA CachedServe ==
  ASSUME AgentsInv, NEW proxy
  PROVE  CachedFor(proxy) \subseteq Serving(agents) /\ Serving(agents) \subseteq DOMAIN agents
<1>1. ToSet(cached) = Serving(agents)
  BY ListSet DEF AgentsInv
<1> QED BY <1>1 DEF CachedFor, Serving

LEMMA ReuseStep ==
  ASSUME AgentsInv, NEW x \in Exchange, NEW s, exchanges[x].state = "idle", ReusesSocket(x, s),
         UNCHANGED owners
  PROVE  AgentsInv'
<1>1. PICK proxy \in Proxy, target \in Target :
        \E id \in CachedFor(proxy) :
          \E c \in FreeSockets(id, target) :
            /\ agents' = [agents EXCEPT ![id] = clearIdleTimer(@, c)]
            /\ sockets' = [sockets EXCEPT ![c].at = "busy"]
            /\ exchanges' = [exchanges EXCEPT ![x] = Begun(s, id, target, "open", c)]
            /\ UNCHANGED cached
  BY DEF ReusesSocket
<1>12. PICK id \in CachedFor(proxy) :
          \E c \in FreeSockets(id, target) :
            /\ agents' = [agents EXCEPT ![id] = clearIdleTimer(@, c)]
            /\ sockets' = [sockets EXCEPT ![c].at = "busy"]
            /\ exchanges' = [exchanges EXCEPT ![x] = Begun(s, id, target, "open", c)]
            /\ UNCHANGED cached
  BY <1>1
<1>2. PICK c \in FreeSockets(id, target) :
            /\ agents' = [agents EXCEPT ![id] = clearIdleTimer(@, c)]
            /\ sockets' = [sockets EXCEPT ![c].at = "busy"]
            /\ exchanges' = [exchanges EXCEPT ![x] = Begun(s, id, target, "open", c)]
            /\ UNCHANGED cached
  BY <1>12
<1> DEFINE e == Begun(s, id, target, "open", c)
           b == [sockets[c] EXCEPT !.at = "busy"]
<1>3. /\ c \in Connection /\ sockets[c] = [at |-> "free", agent |-> id, target |-> target]
      /\ sockets[c].at = "free" /\ id = sockets[c].agent /\ id \in DOMAIN agents
  BY CachedServe DEF FreeSockets
<1>4. /\ b = [at |-> "busy", agent |-> id, target |-> target] /\ b.at = "busy"
      /\ SocketOk(b, agents)
  BY <1>3 DEF SocketOk
<1>5. /\ DOMAIN e = ExchangeFields /\ e.state = "open" /\ e.socket = c
      /\ e.agent = id /\ e.target = target
  BY BegunExchange
<1>6. /\ DOMAIN sockets' = Connection /\ sockets'[c] = b
      /\ \A k \in Connection : k # c => sockets'[k] = sockets[k]
  BY <1>2, <1>3 DEF AgentsInv, ConnectionsOk
<1>7. exchanges' = [exchanges EXCEPT ![x] = e]
  BY <1>2
<1> HIDE DEF e, b
<1>8. \A i : Draining(exchanges', i) = Draining(exchanges, i)
  BY <1>5, <1>7 DEF Draining, AgentsInv, ConnectionsOk
<1>9. /\ DOMAIN agents' = DOMAIN agents
      /\ \A i \in DOMAIN agents : agents'[i].retired = agents[i].retired
      /\ \A i \in DOMAIN agents : AgentOk(agents'[i], sockets', exchanges', i)
      /\ \A k \in Connection : SocketOk(sockets'[k], agents')
  <2>1. b.at # "free"
    BY <1>4
  <2> QED BY <1>2, <1>3, <1>4, <1>6, <1>8, <2>1, LeavesFreeList
<1>10. ExchangeOk(e, agents', sockets')
  BY <1>1, <1>3, <1>4, <1>5, <1>6, <1>9 DEF ExchangeOk, Occupying
<1>11. LeavesOthers(x, e)
  <2> SUFFICES ASSUME NEW y \in Exchange, y # x, exchanges[y].state \in Occupying
               PROVE  /\ sockets'[exchanges[y].socket] = sockets[exchanges[y].socket]
                      /\ exchanges[y].socket # e.socket
    BY DEF LeavesOthers
  <2>1. exchanges[y].socket \in Connection /\ sockets[exchanges[y].socket].at = "busy"
    BY HeldSocket
  <2> QED BY <1>3, <1>5, <1>6, <2>1
<1> QED BY <1>2, <1>6, <1>7, <1>9, <1>10, <1>11, OneExchange

LEMMA ConnectsAnewStep ==
  ASSUME AgentsInv, NEW x \in Exchange, NEW s, exchanges[x].state = "idle", ConnectsAnew(x, s),
         UNCHANGED owners
  PROVE  AgentsInv'
<1>1. PICK proxy \in Proxy, target \in Target :
        \E id \in CachedFor(proxy) :
          exchanges' = [exchanges EXCEPT ![x] = Begun(s, id, target, "connecting", NoneOf)]
  BY DEF ConnectsAnew
<1>2. PICK id \in CachedFor(proxy) :
          exchanges' = [exchanges EXCEPT ![x] = Begun(s, id, target, "connecting", NoneOf)]
  BY <1>1
<1> DEFINE e == Begun(s, id, target, "connecting", NoneOf)
<1>3. /\ DOMAIN e = ExchangeFields /\ e.state = "connecting" /\ e.agent = id /\ e.target = target
  BY BegunExchange
<1>4. exchanges' = [exchanges EXCEPT ![x] = e] /\ UNCHANGED << agents, cached, sockets, owners >>
  BY <1>2 DEF ConnectsAnew
<1>5. id \in DOMAIN agents
  BY CachedServe
<1> HIDE DEF e
<1>6. ExchangeOk(e, agents', sockets')
  BY <1>1, <1>3, <1>4, <1>5 DEF ExchangeOk, Occupying
<1>7. \A i : Draining(exchanges', i) = Draining(exchanges, i)
  BY <1>3, <1>4 DEF Draining, AgentsInv, ConnectionsOk
<1>8. \A i \in DOMAIN agents : AgentOk(agents'[i], sockets', exchanges', i)
  BY <1>4, <1>7 DEF AgentOk, AgentsInv, ConnectionsOk
<1>9. DOMAIN sockets' = Connection /\ \A c \in Connection : SocketOk(sockets'[c], agents')
  BY <1>4 DEF AgentsInv, ConnectionsOk
<1>10. LeavesOthers(x, e)
  BY <1>3, <1>4 DEF Occupying, LeavesOthers
<1> QED BY <1>4, <1>6, <1>8, <1>9, <1>10, OneExchange

LEMMA MakesAgentStep ==
  ASSUME AgentsInv, NEW x \in Exchange, NEW s, s \in owners, exchanges[x].state = "idle",
         MakesAgent(x, s), UNCHANGED owners
  PROVE  AgentsInv'
<1> DEFINE id == CHOOSE n \in 1..MaxAgents : n \notin AgentIds
           evicted == EvictedBy(cached)
           kept == IF evicted = {} THEN cached ELSE Tail(cached)
<1>1. PICK proxy \in Proxy, target \in Target :
        /\ AgentIds # 1..MaxAgents
        /\ cached' = Append(kept, id)
        /\ Retires(evicted,
             [n \in AgentIds \cup {id} |-> IF n = id THEN NewAgent(proxy) ELSE agents[n]],
             [exchanges EXCEPT ![x] = Begun(s, id, target, "connecting", NoneOf)])
        /\ sockets' = Destroyed(UNION {ClosedByRetiring(old) : old \in evicted})
  BY DEF MakesAgent
<1>2. id \in 1..MaxAgents /\ id \notin DOMAIN agents
  BY <1>1 DEF AgentIds, AgentsInv
<1> DEFINE e == Begun(s, id, target, "connecting", NoneOf)
           ag == [n \in DOMAIN agents |-> IF n \in evicted THEN Retired(agents[n]) ELSE agents[n]]
           ex == [y \in Exchange |-> IF \E old \in evicted : y \in EndedByRetiring(old)
                                     THEN [exchanges[y] EXCEPT !.state = "done"] ELSE exchanges[y]]
<1> HIDE DEF id
<1>3. Lists(cached, Serving(agents)) /\ Serving(agents) \subseteq DOMAIN agents
  BY DEF AgentsInv, Serving
<1>4. /\ evicted \subseteq Serving(agents) /\ Lists(kept, Serving(agents) \ evicted)
  <2>1. Len(cached) \in Nat /\ (Len(cached) > 0 => cached # << >>)
    BY <1>3, ListSet
  <2>2. CASE evicted = {}
    BY <1>3, <2>2
  <2>3. CASE evicted # {}
    <3>1. cached # << >> /\ evicted = {Head(cached)}
      BY <2>1, <2>3, AgentsAssumption DEF EvictedBy
    <3>2. Head(cached) \in Serving(agents) /\ Lists(Tail(cached), Serving(agents) \ {Head(cached)})
      BY <1>3, <3>1, ListTail
    <3> QED BY <3>1, <3>2
  <2> QED BY <2>2, <2>3
<1> HIDE DEF evicted, kept
<1>5. RetiredState(evicted, ag, sockets', ex)
  BY <1>1 DEF RetiredState
<1>6. ConnectionsOk(ag, sockets', ex) /\ Serving(ag) = Serving(agents) \ evicted
  BY <1>3, <1>4, <1>5, Retiring
<1>7. DOMAIN ag = DOMAIN agents
  OBVIOUS
<1>8. AgentAdded(id, proxy, ag, agents')
  BY <1>1, <1>2, <1>3, <1>4 DEF AgentAdded, Retires, AgentIds
<1>9. /\ DOMAIN e = ExchangeFields /\ e.state = "connecting" /\ e.agent = id /\ e.target = target
  BY BegunExchange
<1>10. \A old \in evicted : EndedByRetiring(old) = Draining(exchanges, old)
  BY <1>3, <1>4 DEF EndedByRetiring, AgentsInv, ConnectionsOk, AgentOk
<1>11. ~ \E old \in evicted : x \in EndedByRetiring(old)
  BY <1>10 DEF Draining
<1>12. ConnectsThrough(x, id, ex, exchanges') /\ ex[x].state = "idle"
  <2>1. DOMAIN exchanges' = Exchange /\ exchanges'[x] = e
    BY <1>1, <1>11 DEF Retires, AgentsInv, ConnectionsOk
  <2>2. ASSUME NEW y \in Exchange, y # x PROVE exchanges'[y] = ex[y]
    BY <1>1, <2>2 DEF Retires
  <2>3. ex[x].state = "idle"
    BY <1>11
  <2> HIDE DEF e, ex
  <2> QED BY <1>1, <1>9, <2>1, <2>2, <2>3 DEF ConnectsThrough
<1> HIDE DEF ag, ex, e
<1>13. /\ ConnectionsOk(agents', sockets', exchanges')
       /\ Serving(agents') = (Serving(agents) \ evicted) \cup {id}
  BY <1>2, <1>6, <1>7, <1>8, <1>12, Adding
<1>14. Lists(cached', Serving(agents'))
  <2> DEFINE left == Serving(agents) \ evicted
  <2>1. Lists(kept, left) /\ id \notin left /\ Serving(agents') = left \cup {id}
    BY <1>2, <1>3, <1>4, <1>13
  <2> HIDE DEF left
  <2>2. Lists(Append(kept, id), left \cup {id})
    BY <2>1, ListAppend
  <2> QED BY <1>1, <2>1, <2>2
<1>15. DOMAIN agents' \subseteq 1..MaxAgents
  BY <1>2, <1>7, <1>8 DEF AgentAdded, AgentsInv
<1> QED BY <1>13, <1>14, <1>15 DEF AgentsInv

LEMMA AgentsReleaseStep ==
  ASSUME AgentsInv, NEW s, ReleasesAgents(s)
  PROVE  AgentsInv'
<1>1. CASE owners' # {}
  <2>1. UNCHANGED << agents, cached, sockets, exchanges >>
    BY <1>1 DEF ReleasesAgents
  <2> QED BY <1>1, <2>1 DEF AgentsInv
<1>2. CASE owners' = {}
  <2>1. /\ Retires(ToSet(cached), agents, exchanges) /\ cached' = << >>
        /\ sockets' = Destroyed(UNION {ClosedByRetiring(id) : id \in ToSet(cached)})
    BY <1>2 DEF ReleasesAgents
  <2>2. ToSet(cached) = Serving(agents) /\ Serving(agents) \subseteq DOMAIN agents
    BY ListSet DEF AgentsInv, Serving
  <2>3. RetiredState(Serving(agents), agents', sockets', exchanges')
    BY <2>1, <2>2 DEF RetiredState, Retires
  <2>4. ConnectionsOk(agents', sockets', exchanges') /\ Serving(agents') = {}
    BY <2>2, <2>3, Retiring
  <2>5. DOMAIN agents' = DOMAIN agents
    BY <2>3 DEF RetiredState
  <2> QED BY <2>1, <2>4, <2>5, ListEmpty DEF AgentsInv
<1> QED BY <1>1, <1>2

LEMMA AgentsSteps == AgentsInv /\ [AgentsNext]_agentVars => AgentsInv'
<1> SUFFICES ASSUME AgentsInv, [AgentsNext]_agentVars PROVE AgentsInv'
  OBVIOUS
<1>1. ASSUME NEW s \in Server, retainUpstreamProxyAgents(s) PROVE AgentsInv'
  BY <1>1 DEF retainUpstreamProxyAgents, AgentsInv
<1>2. ASSUME NEW s \in Server, ReleasesAgents(s) PROVE AgentsInv'
  BY <1>2, AgentsReleaseStep
<1>3. ASSUME NEW x \in Exchange, resolveUpstreamAgent(x) PROVE AgentsInv'
  <2>1. PICK s \in owners : ReusesSocket(x, s) \/ ConnectsAnew(x, s) \/ MakesAgent(x, s)
    BY <1>3 DEF resolveUpstreamAgent
  <2>2. exchanges[x].state = "idle" /\ UNCHANGED owners
    BY <1>3 DEF resolveUpstreamAgent
  <2> QED BY <2>1, <2>2, ReuseStep, ConnectsAnewStep, MakesAgentStep
<1>4. ASSUME NEW x \in Exchange, ConnectSucceeds(x) PROVE AgentsInv'
  BY <1>4, ConnectSucceedsStep
<1>5. ASSUME NEW x \in Exchange, ConnectFails(x) PROVE AgentsInv'
  BY <1>5, ConnectFailsStep
<1>6. ASSUME NEW x \in Exchange, ResponseEnds(x) PROVE AgentsInv'
  BY <1>6, ResponseEndsStep
<1>7. ASSUME NEW x \in Exchange, RequestDestroyed(x) PROVE AgentsInv'
  BY <1>7, RequestDestroyedStep
<1>8. ASSUME NEW x \in Exchange, drainResponse(x) PROVE AgentsInv'
  BY <1>8, DrainStep
<1>9. ASSUME NEW x \in Exchange, FinishesDrain(x) PROVE AgentsInv'
  BY <1>9, FinishDrainStep
<1>10. ASSUME NEW x \in Exchange, SocketFreed(x) PROVE AgentsInv'
  BY <1>10, SocketFreedStep
<1>11. ASSUME NEW id \in AgentIds, IdleTimerFires(id) PROVE AgentsInv'
  BY <1>11, IdleTimerStep
<1>12. ASSUME NEW c \in Connection, PeerCloses(c) PROVE AgentsInv'
  BY <1>12, PeerClosesStep
<1>13. CASE UNCHANGED agentVars
  BY <1>13 DEF agentVars, AgentsInv
<1> QED BY <1>1, <1>2, <1>3, <1>4, <1>5, <1>6, <1>7, <1>8, <1>9, <1>10, <1>11, <1>12, <1>13
        DEF AgentsNext

\* Every idle connection is timed by its agent, within the limit, and none that a
\* request uses is; what is retired holds nothing idle, whatever evicts or frees it.
THEOREM ConnectionsAccounted == GatewaySpec => []ConnectionsAreAccountedFor
<1>1. GatewayInit => AgentsInv
  BY AgentsStart DEF GatewayInit
<1>2. AgentsInv /\ [GatewayNext]_gatewayVars => AgentsInv'
  BY AgentsSteps DEF GatewayNext, gatewayVars
<1> QED BY <1>1, <1>2, AgentsAreAccountedFor, PTL DEF GatewaySpec

-----------------------------------------------------------------------------
(* ClaudeRouting *)

LEMMA ThinkingTable ==
  ASSUME NEW model \in DOMAIN CLAUDE_THINKING_CAPABILITIES
  PROVE  CLAUDE_THINKING_CAPABILITIES[model] \in
           {BUDGET_THINKING, BUDGET_WITH_EFFORT, ADAPTIVE_THINKING, DUAL_THINKING}
  BY DEF CLAUDE_THINKING_CAPABILITIES

\* A budget of integers is never under the least, nor all of the tokens.
LEMMA BudgetInBounds ==
  ASSUME NEW limit \in Int, limit > CLAUDE_MIN_THINKING_BUDGET, NEW share \in Int,
         NEW budget, budget = Max({CLAUDE_MIN_THINKING_BUDGET, Min({limit - 1, share})})
  PROVE  budget >= CLAUDE_MIN_THINKING_BUDGET /\ budget < limit
<1> DEFINE least == Min({limit - 1, share})
<1>1. least \in Int /\ least <= limit - 1
  BY DEF Min
<1> HIDE DEF least
<1>2. /\ Max({CLAUDE_MIN_THINKING_BUDGET, least}) \in {CLAUDE_MIN_THINKING_BUDGET, least}
      /\ Max({CLAUDE_MIN_THINKING_BUDGET, least}) >= CLAUDE_MIN_THINKING_BUDGET
  BY <1>1 DEF Max, CLAUDE_MIN_THINKING_BUDGET
<1> QED BY <1>1, <1>2 DEF least, CLAUDE_MIN_THINKING_BUDGET

\* What a request says about thinking, in a form the model takes.
ThinksAs(body, model) ==
  /\ body.thinking.type \in {"enabled", "adaptive"}
  /\ body.thinking.type \in CLAUDE_THINKING_CAPABILITIES[model].modes
  /\ body.effort # NoEffort => body.effort \in CLAUDE_THINKING_CAPABILITIES[model].efforts
  /\ IF body.thinking.type = "enabled"
     THEN /\ body.thinking.budget >= CLAUDE_MIN_THINKING_BUDGET
          /\ body.thinking.budget < body.maxTokens
     ELSE body.thinking.budget = NoBudget /\ body.effort # NoEffort

\* Only what is said about thinking changes.
SameButThinking(b, body) ==
  /\ DOMAIN b = BodyFields
  /\ b.readable = body.readable /\ b.model = body.model /\ b.references = body.references
  /\ b.endpoint = body.endpoint /\ b.search = body.search /\ b.maxTokens = body.maxTokens

LEMMA Aligned ==
  ASSUME NEW body, DOMAIN body = BodyFields, body.maxTokens \in Int,
         NEW model, Incompatible(body, model), ~CannotAlign(body, model)
  PROVE  /\ SameButThinking(alignClaudeThinkingToModel(body, model), body)
         /\ ThinksAs(alignClaudeThinkingToModel(body, model), model)
<1> DEFINE b == alignClaudeThinkingToModel(body, model)
           can == CLAUDE_THINKING_CAPABILITIES[model]
<1>1. /\ model \in DOMAIN CLAUDE_THINKING_CAPABILITIES
      /\ body.thinking.type \in {"enabled", "adaptive"} /\ body.thinking.type \notin can.modes
  BY DEF Incompatible
<1>2. can \in {BUDGET_THINKING, BUDGET_WITH_EFFORT, ADAPTIVE_THINKING, DUAL_THINKING}
  BY <1>1, ThinkingTable
<1>3. CASE body.thinking.type = "enabled"
  <2>1. can.modes = {"adaptive"} /\ can.efforts = {"low", "medium", "high", "xhigh", "max"}
    BY <1>1, <1>2, <1>3
       DEF BUDGET_THINKING, BUDGET_WITH_EFFORT, ADAPTIVE_THINKING, DUAL_THINKING
  <2>2. body.effort # NoEffort => body.effort \in can.efforts
    BY <2>1 DEF CannotAlign
  <2>3. claudeEffortForThinkingBudget(body.thinking.budget, body.maxTokens)
          \in {"low", "medium", "high", "max"}
    BY DEF claudeEffortForThinkingBudget
  <2> DEFINE effort == IF body.effort # NoEffort THEN body.effort
                       ELSE claudeEffortForThinkingBudget(body.thinking.budget, body.maxTokens)
  <2>4. effort \in can.efforts /\ effort # NoEffort
    BY <2>1, <2>2, <2>3, RoutingAssumption
  <2>5. b = [body EXCEPT !.thinking = [type |-> "adaptive", budget |-> NoBudget],
                         !.output = "object", !.effort = effort]
    <3>1. b = budgetThinkingToEffort(body)
      BY <1>3 DEF alignClaudeThinkingToModel
    <3> QED BY <3>1 DEF budgetThinkingToEffort, BodyFields
  <2> HIDE DEF effort, b
  <2>6. /\ SameButThinking(b, body) /\ b.effort = effort
        /\ b.thinking = [type |-> "adaptive", budget |-> NoBudget]
    BY <2>5 DEF SameButThinking, BodyFields
  <2>7. b.thinking.type = "adaptive" /\ b.thinking.budget = NoBudget
    BY <2>6
  <2> QED BY <2>1, <2>4, <2>6, <2>7 DEF ThinksAs, b
<1>4. CASE body.thinking.type = "adaptive"
  <2>1. /\ can.modes = {"enabled"} /\ can.efforts \in {{}, {"low", "medium", "high"}}
    BY <1>1, <1>2, <1>4
       DEF BUDGET_THINKING, BUDGET_WITH_EFFORT, ADAPTIVE_THINKING, DUAL_THINKING
  <2>2. /\ body.maxTokens > CLAUDE_MIN_THINKING_BUDGET
        /\ body.effort \in DOMAIN claudeThinkingShareForEffort
        /\ body.effort # NoEffort /\ can.efforts # {} => body.effort \in can.efforts
    <3>1. ~(body.maxTokens <= CLAUDE_MIN_THINKING_BUDGET)
      BY <1>4 DEF CannotAlign
    <3>2. /\ body.effort \in DOMAIN claudeThinkingShareForEffort
          /\ body.effort # NoEffort /\ can.efforts # {} => body.effort \in can.efforts
      BY <1>4 DEF CannotAlign
    <3> QED BY <3>1, <3>2 DEF CLAUDE_MIN_THINKING_BUDGET
  <2> DEFINE budget == BudgetFor(body)
             effort == IF can.efforts = {} THEN NoEffort ELSE body.effort
             output == IF can.efforts = {} THEN "absent" ELSE body.output
  <2>3. budget >= CLAUDE_MIN_THINKING_BUDGET /\ budget < body.maxTokens
    <3> DEFINE share == (body.maxTokens * claudeThinkingShareForEffort[body.effort] + 500) \div 1000
    <3>1. claudeThinkingShareForEffort[body.effort] \in Int
      BY <2>2 DEF claudeThinkingShareForEffort
    <3>2. share \in Int
      <4> DEFINE product == body.maxTokens * claudeThinkingShareForEffort[body.effort]
      <4>1. product \in Int
        BY <3>1
      <4> HIDE DEF product
      <4>2. (product + 500) \div 1000 \in Int
        BY <4>1
      <4> QED BY <4>2 DEF product
    <3>3. budget = Max({CLAUDE_MIN_THINKING_BUDGET, Min({body.maxTokens - 1, share})})
      BY DEF BudgetFor
    <3> HIDE DEF share, budget
    <3> QED BY <2>2, <3>2, <3>3, BudgetInBounds
  <2>4. b = [body EXCEPT !.thinking = [type |-> "enabled", budget |-> budget],
                         !.effort = effort, !.output = output]
    <3>1. b = effortThinkingToBudget(body, can.efforts)
      BY <1>4 DEF alignClaudeThinkingToModel
    <3> QED BY <3>1 DEF effortThinkingToBudget, BodyFields
  <2> HIDE DEF budget, b
  <2>5. effort # NoEffort => effort \in can.efforts
    BY <2>2
  <2> HIDE DEF effort, output
  <2>6. /\ SameButThinking(b, body) /\ b.effort = effort
        /\ b.thinking = [type |-> "enabled", budget |-> budget]
    BY <2>4 DEF SameButThinking, BodyFields
  <2>7. b.thinking.type = "enabled" /\ b.thinking.budget = budget /\ b.maxTokens = body.maxTokens
    BY <2>6 DEF SameButThinking
  <2> QED BY <2>1, <2>3, <2>5, <2>6, <2>7 DEF ThinksAs, b
<1> QED BY <1>1, <1>3, <1>4

\* The body that goes out is the client's, but for what the target asks for.
OutBody(b, body, target, route) ==
  /\ b.endpoint = body.endpoint /\ b.maxTokens = body.maxTokens
  /\ route.host \in StrippingHosts => ~b.references
  /\ extractSourceModel(b) = LoggedModel(body, target)
  /\ \/ b.thinking = body.thinking /\ b.effort = body.effort
     \/ /\ ThinksAs(b, target) /\ target = extractSourceModel(b)
        /\ AdaptsThinking(body, route)

LEMMA BodyGoesOut ==
  ASSUME NEW body \in AskedBody, NEW target, NEW route,
         ~ (/\ ModelChanges(body, target) /\ AdaptsThinking(body, route)
            /\ extractSourceModel(body) # NoModel
            /\ Incompatible(body, target) /\ CannotAlign(body, target)),
         NEW b, b = stripClaudeToolReferenceBlocks(rewriteClaudeModelBody(body, target, route),
                                                   route.host)
  PROVE  OutBody(b, body, target, route)
<1> DEFINE aligns == AdaptsThinking(body, route) /\ body.model # NoModel
           told == IF aligns THEN alignClaudeThinkingToModel(body, target) ELSE body
           rewritten == rewriteClaudeModelBody(body, target, route)
<1>1. /\ DOMAIN body = BodyFields /\ body.maxTokens \in Int /\ (~body.readable => ~body.references)
  BY RoutingAssumption
<1>2. ASSUME NEW w, DOMAIN w = BodyFields, w.endpoint = body.endpoint,
             w.maxTokens = body.maxTokens, w.readable = body.readable,
             w.references = body.references,
             w.model = IF ModelChanges(body, target) THEN target ELSE body.model,
             b = stripClaudeToolReferenceBlocks(w, route.host)
      PROVE  /\ b.endpoint = body.endpoint /\ b.maxTokens = body.maxTokens
             /\ route.host \in StrippingHosts => ~b.references
             /\ extractSourceModel(b) = LoggedModel(body, target)
             /\ b.thinking = w.thinking /\ b.effort = w.effort
  <2>1. /\ b.endpoint = body.endpoint /\ b.maxTokens = body.maxTokens
        /\ b.readable = body.readable /\ b.model = w.model
        /\ b.thinking = w.thinking /\ b.effort = w.effort
        /\ route.host \in StrippingHosts => ~b.references
    <3>1. CASE hostNeedsToolReferenceStripping(route.host) /\ w.readable
      <4>1. b = [w EXCEPT !.references = FALSE]
        BY <1>2, <3>1 DEF stripClaudeToolReferenceBlocks
      <4> QED BY <1>2, <4>1 DEF BodyFields
    <3>2. CASE ~(hostNeedsToolReferenceStripping(route.host) /\ w.readable)
      <4>1. b = w
        BY <1>2, <3>2 DEF stripClaudeToolReferenceBlocks
      <4> QED BY <1>1, <1>2, <3>2, <4>1 DEF hostNeedsToolReferenceStripping
    <3> QED BY <3>1, <3>2
  <2> QED BY <1>2, <2>1 DEF extractSourceModel, LoggedModel, ModelChanges
<1>3. CASE ~ModelChanges(body, target)
  <2>1. rewritten = body
    BY <1>3 DEF rewriteClaudeModelBody
  <2> QED BY <1>1, <1>2, <1>3, <2>1 DEF OutBody
<1>4. CASE ModelChanges(body, target)
  <2>1. rewritten = [told EXCEPT !.model = target]
    BY <1>4 DEF rewriteClaudeModelBody
  <2>2. extractSourceModel(body) = body.model
    BY <1>4 DEF ModelChanges, extractSourceModel
  <2>3. \/ told = body
        \/ /\ aligns /\ SameButThinking(told, body) /\ ThinksAs(told, target)
    <3>1. CASE ~aligns \/ ~Incompatible(body, target)
      BY <3>1 DEF alignClaudeThinkingToModel
    <3>2. CASE aligns /\ Incompatible(body, target)
      <4>1. ~CannotAlign(body, target)
        BY <1>4, <2>2, <3>2
      <4>2. /\ SameButThinking(alignClaudeThinkingToModel(body, target), body)
            /\ ThinksAs(alignClaudeThinkingToModel(body, target), target)
        BY <1>1, <3>2, <4>1, Aligned
      <4> QED BY <3>2, <4>2
    <3> QED BY <3>1, <3>2
  <2> HIDE DEF told
  <2>4. /\ DOMAIN told = BodyFields /\ told.endpoint = body.endpoint
        /\ told.maxTokens = body.maxTokens /\ told.readable = body.readable
        /\ told.references = body.references
    BY <1>1, <2>3 DEF SameButThinking
  <2> DEFINE w == [told EXCEPT !.model = target]
  <2>5. /\ DOMAIN w = BodyFields /\ w.endpoint = body.endpoint
        /\ w.maxTokens = body.maxTokens /\ w.readable = body.readable
        /\ w.references = body.references /\ w.model = target
        /\ w.thinking = told.thinking /\ w.effort = told.effort
    BY <2>4 DEF BodyFields
  <2>6. rewritten = w
    BY <2>1
  <2> HIDE DEF w, rewritten
  <2>7. b = stripClaudeToolReferenceBlocks(w, route.host)
    BY <2>6 DEF rewritten
  <2>8. /\ b.endpoint = body.endpoint /\ b.maxTokens = body.maxTokens
        /\ route.host \in StrippingHosts => ~b.references
        /\ extractSourceModel(b) = LoggedModel(body, target)
        /\ b.thinking = w.thinking /\ b.effort = w.effort
    BY <1>2, <1>4, <2>5, <2>7
  <2>9. target = extractSourceModel(b)
    BY <1>4, <2>8 DEF LoggedModel
  <2>10. ThinksAs(told, target) => ThinksAs(b, target)
    BY <2>4, <2>5, <2>8 DEF ThinksAs
  <2> QED BY <2>3, <2>5, <2>8, <2>9, <2>10 DEF OutBody
<1> QED BY <1>3, <1>4

\* The request is complete, and says what the client's body said of thinking.
OutFields == {"host", "path", "model", "thinking", "effort", "maxTokens", "references", "shape",
              "reasoning", "auth", "xkey", "agent"}

Fits(asked, out) ==
  LET wanted == asked.readable /\ asked.thinking.type \in {"enabled", "adaptive"}
      adapted == out.thinking # asked.thinking
      takes == CLAUDE_THINKING_CAPABILITIES[out.model]
  IN  /\ wanted /\ out.shape \in {"responses", "chat"} =>
             out.reasoning \in {"low", "medium", "high", "xhigh"}
                                \cup ({asked.effort} \ {NoEffort, "max"})
      /\ wanted => out.thinking.type \in {"enabled", "adaptive"}
      /\ adapted =>
             /\ out.thinking.type \in takes.modes
             /\ out.effort # NoEffort => out.effort \in takes.efforts
             /\ IF out.thinking.type = "enabled"
                THEN /\ out.thinking.budget >= CLAUDE_MIN_THINKING_BUDGET
                     /\ out.thinking.budget < out.maxTokens
                ELSE out.thinking.budget = NoBudget /\ out.effort # NoEffort

LEMMA OutboundFits ==
  ASSUME NEW b, NEW body, NEW target, NEW route, OutBody(b, body, target, route),
         NEW key, NEW caller, NEW out, out = Outbound(b, route, key, caller)
  PROVE  Fits(body, out)
<1>1. /\ out.model = extractSourceModel(b)
      /\ out.thinking = b.thinking /\ out.effort = b.effort /\ out.maxTokens = b.maxTokens
      /\ out.shape = IF IsMessages(b) THEN route.protocol ELSE "as sent"
      /\ out.reasoning = IF IsOpenAi(route) /\ IsMessages(b)
                         THEN anthropicThinkingConfigToResponses(b) ELSE NoEffort
  BY DEF Outbound
<1>2. CASE b.thinking = body.thinking /\ b.effort = body.effort
  <2>1. ASSUME body.thinking.type \in {"enabled", "adaptive"}, out.shape \in {"responses", "chat"}
        PROVE  out.reasoning \in {"low", "medium", "high", "xhigh"}
                                  \cup ({body.effort} \ {NoEffort, "max"})
    <3>1. out.reasoning = anthropicThinkingConfigToResponses(b)
      BY <1>1, <2>1 DEF IsOpenAi
    <3>2. CASE body.thinking.type = "adaptive"
      <4>1. out.reasoning = IF b.output = "malformed" \/ b.effort = NoEffort THEN "high"
                            ELSE anthropicEffortToResponses(b)
        BY <1>2, <3>1, <3>2 DEF anthropicThinkingConfigToResponses
      <4> QED BY <1>2, <4>1 DEF anthropicEffortToResponses
    <3>3. CASE body.thinking.type = "enabled"
      BY <1>2, <3>1, <3>3 DEF anthropicThinkingConfigToResponses
    <3> QED BY <2>1, <3>2, <3>3
  <2> QED BY <1>1, <1>2, <2>1 DEF Fits
<1>3. CASE ThinksAs(b, target) /\ target = extractSourceModel(b) /\ AdaptsThinking(body, route)
  <2>1. out.shape \notin {"responses", "chat"}
    BY <1>1, <1>3 DEF AdaptsThinking
  <2> QED BY <1>1, <1>3, <2>1 DEF ThinksAs, Fits
<1> QED BY <1>2, <1>3 DEF OutBody

\* A pool offers its own keys; without one the route has its own key, or none.
LEMMA KeySuits ==
  ASSUME NEW route, route.account = NoAccount,
         \A label \in DOMAIN route.pool : route.pool[label] # NoCredential,
         NEW name, NEW key \in Keys(route, name), NEW caller, NEW out,
         out.host = route.host, out.shape \in {route.protocol, "as sent"},
         out.auth = authorization(route, key.cred, caller), out.xkey \in {out.auth, NoCredential},
         out.agent = userAgent(route, caller)
  PROVE  SuitsRoute(out, caller, route)
<1>1. \/ out.agent \in {route.ownAgent, identityKind(route), AgentFor[identityKind(route)]}
      \/ out.agent = caller.agent /\ AgentFor[identityKind(route)] = NoAgent
  BY DEF userAgent, isNativeCliRequest
<1>2. CASE route.pool = << >>
  <2>1. key.cred = NoCredential
    <3>1. Keys(route, name) = {[name |-> name, cred |-> NoCredential]}
      BY <1>2 DEF Keys
    <3>2. key = [name |-> name, cred |-> NoCredential]
      BY <3>1
    <3> QED BY <3>2
  <2>2. out.auth = IF route.env # NoCredential THEN route.env ELSE caller.credential
    BY <2>1 DEF authorization, apiKey
  <2> QED BY <1>1, <1>2, <2>2 DEF SuitsRoute
<1>3. CASE route.pool # << >>
  <2>1. PICK label \in DOMAIN route.pool : key.cred = route.pool[label]
    <3>1. Keys(route, name) =
            {[name |-> IF label = "direct" THEN name ELSE label, cred |-> route.pool[label]] :
                label \in DOMAIN route.pool}
      BY <1>3 DEF Keys
    <3>2. PICK label \in DOMAIN route.pool :
            key = [name |-> IF label = "direct" THEN name ELSE label, cred |-> route.pool[label]]
      BY <3>1
    <3>3. key.cred = route.pool[label]
      BY <3>2
    <3> QED BY <3>3
  <2>2. out.auth = route.pool[label]
    BY <2>1 DEF authorization, apiKey
  <2> QED BY <1>1, <2>2 DEF SuitsRoute
<1> QED BY <1>2, <1>3

\* A scene's profile exists, and so does the one a caller names.
LEMMA RoutedSettings ==
  ASSUME NEW base \in Generation, Valid(base), NEW body, NEW caller, ~ProfileRefused(base, caller)
  PROVE  resolveClaudeRequestRouting(base, body, caller).config.live \in SettingsIn(base)
<1> DEFINE scene == detectClaudeScene(body, base.live.longContext)
           routing == resolveClaudeRequestRouting(base, body, caller)
           p == base.live.scenes[scene].profile
<1>1. /\ DOMAIN base = {"live", "active", "profiles"} /\ DOMAIN base.live.scenes = Scenes
  BY RoutingAssumption
<1>2. scene \in Scenes
  BY DEF detectClaudeScene, Scenes
<1>3. base.live \in SettingsIn(base) /\ \A q \in DOMAIN base.profiles : base.profiles[q] \in SettingsIn(base)
  BY DEF SettingsIn
<1>4. ASSUME NEW q \in DOMAIN base.profiles PROVE WithProfile(base, q).live \in SettingsIn(base)
  BY <1>1, <1>3 DEF WithProfile
<1>5. p \in DOMAIN base.profiles \cup {NoProfile}
  BY <1>1, <1>2, <1>3 DEF Valid
<1>6. routing.config = IF caller.profile # NoProfile THEN WithProfile(base, caller.profile)
                       ELSE IF p # NoProfile THEN WithProfile(base, p) ELSE base
  BY DEF resolveClaudeRequestRouting
<1> HIDE DEF p, routing
<1> QED BY <1>3, <1>4, <1>5, <1>6 DEF ProfileRefused, routing

AskFields == {"stage", "body", "caller", "config", "out", "keyName", "logged", "status"}

\* What a request with an account carries until its token comes.
AccountPending(a) ==
  /\ DOMAIN a.out = OutFields
  /\ a.out.host = Provider[a.config.live.route.account].host
  /\ a.out.host \in StrippingHosts => ~a.out.references
  /\ a.out.model = a.logged

RoutingInv ==
  /\ generation \in Generation /\ Valid(generation)
  /\ DOMAIN asks = Ask
  /\ \A r \in Ask :
       /\ asks[r].stage \in {"reading", "preparing", "sent"} =>
            DOMAIN asks[r] = AskFields /\ asks[r].body \in AskedBody
       /\ asks[r].stage \in {"preparing", "sent"} => Fits(asks[r].body, asks[r].out)
       /\ asks[r].stage = "preparing" => AccountPending(asks[r])

LEMMA RoutingStarts == RoutingInit => RoutingInv
<1>1. NotYetAsked.stage = "idle"
  BY DEF NotYetAsked
<1> QED BY <1>1 DEF RoutingInit, RoutingInv

\* A request is sent under what is in force, or with a connected account.
SentSuits(a) ==
  /\ \/ /\ a.out.auth \in connected
        /\ a.out.host = Provider[a.out.auth].host
        /\ a.out.xkey = NoCredential
     \/ \E settings \in SettingsIn(generation) : SuitsRoute(a.out, a.caller, settings.route)
  /\ a.out.host \in StrippingHosts => ~a.out.references
  /\ a.out.model = a.logged

RoutesHold ==
  \A r \in Ask :
    (asks'[r].stage = "sent" /\ asks[r].stage # "sent") =>
        LET out == asks'[r].out
            caller == asks'[r].caller
        IN  /\ \/ /\ out.auth \in connected
                  /\ out.host = Provider[out.auth].host
                  /\ out.xkey = NoCredential
               \/ \E settings \in SettingsIn(generation) :
                      SuitsRoute(out, caller, settings.route)
            /\ out.host \in StrippingHosts => ~out.references
            /\ out.model = asks'[r].logged

\* A step of one request that leads it to state a.
AskGoes(r, a) ==
  /\ asks' = [asks EXCEPT ![r] = a]
  /\ UNCHANGED << generation, connected, saves >>
  /\ a.stage \in {"reading", "preparing", "sent"} => DOMAIN a = AskFields /\ a.body \in AskedBody
  /\ a.stage \in {"preparing", "sent"} => Fits(a.body, a.out)
  /\ a.stage = "preparing" => AccountPending(a)
  /\ a.stage = "sent" /\ asks[r].stage # "sent" => SentSuits(a)

LEMMA OneAsk ==
  ASSUME RoutingInv, NEW r \in Ask, NEW a, AskGoes(r, a)
  PROVE  RoutingInv' /\ RoutesHold
<1>1. /\ DOMAIN asks' = Ask /\ asks'[r] = a /\ \A q \in Ask : q # r => asks'[q] = asks[q]
  BY DEF AskGoes, RoutingInv
<1>2. generation' \in Generation /\ Valid(generation)'
  BY DEF AskGoes, RoutingInv, Valid
<1>3. RoutesHold
  BY <1>1 DEF AskGoes, SentSuits, RoutesHold
<1>4. \A q \in Ask :
       /\ asks'[q].stage \in {"reading", "preparing", "sent"} =>
            DOMAIN asks'[q] = AskFields /\ asks'[q].body \in AskedBody
       /\ asks'[q].stage \in {"preparing", "sent"} => Fits(asks'[q].body, asks'[q].out)
       /\ asks'[q].stage = "preparing" => AccountPending(asks'[q])
  BY <1>1 DEF AskGoes, RoutingInv
<1> QED BY <1>1, <1>2, <1>3, <1>4 DEF RoutingInv

\* A request that ends is neither on its way nor wrong.
LEMMA AskEnds ==
  ASSUME RoutingInv, NEW r \in Ask, DOMAIN asks[r] = AskFields,
         NEW status, Ends(r, status), UNCHANGED << generation, connected, saves >>
  PROVE  RoutingInv' /\ RoutesHold
<1> DEFINE a == [asks[r] EXCEPT !.stage = "over", !.status = status]
<1>1. asks' = [asks EXCEPT ![r] = a] /\ a.stage = "over"
  BY DEF Ends, Becomes, AskFields
<1> HIDE DEF a
<1>2. AskGoes(r, a)
  BY <1>1 DEF AskGoes
<1> QED BY <1>2, OneAsk

LEMMA RouteGoes ==
  ASSUME RoutingInv, NEW r \in Ask, Route(r)
  PROVE  RoutingInv' /\ RoutesHold
<1> DEFINE ask == asks[r]
           base == CurrentConfig(r)
           routing == resolveClaudeRequestRouting(base, ask.body, ask.caller)
           settings == routing.config.live
           route == settings.route
           source == extractSourceModel(ask.body)
           mapped == resolveClaudeMappedModel(source, settings, ask.body)
           target == IF routing.sceneModel # NoModel THEN routing.sceneModel
                     ELSE IF mapped # NoModel THEN mapped ELSE source
           rewritten == rewriteClaudeModelBody(ask.body, target, route)
           body == stripClaudeToolReferenceBlocks(rewritten, route.host)
           countsLocally == body.endpoint = "count_tokens" /\ route.host \in CountlessHosts
           misfits == /\ ModelChanges(ask.body, target) /\ AdaptsThinking(ask.body, route)
                      /\ source # NoModel
                      /\ Incompatible(ask.body, target) /\ CannotAlign(ask.body, target)
           unsayable == IsOpenAi(route) /\ IsMessages(body) /\ CannotConvert(body, route.protocol)
           declined == /\ route.account # NoAccount
                       /\ AccountRefuses(route, upstreamPathForEndpoint(body, route.protocol))
           refused == CASE ask.body.endpoint = "openai" -> 400
                        [] ProfileRefused(base, ask.caller) -> 400
                        [] misfits -> 422
                        [] unsayable -> 422
                        [] countsLocally -> 200
                        [] declined -> 400
                        [] OTHER -> 0
           Sent(key) == [ask EXCEPT
                     !.stage = IF route.account # NoAccount THEN "preparing" ELSE "sent",
                     !.config = routing.config, !.keyName = key.name,
                     !.logged = LoggedModel(ask.body, target),
                     !.out = Outbound(body, route, key.cred, ask.caller)]
<1>1. /\ ask.stage = "reading"
      /\ IF refused # 0 THEN Ends(r, refused)
         ELSE \E key \in Keys(route, routing.profile) : Becomes(r, Sent(key))
      /\ UNCHANGED << generation, connected, saves >>
  BY DEF Route
<1>2. DOMAIN ask = AskFields /\ ask.body \in AskedBody
  BY <1>1 DEF RoutingInv
<1>3. CASE refused # 0
  <2> HIDE DEF refused
  <2>1. Ends(r, refused)
    BY <1>1, <1>3
  <2> QED BY <1>1, <1>2, <2>1, AskEnds
<1>4. CASE refused = 0
  <2>1. ~ProfileRefused(base, ask.caller) /\ ~misfits /\ ~declined
    <3> HIDE DEF misfits, unsayable, countsLocally, declined, base, ask
    <3> QED BY <1>4
  <2>2. PICK key \in Keys(route, routing.profile) : Becomes(r, Sent(key))
    <3> HIDE DEF refused, Sent, route, routing
    <3> QED BY <1>1, <1>4
  <2> HIDE DEF refused
  <2>3. base = generation /\ base \in Generation /\ Valid(base)
    BY DEF CurrentConfig, RoutingInv
  <2>4. settings \in SettingsIn(generation)
    <3> HIDE DEF base, ask
    <3>1. resolveClaudeRequestRouting(base, ask.body, ask.caller).config.live \in SettingsIn(base)
      BY <2>1, <2>3, RoutedSettings
    <3> QED BY <2>3, <3>1
  <2>5. \A label \in DOMAIN route.pool : route.pool[label] # NoCredential
    <3> HIDE DEF settings
    <3> QED BY <2>3, <2>4, RoutingAssumption
  <2>6. OutBody(body, ask.body, target, route)
    <3> HIDE DEF target, route, ask
    <3> QED BY <1>2, <2>1, BodyGoesOut
  <2> DEFINE out == Outbound(body, route, key.cred, ask.caller)
             logged == LoggedModel(ask.body, target)
             to == routing.config
  <2> HIDE DEF target, rewritten, mapped
  <2>7. Fits(ask.body, out)
    <3> HIDE DEF body, route, ask
    <3> QED BY <2>6, OutboundFits DEF route
  <2>8. /\ DOMAIN out = OutFields /\ out.host = route.host
        /\ out.shape \in {route.protocol, "as sent"}
        /\ out.auth = authorization(route, key.cred, ask.caller)
        /\ out.xkey \in {out.auth, NoCredential} /\ out.agent = userAgent(route, ask.caller)
        /\ out.host \in StrippingHosts => ~out.references
        /\ out.model = logged
    <3> HIDE DEF body, route, ask
    <3>1. /\ out.references = body.references /\ out.model = extractSourceModel(body)
          /\ out.xkey = xApiKey(route, key.cred, ask.caller)
          /\ DOMAIN out = OutFields /\ out.host = route.host
          /\ out.shape \in {route.protocol, "as sent"}
          /\ out.auth = authorization(route, key.cred, ask.caller)
          /\ out.agent = userAgent(route, ask.caller)
      BY DEF Outbound, OutFields
    <3> HIDE DEF out
    <3> QED BY <2>6, <3>1 DEF OutBody, xApiKey
  <2> DEFINE a == Sent(key)
  <2>9. /\ a.stage = IF route.account # NoAccount THEN "preparing" ELSE "sent"
        /\ a.body = ask.body /\ a.caller = ask.caller /\ a.config = to
        /\ a.logged = logged /\ a.out = out /\ DOMAIN a = AskFields
    <3> HIDE DEF ask, out, logged, to, route
    <3> QED BY <1>2 DEF AskFields, out, logged, to
  <2>10. asks' = [asks EXCEPT ![r] = a]
    BY <2>2 DEF Becomes
  <2>11. to.live.route = route
    OBVIOUS
  <2> HIDE DEF a, out, logged, to, body
  <2>12. ASSUME route.account = NoAccount PROVE SuitsRoute(out, ask.caller, route)
    <3> HIDE DEF route, ask
    <3> QED BY <2>2, <2>5, <2>8, <2>12, KeySuits
  <2>13. ASSUME route.account # NoAccount PROVE out.host = Provider[route.account].host
    <3> HIDE DEF route
    <3> QED BY <2>1, <2>8, <2>13 DEF AccountRefuses
  <2>14. AskGoes(r, a)
    <3> HIDE DEF route, ask, settings
    <3>1. a.stage = "preparing" => AccountPending(a)
      BY <2>8, <2>9, <2>11, <2>13 DEF AccountPending
    <3>2. a.stage = "sent" => SentSuits(a)
      BY <2>4, <2>8, <2>9, <2>12 DEF SentSuits, route
    <3>3. Fits(a.body, a.out) /\ a.body \in AskedBody
      BY <1>2, <2>7, <2>9
    <3> QED BY <1>1, <2>9, <2>10, <3>1, <3>2, <3>3 DEF AskGoes
  <2> QED BY <2>14, OneAsk
<1> QED BY <1>3, <1>4

LEMMA RoutingSteps ==
  RoutingInv /\ [RoutingNext]_routingVars => RoutingInv' /\ (RoutesHold \/ UNCHANGED routingVars)
<1> SUFFICES ASSUME RoutingInv, [RoutingNext]_routingVars
             PROVE  RoutingInv' /\ (RoutesHold \/ UNCHANGED routingVars)
  OBVIOUS
<1>1. ASSUME NEW r \in Ask, Arrive(r) PROVE RoutingInv' /\ RoutesHold
  <2>1. PICK body \in AskedBody, caller \in Caller :
          Becomes(r, [stage |-> "reading", body |-> body, caller |-> caller,
                      config |-> generation, out |-> Nothing, keyName |-> NoProfile,
                      logged |-> NoModel, status |-> 502])
    BY <1>1 DEF Arrive
  <2> DEFINE a == [stage |-> "reading", body |-> body, caller |-> caller,
                   config |-> generation, out |-> Nothing, keyName |-> NoProfile,
                   logged |-> NoModel, status |-> 502]
  <2>2. DOMAIN a = AskFields /\ a.stage = "reading" /\ a.body = body
    BY DEF AskFields
  <2>3. asks' = [asks EXCEPT ![r] = a]
    BY <2>1 DEF Becomes
  <2> HIDE DEF a
  <2>4. AskGoes(r, a)
    BY <1>1, <2>2, <2>3 DEF AskGoes, Arrive
  <2> QED BY <2>4, OneAsk
<1>2. ASSUME NEW r \in Ask, LoseBody(r) \/ FailPreparing(r) \/ Conclude(r)
      PROVE  RoutingInv' /\ RoutesHold
  <2>1. DOMAIN asks[r] = AskFields
    BY <1>2 DEF LoseBody, FailPreparing, Conclude, RoutingInv
  <2>2. PICK status \in {413, 502, 401, 499, 200} : Ends(r, status)
    BY <1>2 DEF LoseBody, FailPreparing, Conclude
  <2>3. UNCHANGED << generation, connected, saves >>
    BY <1>2 DEF LoseBody, FailPreparing, Conclude
  <2> QED BY <2>1, <2>2, <2>3, AskEnds
<1>3. ASSUME NEW r \in Ask, Route(r) PROVE RoutingInv' /\ RoutesHold
  BY <1>3, RouteGoes
<1>4. ASSUME NEW r \in Ask, Prepare(r) PROVE RoutingInv' /\ RoutesHold
  <2> DEFINE old == asks[r]
             account == asks[r].config.live.route.account
             out == [asks[r].out EXCEPT !.auth = account, !.xkey = NoCredential]
             a == [asks[r] EXCEPT !.stage = "sent", !.out = out]
  <2>1. /\ old.stage = "preparing" /\ account \in connected
        /\ UNCHANGED << generation, connected, saves >>
    BY <1>4 DEF Prepare
  <2>2. DOMAIN old = AskFields /\ old.body \in AskedBody /\ Fits(old.body, old.out) /\ AccountPending(old)
    BY <2>1 DEF RoutingInv
  <2>3. asks' = [asks EXCEPT ![r] = a]
    <3>1. a = [asks[r] EXCEPT !.stage = "sent", !.out.auth = account, !.out.xkey = NoCredential]
      BY <2>2 DEF AskFields
    <3> QED BY <1>4, <3>1 DEF Prepare, Becomes
  <2>4. /\ out.auth = account /\ out.xkey = NoCredential /\ out.host = old.out.host
        /\ out.references = old.out.references /\ out.model = old.out.model
        /\ out.thinking = old.out.thinking /\ out.effort = old.out.effort
        /\ out.maxTokens = old.out.maxTokens /\ out.shape = old.out.shape
        /\ out.reasoning = old.out.reasoning
    BY <2>2 DEF AccountPending, OutFields
  <2> HIDE DEF out
  <2>5. /\ DOMAIN a = AskFields /\ a.stage = "sent" /\ a.body = old.body /\ a.out = out
        /\ a.logged = old.logged
    BY <2>2 DEF AskFields
  <2> HIDE DEF a, old, account
  <2>6. Fits(a.body, a.out)
    BY <2>2, <2>4, <2>5 DEF Fits
  <2>7. SentSuits(a)
    BY <2>1, <2>2, <2>4, <2>5 DEF AccountPending, SentSuits, account, old
  <2>8. AskGoes(r, a)
    BY <2>1, <2>2, <2>3, <2>5, <2>6, <2>7 DEF AskGoes
  <2> QED BY <2>8, OneAsk
<1>5. CASE Save
  <2>1. generation' \in Generation /\ Valid(generation') /\ asks' = asks
    BY <1>5 DEF Save
  <2>2. Valid(generation)'
    BY <2>1 DEF Valid
  <2> QED BY <2>1, <2>2 DEF RoutingInv, RoutesHold
<1>6. CASE DisconnectAccount
  <2>1. generation' = generation /\ asks' = asks
    BY <1>6 DEF DisconnectAccount
  <2> QED BY <2>1 DEF RoutingInv, RoutesHold
<1>7. CASE UNCHANGED routingVars
  <2>1. generation' = generation /\ asks' = asks
    BY <1>7 DEF routingVars
  <2> QED BY <1>7, <2>1 DEF RoutingInv
<1> QED BY <1>1, <1>2, <1>3, <1>4, <1>5, <1>6, <1>7 DEF RoutingNext

LEMMA RoutedThinkingFits == RoutingInv => ThinkingFitsTheModel
  BY DEF RoutingInv, ThinkingFitsTheModel, Fits

\* Thinking reaches the upstream in a form its model takes, for every body,
\* table of the models' words and configuration.
THEOREM ThinkingFits == GatewaySpec => []ThinkingFitsTheModel
<1>1. GatewayInit => RoutingInv
  BY RoutingStarts DEF GatewayInit
<1>2. RoutingInv /\ [GatewayNext]_gatewayVars => RoutingInv'
  <2>1. RoutingInv /\ UNCHANGED routingVars => RoutingInv'
    BY RoutingSteps
  <2> QED BY <2>1, RoutingSteps DEF GatewayNext, gatewayVars
<1> QED BY <1>1, <1>2, RoutedThinkingFits, PTL DEF GatewaySpec

-----------------------------------------------------------------------------
(* CodexRouting *)

CodexOutFields == {"host", "path", "model", "ours", "encoded", "readable", "shape", "auth",
                   "xkey", "agent"}

\* What a planned request carries, whoever serves it.
PlanOk(out, route) ==
  /\ DOMAIN out = CodexOutFields
  /\ out.host = route.host /\ out.shape \in {route.protocol, "as sent"}
  /\ out.shape # "as sent" => out.path \in SpokenAt(out.shape)
  /\ out.encoded => ~out.ours

\* A request with its route's key, or what the caller may pass on.
CarriesKey(out, route, key, caller) ==
  /\ out.auth = authorization(route, key, caller)
  /\ out.xkey \in {out.auth, NoCredential}
  /\ out.agent = userAgent(route, caller)

HeadersOk(out, route, key, caller, body, path) ==
  /\ DOMAIN out = CodexOutFields
  /\ out.host = route.host /\ out.path = path
  /\ out.shape = IF body.path \in {"responses", "compact"} THEN route.protocol
                 ELSE IF body.path = "models" THEN "as sent" ELSE body.path
  /\ out.encoded => ~out.ours
  /\ CarriesKey(out, route, key, caller)
  /\ out.xkey = IF IsOpenAi(route) THEN NoCredential ELSE apiKey(route, key)

LEMMA HeadersKeyed ==
  ASSUME NEW route, NEW key, NEW caller, NEW body, NEW path
  PROVE  HeadersOk(withRequestHeaders(route, key, caller, body, path), route, key, caller, body, path)
<1> DEFINE out == withRequestHeaders(route, key, caller, body, path)
<1>1. /\ DOMAIN out = CodexOutFields
      /\ out.host = route.host /\ out.path = path
      /\ out.shape = IF body.path \in {"responses", "compact"} THEN route.protocol
                     ELSE IF body.path = "models" THEN "as sent" ELSE body.path
      /\ out.encoded = contentEncoding(body) /\ out.ours = body.ours
      /\ out.auth = authorization(route, key, caller) /\ out.agent = userAgent(route, caller)
      /\ out.xkey = IF IsOpenAi(route) THEN NoCredential ELSE apiKey(route, key)
  BY DEF withRequestHeaders, CodexOutFields
<1>2. out.encoded => ~out.ours
  BY <1>1 DEF contentEncoding
<1>3. out.xkey \in {out.auth, NoCredential}
  BY <1>1 DEF authorization
<1> HIDE DEF out
<1>4. HeadersOk(out, route, key, caller, body, path)
  BY <1>1, <1>2, <1>3 DEF CarriesKey, HeadersOk
<1> QED BY <1>4 DEF out

\* A rewritten body is still a body of the same endpoint.
SameEndpoint(b, body) == DOMAIN b = CodexBodyFields /\ b.path = body.path

LEMMA PrimaryBody ==
  ASSUME NEW body, DOMAIN body = CodexBodyFields, NEW route
  PROVE  /\ SameEndpoint(rewriteForPrimary(body, route), body)
         /\ SameEndpoint(BridgedBody(body, route), body)
         /\ \A protocol : SameEndpoint(translateOpenAiRequest(body, protocol), body)
         /\ SameEndpoint(applyHostBodyQuirks(body, route), body)
<1> USE DEF SameEndpoint, CodexBodyFields
<1>1. SameEndpoint(rewriteForPrimary(body, route), body)
  BY DEF rewriteForPrimary
<1>2. SameEndpoint(BridgedBody(body, route), body)
  BY DEF BridgedBody
<1>3. \A protocol : SameEndpoint(translateOpenAiRequest(body, protocol), body)
  BY DEF translateOpenAiRequest
<1>4. SameEndpoint(applyHostBodyQuirks(body, route), body)
  BY DEF applyHostBodyQuirks
<1> QED BY <1>1, <1>2, <1>3, <1>4

LEMMA PrimaryPlanOk ==
  ASSUME NEW ask, ask.body \in CodexBody, ~IsCompaction(ask.body), NEW route, RouteOk(route),
         NEW config, PrimaryRefusal(ask.body, config, route) = 0, NEW key,
         NEW out, out = buildPrimaryOpenAiProxyPlan(ask, route, key)
  PROVE  PlanOk(out, route) /\ CarriesKey(out, route, key, ask.caller)
<1> DEFINE body == ask.body
           rewritten == BridgedBody(rewriteForPrimary(body, route), route)
           told == IF translateResponses(rewritten)
                   THEN translateOpenAiRequest(rewritten, route.protocol) ELSE rewritten
           b == applyHostBodyQuirks(told, route)
           path == upstreamPath(body, route.protocol)
<1>1. /\ DOMAIN body = CodexBodyFields
      /\ body.path \in {"responses", "compact", "chat", "messages", "models"}
  BY CodexAssumption
<1>2. SameEndpoint(b, body)
  <2>1. SameEndpoint(rewriteForPrimary(body, route), body)
    BY <1>1, PrimaryBody
  <2>2. SameEndpoint(rewritten, body)
    <3> DEFINE w == rewriteForPrimary(body, route)
    <3>1. SameEndpoint(w, body)
      BY <2>1
    <3> HIDE DEF w
    <3>2. SameEndpoint(BridgedBody(w, route), w)
      BY <3>1, PrimaryBody DEF SameEndpoint
    <3>3. rewritten = BridgedBody(w, route)
      BY DEF w
    <3> QED BY <3>1, <3>2, <3>3 DEF SameEndpoint
  <2> HIDE DEF rewritten
  <2>3. SameEndpoint(told, body)
    <3>1. SameEndpoint(translateOpenAiRequest(rewritten, route.protocol), rewritten)
      BY <2>2, PrimaryBody DEF SameEndpoint
    <3> QED BY <2>2, <3>1 DEF SameEndpoint
  <2> HIDE DEF told
  <2>4. SameEndpoint(applyHostBodyQuirks(told, route), told)
    BY <2>3, PrimaryBody DEF SameEndpoint
  <2> QED BY <2>3, <2>4 DEF SameEndpoint
<1>3. out = withRequestHeaders(route, key, ask.caller, b, path)
  BY DEF buildPrimaryOpenAiProxyPlan
<1> HIDE DEF b, path, body
<1>4. /\ DOMAIN out = CodexOutFields
      /\ out.host = route.host /\ out.path = path
      /\ out.shape = IF b.path \in {"responses", "compact"} THEN route.protocol
                     ELSE IF b.path = "models" THEN "as sent" ELSE b.path
      /\ out.encoded => ~out.ours
      /\ CarriesKey(out, route, key, ask.caller)
  <2>1. HeadersOk(withRequestHeaders(route, key, ask.caller, b, path), route, key, ask.caller, b, path)
    BY HeadersKeyed
  <2>2. HeadersOk(out, route, key, ask.caller, b, path)
    BY <1>3, <2>1
  <2> QED BY <2>2 DEF HeadersOk
<1>5. ~UnsupportedClient(body, route)
  BY DEF PrimaryRefusal, body
<1>6. body.path # "compact"
  BY DEF IsCompaction, Classified, body
<1>7. out.shape \in {route.protocol, "as sent"} /\ (out.shape # "as sent" => out.path \in SpokenAt(out.shape))
  <2>1. b.path = body.path /\ path = upstreamPath(body, route.protocol)
    BY <1>2 DEF SameEndpoint, path
  <2>2. route.protocol \in {"responses", "chat", "messages"}
    BY DEF RouteOk
  <2>3. CASE body.path = "responses"
    BY <1>4, <2>1, <2>2, <2>3 DEF upstreamPath, SpokenAt
  <2>4. CASE body.path = "chat"
    BY <1>4, <1>5, <2>1, <2>2, <2>4 DEF upstreamPath, SpokenAt, UnsupportedClient
  <2>5. CASE body.path = "models"
    BY <1>4, <2>1, <2>5
  <2>6. body.path # "messages"
    BY <1>5 DEF UnsupportedClient
  <2> QED BY <1>1, <1>6, <2>3, <2>4, <2>5, <2>6
<1> QED BY <1>4, <1>7 DEF PlanOk

LEMMA CompactPlanOk ==
  ASSUME NEW ask, ask.body \in CodexBody, ask.caller \in CodexCaller, IsCompaction(ask.body),
         NEW route, RouteOk(route), CompactRefusal(ask.body, route) = 0,
         NEW selection, NEW key,
         NEW out, out = buildCompactOpenAiProxyPlan(ask, selection, route, key)
  PROVE  /\ PlanOk(out, route)
         /\ ~ask.config.compact.split => CarriesKey(out, route, key, ask.caller)
         /\ ask.config.compact.split /\ route.account = NoAccount =>
              CarriesKey(out, route, key, [ask.caller EXCEPT !.credential = NoCredential])
<1> DEFINE body == ask.body
           rewritten == rewriteCompactBody(body, ask.config, selection.route)
           b == applyHostBodyQuirks(rewritten, route)
           path == IF route.protocol = "messages" THEN "messages" ELSE body.path
           full == withRequestHeaders(route, key, ask.caller, b, path)
           silent == [ask.caller EXCEPT !.credential = NoCredential]
<1>1. /\ DOMAIN body = CodexBodyFields /\ DOMAIN ask.caller = CallerFields
      /\ body.path \in {"responses", "compact"}
  <2>1. body.path \in {"responses", "compact"}
    BY DEF IsCompaction, Classified
  <2> QED BY <2>1, CodexAssumption
<1>2. SameEndpoint(b, body)
  <2>1. SameEndpoint(rewritten, body)
    BY <1>1 DEF rewriteCompactBody, SameEndpoint, CodexBodyFields
  <2> HIDE DEF rewritten
  <2>2. SameEndpoint(applyHostBodyQuirks(rewritten, route), rewritten)
    BY <2>1, PrimaryBody DEF SameEndpoint
  <2> QED BY <2>1, <2>2 DEF SameEndpoint
<1>3. out = IF ask.config.compact.split /\ apiKey(route, key) = NoCredential /\ route.account = NoAccount
            THEN [full EXCEPT !.auth = NoCredential] ELSE full
  BY DEF buildCompactOpenAiProxyPlan
<1> HIDE DEF b, path, body
<1>4. /\ DOMAIN full = CodexOutFields
      /\ full.host = route.host /\ full.path = path
      /\ full.shape = IF b.path \in {"responses", "compact"} THEN route.protocol
                      ELSE IF b.path = "models" THEN "as sent" ELSE b.path
      /\ full.encoded => ~full.ours
      /\ CarriesKey(full, route, key, ask.caller)
      /\ full.xkey = IF IsOpenAi(route) THEN NoCredential ELSE apiKey(route, key)
  <2>1. HeadersOk(full, route, key, ask.caller, b, path)
    BY HeadersKeyed
  <2> HIDE DEF full
  <2> QED BY <2>1 DEF HeadersOk
<1> HIDE DEF full
<1>5. full.shape = route.protocol /\ full.path \in SpokenAt(route.protocol)
  <2>1. route.protocol \in {"responses", "messages"}
    BY DEF RouteOk, CompactRefusal
  <2> QED BY <1>1, <1>2, <1>4, <2>1 DEF SameEndpoint, SpokenAt, path, body
<1>6. PlanOk(full, route)
  BY <1>4, <1>5 DEF PlanOk
<1>7. /\ silent.credential = NoCredential /\ silent.agent = ask.caller.agent
  BY <1>1 DEF CallerFields
<1> HIDE DEF silent
<1>8. userAgent(route, silent) = userAgent(route, ask.caller)
  BY <1>7 DEF userAgent, isNativeCliRequest
<1>9. authorization(route, key, silent) =
        IF apiKey(route, key) = NoCredential THEN NoCredential ELSE authorization(route, key, ask.caller)
  BY <1>7 DEF authorization
<1>10. CASE out = full /\ ~(ask.config.compact.split /\ apiKey(route, key) = NoCredential
                             /\ route.account = NoAccount)
  BY <1>4, <1>6, <1>8, <1>9, <1>10 DEF CarriesKey, silent
<1>11. CASE /\ out = [full EXCEPT !.auth = NoCredential]
            /\ ask.config.compact.split /\ apiKey(route, key) = NoCredential /\ route.account = NoAccount
  <2>1. /\ DOMAIN out = CodexOutFields /\ out.auth = NoCredential
        /\ out.host = full.host /\ out.path = full.path /\ out.shape = full.shape
        /\ out.encoded = full.encoded /\ out.ours = full.ours
        /\ out.xkey = full.xkey /\ out.agent = full.agent
    BY <1>4, <1>11 DEF CodexOutFields
  <2>2. PlanOk(out, route)
    BY <1>6, <2>1 DEF PlanOk
  <2>3. out.xkey = NoCredential
    BY <1>4, <1>11, <2>1
  <2>4. CarriesKey(out, route, key, silent)
    BY <1>4, <1>8, <1>9, <1>11, <2>1, <2>3 DEF CarriesKey
  <2> QED BY <1>11, <2>2, <2>4 DEF silent
<1> QED BY <1>3, <1>10, <1>11

\* Who may serve a request under a configuration: the primary route, charged to
\* no key; a profile without a pool; or one key of a profile's pool.
Serves(route, key, config) ==
  \/ key.profile = NoProfile /\ key.key = NoCredential /\ route = config.primary
  \/ /\ key.profile \in DOMAIN config.profiles /\ key.key = NoCredential
     /\ route = config.profiles[key.profile].primary
  \/ /\ key.profile \in DOMAIN config.profiles
     /\ LET own == config.profiles[key.profile].primary
        IN  /\ own.account = NoAccount /\ key.key \in DOMAIN own.pool
            /\ route = OneKey(own, key.key)

LEMMA OneKeyFields ==
  ASSUME NEW own, RouteOk(own), NEW label \in DOMAIN own.pool
  PROVE  /\ RouteOk(OneKey(own, label))
         /\ OneKey(own, label).pool = [direct |-> own.pool[label]]
         /\ \A f \in RouteFields \ {"pool"} : OneKey(own, label)[f] = own[f]
<1> DEFINE route == OneKey(own, label)
           one == [direct |-> own.pool[label]]
<1>1. DOMAIN one = {"direct"} /\ \A l \in DOMAIN one : one[l] = own.pool[label]
  OBVIOUS
<1> HIDE DEF one
<1>2. route = [own EXCEPT !.pool = one]
  BY DEF OneKey, one
<1> HIDE DEF route
<1>3. /\ DOMAIN route = RouteFields /\ route.pool = one
      /\ \A f \in RouteFields \ {"pool"} : route[f] = own[f]
  BY <1>2 DEF RouteOk, RouteFields
<1>4. route.protocol = own.protocol /\ route.account = own.account
  BY <1>3 DEF RouteFields
<1>5. RouteOk(route)
  BY <1>1, <1>3, <1>4 DEF RouteOk
<1> QED BY <1>3, <1>5 DEF route, one

LEMMA ServingRoute ==
  ASSUME NEW config, ConfigOk(config), NEW route, NEW key, Serves(route, key, config)
  PROVE  RouteOk(route) /\ (route.account # NoAccount => key.key = NoCredential)
<1>1. CASE key.key = NoCredential
  <2>1. ASSUME key.profile \in DOMAIN config.profiles,
               key.key \in DOMAIN config.profiles[key.profile].primary.pool
        PROVE  RouteOk(OneKey(config.profiles[key.profile].primary, key.key))
    BY <2>1, OneKeyFields DEF ConfigOk
  <2> QED BY <1>1, <2>1 DEF Serves, ConfigOk
<1>2. CASE key.key # NoCredential
  <2> DEFINE own == config.profiles[key.profile].primary
  <2>1. /\ RouteOk(own) /\ own.account = NoAccount /\ key.key \in DOMAIN own.pool
        /\ route = OneKey(own, key.key)
    BY <1>2 DEF Serves, ConfigOk
  <2> HIDE DEF own
  <2>2. /\ RouteOk(OneKey(own, key.key))
        /\ \A f \in RouteFields \ {"pool"} : OneKey(own, key.key)[f] = own[f]
    BY <2>1, OneKeyFields
  <2>3. RouteOk(route) /\ route.account = own.account
    BY <2>1, <2>2 DEF RouteFields
  <2> QED BY <2>1, <2>3
<1> QED BY <1>1, <1>2

LEMMA CandidateServes ==
  ASSUME NEW config, NEW p \in DOMAIN config.profiles,
         NEW c \in CandidatesOf(p, config.profiles[p].primary)
  PROVE  Serves(c.route, KeyOf(c), config)
<1> DEFINE own == config.profiles[p].primary
<1>1. CASE own.account # NoAccount \/ own.pool = << >>
  <2>1. c \in {[profile |-> p, key |-> NoCredential, route |-> own]}
    BY <1>1 DEF CandidatesOf
  <2>2. c.profile = p /\ c.key = NoCredential /\ c.route = own
    BY <2>1
  <2>3. KeyOf(c).profile = p /\ KeyOf(c).key = NoCredential
    BY <2>2 DEF KeyOf
  <2> QED BY <2>2, <2>3 DEF Serves
<1>2. CASE ~(own.account # NoAccount \/ own.pool = << >>)
  <2>1. c \in {[profile |-> p, key |-> label, route |-> OneKey(own, label)] : label \in DOMAIN own.pool}
    BY <1>2 DEF CandidatesOf
  <2>2. PICK label \in DOMAIN own.pool :
          c = [profile |-> p, key |-> label, route |-> OneKey(own, label)]
    BY <2>1
  <2>3. c.profile = p /\ c.key = label /\ c.route = OneKey(own, label)
    BY <2>2
  <2>4. KeyOf(c).profile = p /\ KeyOf(c).key = label
    BY <2>3 DEF KeyOf
  <2> QED BY <1>2, <2>3, <2>4 DEF Serves
<1> QED BY <1>1, <1>2

LEMMA SelectionServes ==
  ASSUME NEW ask, NEW selection \in Selections(ask)
  PROVE  /\ Serves(selection.route, Reserved(ask, selection), ask.config)
         /\ ask.caller.profile # NoProfile => Reserved(ask, selection).profile = NoProfile
<1>1. NoKeyChosen.profile = NoProfile /\ NoKeyChosen.key = NoCredential
  BY DEF NoKeyChosen
<1>2. CASE ask.caller.profile # NoProfile
  <2>1. selection \in {[profile |-> ask.caller.profile, key |-> NoCredential,
                        route |-> ask.config.primary]}
    BY <1>2 DEF Selections
  <2>2. selection.route = ask.config.primary
    BY <2>1
  <2>3. Reserved(ask, selection) = NoKeyChosen
    BY <1>2 DEF Reserved
  <2> QED BY <1>1, <2>2, <2>3 DEF Serves
<1>3. CASE ask.caller.profile = NoProfile
  <2>1. selection \in Previews(ask.config) /\ Reserved(ask, selection) = KeyOf(selection)
    BY <1>3 DEF Selections, Reserved
  <2>2. \/ selection \in {[profile |-> NoProfile, key |-> NoCredential, route |-> ask.config.primary]}
        \/ selection \in CodexCandidates(ask.config)
    BY <2>1 DEF Previews
  <2>3. CASE selection \in {[profile |-> NoProfile, key |-> NoCredential, route |-> ask.config.primary]}
    <3>1. /\ selection.route = ask.config.primary
          /\ selection.profile = NoProfile /\ selection.key = NoCredential
      BY <2>3
    <3>2. KeyOf(selection).profile = NoProfile /\ KeyOf(selection).key = NoCredential
      BY <3>1 DEF KeyOf
    <3> QED BY <1>3, <2>1, <3>1, <3>2 DEF Serves
  <2>4. CASE selection \in CodexCandidates(ask.config)
    <3>1. PICK p \in DOMAIN ask.config.profiles :
            selection \in CandidatesOf(p, ask.config.profiles[p].primary)
      BY <2>4 DEF CodexCandidates
    <3>2. Serves(selection.route, KeyOf(selection), ask.config)
      BY <3>1, CandidateServes
    <3> QED BY <1>3, <2>1, <3>2
  <2> QED BY <2>2, <2>3, <2>4
<1> QED BY <1>2, <1>3

\* A request is sent with a route of the configuration it was planned from, or
\* with an account, and the key it is charged to is the one it carries.
CodexSuits(ask) ==
  LET out == ask.out
      Passed(passes) == IF passes THEN ask.caller
                        ELSE [ask.caller EXCEPT !.credential = NoCredential]
  IN  /\ \/ /\ out.auth \in DOMAIN Provider
            /\ out.host = Provider[out.auth].host
            /\ out.xkey = NoCredential
         \/ \E x \in RoutesOf(ask.config) : SuitsRoute(out, Passed(x.passes), x.route)
      /\ ChargedForItsOwnKey(ask)

LEMMA PoolKeySuits ==
  ASSUME NEW route, RouteOk(route), route.account = NoAccount, NEW cred \in PoolKeys(route),
         NEW caller, NEW out, PlanOk(out, route), CarriesKey(out, route, cred, caller)
  PROVE  SuitsRoute(out, caller, route)
<1>1. PICK key \in Keys(route, NoProfile) : cred = key.cred
  BY DEF PoolKeys
<1>2. \A label \in DOMAIN route.pool : route.pool[label] # NoCredential
  BY DEF RouteOk
<1>3. /\ out.host = route.host /\ out.shape \in {route.protocol, "as sent"}
      /\ out.auth = authorization(route, key.cred, caller) /\ out.xkey \in {out.auth, NoCredential}
      /\ out.agent = userAgent(route, caller)
  BY <1>1 DEF PlanOk, CarriesKey
<1> QED BY <1>1, <1>2, <1>3, KeySuits

\* Planned with a primary route and sent with its key, a request suits.
LEMMA ServedSuits ==
  ASSUME NEW ask, ConfigOk(ask.config), NEW route, Serves(route, ask.charged, ask.config),
         route.account = NoAccount, NEW cred \in PoolKeys(route),
         PlanOk(ask.out, route), CarriesKey(ask.out, route, cred, ask.caller)
  PROVE  CodexSuits(ask)
<1> DEFINE out == ask.out
           own == ask.config.profiles[ask.charged.profile].primary
           Told(r) == [route |-> r, passes |-> TRUE]
<1>1. SuitsRoute(out, ask.caller, route) /\ RouteOk(route)
  BY PoolKeySuits, ServingRoute
<1>2. \A r : Told(r).passes = TRUE /\ Told(r).route = r
  OBVIOUS
<1>3. /\ Told(ask.config.primary) \in RoutesOf(ask.config)
      /\ ask.charged.profile \in DOMAIN ask.config.profiles => Told(own) \in RoutesOf(ask.config)
  BY DEF RoutesOf
<1> HIDE DEF out, Told
<1>4. CASE ask.charged.key = NoCredential /\ route = ask.config.primary
  BY <1>1, <1>2, <1>3, <1>4 DEF CodexSuits, ChargedForItsOwnKey, out
<1>5. CASE /\ ask.charged.key = NoCredential
           /\ ask.charged.profile \in DOMAIN ask.config.profiles /\ route = own
  BY <1>1, <1>2, <1>3, <1>5 DEF CodexSuits, ChargedForItsOwnKey, out
<1>6. CASE /\ ask.charged.profile \in DOMAIN ask.config.profiles
           /\ ask.charged.key \in DOMAIN own.pool /\ route = OneKey(own, ask.charged.key)
  <2> HIDE DEF own
  <2>1. RouteOk(own)
    BY <1>6 DEF ConfigOk, own
  <2>2. /\ route.pool = [direct |-> own.pool[ask.charged.key]]
        /\ \A f \in RouteFields \ {"pool"} : route[f] = own[f]
    BY <1>6, <2>1, OneKeyFields
  <2>3. /\ route.host = own.host /\ route.protocol = own.protocol
        /\ route.ownAgent = own.ownAgent
    BY <2>2 DEF RouteFields
  <2>4. /\ DOMAIN route.pool = {"direct"} /\ route.pool["direct"] = own.pool[ask.charged.key]
        /\ route.pool # << >>
    <3> DEFINE c == own.pool[ask.charged.key]
    <3> HIDE DEF c
    <3>1. DOMAIN [direct |-> c] = {"direct"} /\ [direct |-> c]["direct"] = c
      OBVIOUS
    <3>2. DOMAIN << >> = {}
      OBVIOUS
    <3> QED BY <2>2, <3>1, <3>2 DEF c
  <2>5. out.auth = own.pool[ask.charged.key]
    BY <1>1, <2>4 DEF SuitsRoute
  <2>6. identityKind(route) = identityKind(own)
    BY <2>3 DEF identityKind, IsOpenAi
  <2>7. SuitsRoute(out, ask.caller, own)
    BY <1>1, <1>6, <2>3, <2>5, <2>6 DEF SuitsRoute
  <2>8. ChargedForItsOwnKey(ask)
    BY <2>5 DEF ChargedForItsOwnKey, own, out
  <2> QED BY <1>2, <1>3, <1>6, <2>7, <2>8 DEF CodexSuits, out
<1> QED BY <1>4, <1>5, <1>6 DEF Serves

CodexAskFields == {"stage", "body", "caller", "todo", "config", "revision", "out", "charged",
                   "route"}

\* What a planned request still waits for: whether that is its account's token,
\* and whether the active profile has yet to move.
AccountLeft == {<< "account" >>, << "account", "pointer" >>, << "pointer", "account" >>}
AccountDone == {<< >>, << "pointer" >>}
PointerLeft == {<< "pointer" >>, << "account", "pointer" >>, << "pointer", "account" >>}

\* A token for a route with an account, a move for a key with a profile.
TodoFor(todo, route, key) ==
  /\ todo \in AccountLeft \cup AccountDone
  /\ todo \in AccountLeft => route.account # NoAccount
  /\ todo \in AccountDone => route.account = NoAccount
  /\ todo \in PointerLeft => key.profile # NoProfile

LEMMA TodoHeads ==
  /\ \A todo \in AccountLeft \cup AccountDone :
       /\ todo # << >> /\ Head(todo) = "account" =>
            todo \in AccountLeft /\ Tail(todo) \in AccountDone
            /\ (Tail(todo) \in PointerLeft => todo \in PointerLeft)
       /\ todo # << >> /\ Head(todo) = "pointer" =>
            /\ todo \in PointerLeft /\ Tail(todo) \notin PointerLeft
            /\ Tail(todo) \in AccountLeft \cup AccountDone
            /\ todo \in AccountLeft <=> Tail(todo) \in AccountLeft
  /\ << >> \notin AccountLeft /\ << >> \notin PointerLeft
  /\ \A todo \in AccountDone : todo \notin AccountLeft
<1>1. << "pointer", "account" >> # << "account", "pointer" >> /\ << "pointer" >> # << "account" >>
  OBVIOUS
<1>2. /\ Head(<< "account" >>) = "account" /\ Tail(<< "account" >>) = << >>
      /\ Head(<< "pointer" >>) = "pointer" /\ Tail(<< "pointer" >>) = << >>
      /\ Head(<< "account", "pointer" >>) = "account"
      /\ Tail(<< "account", "pointer" >>) = << "pointer" >>
      /\ Head(<< "pointer", "account" >>) = "pointer"
      /\ Tail(<< "pointer", "account" >>) = << "account" >>
  OBVIOUS
<1>3. /\ << >> # << "pointer" >> /\ << >> # << "account" >>
      /\ << >> # << "account", "pointer" >> /\ << >> # << "pointer", "account" >>
      /\ << "pointer" >> # << "account", "pointer" >> /\ << "pointer" >> # << "pointer", "account" >>
      /\ << "account" >> # << "account", "pointer" >> /\ << "account" >> # << "pointer", "account" >>
  OBVIOUS
<1> QED BY <1>1, <1>2, <1>3 DEF AccountLeft, AccountDone, PointerLeft

LEMMA TwoWords ==
  ASSUME NEW one, NEW two
  PROVE  /\ << >> \o << >> = << >> /\ << one >> \o << >> = << one >> /\ << >> \o << one >> = << one >>
         /\ << one >> \o << two >> = << one, two >>
<1> DEFINE S == {one, two}
           s1 == << one >>
           s2 == << two >>
           joined == s1 \o s2
           both == << one, two >>
<1>1. /\ << >> \in Seq(S) /\ s1 \in Seq(S) /\ s2 \in Seq(S) /\ both \in Seq(S)
      /\ Len(s1) = 1 /\ Len(s2) = 1 /\ Len(both) = 2
      /\ s1[1] = one /\ s2[1] = two /\ both[1] = one /\ both[2] = two
  <2> HIDE DEF S
  <2>1. one \in S /\ two \in S
    BY DEF S
  <2> QED BY <2>1
<1> HIDE DEF S, s1, s2, both
<1>2. /\ << >> \o << >> = << >> /\ s1 \o << >> = s1 /\ << >> \o s1 = s1
  BY <1>1, ConcatEmptySeq
<1>3. /\ joined \in Seq(S) /\ Len(joined) = 1 + 1
      /\ \A i \in 1 .. 1 + 1 : joined[i] = IF i <= 1 THEN s1[i] ELSE s2[i - 1]
  BY <1>1, ConcatProperties
<1> HIDE DEF joined
<1>4. Len(joined) = 2 /\ \A i \in 1 .. 2 : joined[i] = both[i]
  BY <1>1, <1>3
<1>5. joined = both
  BY <1>1, <1>3, <1>4, SeqEqual
<1> QED BY <1>2, <1>5 DEF joined, s1, s2, both

LEMMA TodoJoins ==
  ASSUME NEW route, NEW key
  PROVE  LET todo == TokenAwaited(route) \o PointerAwaited(key)
             odot == PointerAwaited(key) \o TokenAwaited(route)
         IN  TodoFor(todo, route, key) /\ TodoFor(odot, route, key)
<1>1. /\ << >> \o << >> = << >> /\ << "account" >> \o << >> = << "account" >>
      /\ << >> \o << "account" >> = << "account" >>
      /\ << "pointer" >> \o << >> = << "pointer" >> /\ << >> \o << "pointer" >> = << "pointer" >>
      /\ << "account" >> \o << "pointer" >> = << "account", "pointer" >>
      /\ << "pointer" >> \o << "account" >> = << "pointer", "account" >>
  BY TwoWords
<1>2. /\ << >> # << "pointer" >> /\ << >> # << "account" >>
      /\ << >> # << "account", "pointer" >> /\ << >> # << "pointer", "account" >>
      /\ << "pointer" >> # << "account", "pointer" >> /\ << "pointer" >> # << "pointer", "account" >>
      /\ << "account" >> # << "account", "pointer" >> /\ << "account" >> # << "pointer", "account" >>
      /\ << "pointer" >> # << "account" >>
  OBVIOUS
<1> QED BY <1>1, <1>2 DEF TokenAwaited, PointerAwaited, TodoFor, AccountLeft, AccountDone, PointerLeft

\* A plan, until it is carried out.
PlanStands(a) ==
  /\ a.todo \in AccountLeft \cup AccountDone
  /\ DOMAIN a.out = CodexOutFields
  /\ a.out.shape # "as sent" => a.out.path \in SpokenAt(a.out.shape)
  /\ a.out.encoded => ~a.out.ours
  /\ a.charged.profile # NoProfile =>
       a.caller.profile = NoProfile /\ a.charged.profile \in DOMAIN a.config.profiles
  /\ a.todo \in PointerLeft => a.charged.profile # NoProfile
  /\ a.todo \in AccountLeft => /\ a.route.account \in DOMAIN Provider
                               /\ a.out.host = a.route.host /\ a.charged.key = NoCredential
  /\ a.todo \in AccountDone => CodexSuits(a)

\* What a request was planned from; as long as nobody has saved since, it names
\* the profiles that are there.
CodexAskOk(a, force, count) ==
  /\ DOMAIN a = CodexAskFields
  /\ a.body \in CodexBody /\ a.caller \in CodexCaller
  /\ ConfigOk(a.config) /\ a.revision \in Nat /\ a.revision <= count
  /\ a.caller.profile = NoProfile /\ a.revision = count =>
       DOMAIN a.config.profiles = DOMAIN force.profiles
  /\ a.stage = "waiting" => PlanStands(a)

CodexInv ==
  /\ ConfigOk(inForce) /\ codexSaves \in Nat
  /\ DOMAIN codexAsks = CodexAsk
  /\ \A r \in CodexAsk :
       codexAsks[r].stage \in {"reading", "waiting"} => CodexAskOk(codexAsks[r], inForce, codexSaves)

CodexSent(a) ==
  /\ CodexSuits(a)
  /\ a.out.shape # "as sent" => a.out.path \in SpokenAt(a.out.shape)
  /\ a.out.encoded => ~a.out.ours

CodexHold ==
  \A r \in CodexAsk :
    (codexAsks'[r].stage = "sent" /\ codexAsks[r].stage # "sent") =>
        LET ask == codexAsks'[r]
            out == ask.out
            Passed(passes) == IF passes THEN ask.caller
                              ELSE [ask.caller EXCEPT !.credential = NoCredential]
        IN  /\ \/ /\ out.auth \in DOMAIN Provider
                  /\ out.host = Provider[out.auth].host
                  /\ out.xkey = NoCredential
               \/ \E x \in RoutesOf(ask.config) :
                      SuitsRoute(out, Passed(x.passes), x.route)
            /\ out.shape # "as sent" => out.path \in SpokenAt(out.shape)
            /\ ChargedForItsOwnKey(ask)
            /\ out.encoded => ~out.ours

\* A step of one request that leads it to state a, while the active profile may
\* move.
CodexGoes(r, a) ==
  /\ codexAsks' = [codexAsks EXCEPT ![r] = a]
  /\ ConfigOk(inForce') /\ codexSaves' \in Nat /\ codexSaves' >= codexSaves
  /\ codexSaves' = codexSaves => DOMAIN inForce'.profiles = DOMAIN inForce.profiles
  /\ a.stage \in {"reading", "waiting"} => CodexAskOk(a, inForce', codexSaves')
  /\ a.stage = "sent" /\ codexAsks[r].stage # "sent" => CodexSent(a)

LEMMA OneCodexAsk ==
  ASSUME CodexInv, NEW r \in CodexAsk, NEW a, CodexGoes(r, a)
  PROVE  CodexInv' /\ CodexHold
<1>1. /\ DOMAIN codexAsks' = CodexAsk /\ codexAsks'[r] = a
      /\ \A q \in CodexAsk : q # r => codexAsks'[q] = codexAsks[q]
  BY DEF CodexGoes, CodexInv
<1>2. CodexHold
  BY <1>1 DEF CodexGoes, CodexSent, CodexSuits, CodexHold
<1>3. ASSUME NEW q \in CodexAsk, q # r, codexAsks[q].stage \in {"reading", "waiting"}
      PROVE  CodexAskOk(codexAsks[q], inForce', codexSaves')
  <2>1. CodexAskOk(codexAsks[q], inForce, codexSaves)
    BY <1>3 DEF CodexInv
  <2>2. codexSaves' \in Nat /\ codexSaves \in Nat /\ codexSaves' >= codexSaves
    BY DEF CodexGoes, CodexInv
  <2>3. /\ codexAsks[q].revision \in Nat /\ codexAsks[q].revision <= codexSaves
    BY <2>1 DEF CodexAskOk
  <2>4. /\ codexAsks[q].revision <= codexSaves'
        /\ codexAsks[q].revision = codexSaves' =>
             codexAsks[q].revision = codexSaves /\ codexSaves' = codexSaves
    BY <2>2, <2>3
  <2> QED BY <2>1, <2>4 DEF CodexAskOk, CodexGoes
<1>4. \A q \in CodexAsk : codexAsks'[q].stage \in {"reading", "waiting"} =>
         CodexAskOk(codexAsks'[q], inForce', codexSaves')
  BY <1>1, <1>3 DEF CodexGoes
<1>5. CodexInv'
  BY <1>1, <1>4 DEF CodexInv, CodexGoes, ConfigOk, RouteOk
<1> QED BY <1>2, <1>5

LEMMA CodexAskEnds ==
  ASSUME CodexInv, NEW r \in CodexAsk, NEW status, CodexEnds(r, status),
         ConfigOk(inForce'), codexSaves' \in Nat, codexSaves' >= codexSaves,
         codexSaves' = codexSaves => DOMAIN inForce'.profiles = DOMAIN inForce.profiles
  PROVE  CodexInv' /\ CodexHold
<1> DEFINE a == [stage |-> "over", status |-> status]
<1>1. codexAsks' = [codexAsks EXCEPT ![r] = a] /\ a.stage = "over"
  BY DEF CodexEnds, CodexBecomes
<1> HIDE DEF a
<1>2. CodexGoes(r, a)
  BY <1>1 DEF CodexGoes
<1> QED BY <1>2, OneCodexAsk

LEMMA CodexQuiet ==
  ASSUME CodexInv, UNCHANGED << inForce, codexSaves >>
  PROVE  /\ ConfigOk(inForce') /\ codexSaves' \in Nat /\ codexSaves' >= codexSaves
         /\ DOMAIN inForce'.profiles = DOMAIN inForce.profiles
  BY DEF CodexInv

LEMMA ProfileInForce ==
  ASSUME NEW config, ConfigOk(config), NEW p \in DOMAIN config.profiles
  PROVE  LET to == WithCodexProfile(config, p)
         IN  ConfigOk(to) /\ to.profiles = config.profiles
<1> DEFINE to == WithCodexProfile(config, p)
<1>1. /\ DOMAIN to = {"primary", "compact", "auto", "active", "profiles"}
      /\ to.primary = config.profiles[p].primary /\ to.compact = config.profiles[p].compact
      /\ to.profiles = config.profiles
  BY DEF WithCodexProfile, ConfigOk
<1> HIDE DEF to
<1>2. ConfigOk(to)
  BY <1>1 DEF ConfigOk
<1> QED BY <1>1, <1>2 DEF to

LEMMA CodexLooks ==
  ASSUME CodexInv, NEW r \in CodexAsk, CodexArrive(r)
  PROVE  CodexInv' /\ CodexHold
<1>1. PICK body \in CodexBody, caller \in CodexCaller :
        CodexBecomes(r,
             IF ProfileRefused(inForce, caller)
             THEN [stage |-> "over", status |-> 400]
             ELSE [stage |-> "reading", body |-> body, caller |-> caller, todo |-> << >>,
                   config |-> IF caller.profile = NoProfile THEN inForce
                              ELSE WithCodexProfile(inForce, caller.profile),
                   revision |-> codexSaves, out |-> Nothing, charged |-> NoKeyChosen,
                   route |-> inForce.primary])
  BY DEF CodexArrive
<1>2. UNCHANGED << inForce, codexSaves >>
  BY DEF CodexArrive
<1> DEFINE to == IF caller.profile = NoProfile THEN inForce
                 ELSE WithCodexProfile(inForce, caller.profile)
           a == [stage |-> "reading", body |-> body, caller |-> caller, todo |-> << >>,
                 config |-> to, revision |-> codexSaves, out |-> Nothing, charged |-> NoKeyChosen,
                 route |-> inForce.primary]
<1>3. CASE ProfileRefused(inForce, caller)
  <2>1. CodexEnds(r, 400)
    BY <1>1, <1>3 DEF CodexEnds
  <2> QED BY <1>2, <2>1, CodexQuiet, CodexAskEnds
<1>4. CASE ~ProfileRefused(inForce, caller)
  <2>1. ConfigOk(inForce)
    BY DEF CodexInv
  <2>2. ConfigOk(to) /\ (caller.profile = NoProfile => to = inForce)
    <3>1. ASSUME caller.profile \in DOMAIN inForce.profiles
          PROVE  ConfigOk(WithCodexProfile(inForce, caller.profile))
      BY <2>1, <3>1, ProfileInForce
    <3> QED BY <1>4, <2>1, <3>1 DEF ProfileRefused
  <2> HIDE DEF to
  <2>3. /\ DOMAIN a = CodexAskFields /\ a.stage = "reading" /\ a.body = body /\ a.caller = caller
        /\ a.config = to /\ a.revision = codexSaves
    BY DEF CodexAskFields
  <2>4. codexAsks' = [codexAsks EXCEPT ![r] = a]
    BY <1>1, <1>4 DEF CodexBecomes, to
  <2> HIDE DEF a
  <2>5. CodexAskOk(a, inForce, codexSaves)
    BY <2>2, <2>3 DEF CodexAskOk, CodexInv
  <2>6. CodexGoes(r, a)
    BY <1>2, <2>3, <2>4, <2>5, CodexQuiet DEF CodexGoes
  <2> QED BY <2>6, OneCodexAsk
<1> QED BY <1>3, <1>4

LEMMA Rereading ==
  ASSUME CodexInv, NEW r \in CodexAsk, codexAsks[r].stage = "reading"
  PROVE  Reread(r).stage = "reading" /\ CodexAskOk(Reread(r), inForce, codexSaves)
<1> DEFINE old == codexAsks[r]
           a == [old EXCEPT !.config = inForce, !.revision = codexSaves]
<1>1. CodexAskOk(old, inForce, codexSaves) /\ codexSaves \in Nat /\ ConfigOk(inForce)
  BY DEF CodexInv
<1>2. CASE old.caller.profile # NoProfile
  BY <1>1, <1>2 DEF Reread
<1>3. CASE old.caller.profile = NoProfile
  <2>1. Reread(r) = a
    BY <1>3 DEF Reread
  <2>2. /\ DOMAIN a = CodexAskFields /\ a.stage = old.stage /\ a.body = old.body
        /\ a.caller = old.caller /\ a.config = inForce /\ a.revision = codexSaves
    BY <1>1 DEF CodexAskOk, CodexAskFields
  <2> HIDE DEF a
  <2>3. CodexAskOk(a, inForce, codexSaves)
    BY <1>1, <2>2 DEF CodexAskOk
  <2> QED BY <2>1, <2>2, <2>3
<1> QED BY <1>2, <1>3

PlanOf(ask, route, key, out, todo) ==
  [ask EXCEPT !.stage = "waiting", !.charged = key, !.out = out, !.route = route, !.todo = todo]

LEMMA PlanFields ==
  ASSUME NEW ask, DOMAIN ask = CodexAskFields, NEW route, NEW key, NEW out, NEW todo
  PROVE  LET a == PlanOf(ask, route, key, out, todo)
         IN  /\ DOMAIN a = CodexAskFields /\ a.stage = "waiting" /\ a.charged = key
             /\ a.out = out /\ a.route = route /\ a.todo = todo
             /\ a.body = ask.body /\ a.caller = ask.caller /\ a.config = ask.config
             /\ a.revision = ask.revision
  BY DEF PlanOf, CodexAskFields

LEMMA PlannedGoes ==
  ASSUME CodexInv, NEW r \in CodexAsk, UNCHANGED << inForce, codexSaves >>,
         NEW ask, CodexAskOk(ask, inForce, codexSaves),
         NEW route, NEW key, NEW out, NEW todo, Planned(r, ask, route, key, out, todo),
         TodoFor(todo, route, key), RouteOk(route), PlanOk(out, route),
         key.profile # NoProfile =>
           ask.caller.profile = NoProfile /\ key.profile \in DOMAIN ask.config.profiles,
         route.account # NoAccount => key.key = NoCredential,
         route.account = NoAccount => CodexSuits(PlanOf(ask, route, key, out, todo))
  PROVE  CodexInv' /\ CodexHold
<1> DEFINE a == PlanOf(ask, route, key, out, todo)
<1>1. /\ DOMAIN a = CodexAskFields /\ a.stage = "waiting" /\ a.charged = key
      /\ a.out = out /\ a.route = route /\ a.todo = todo
      /\ a.body = ask.body /\ a.caller = ask.caller /\ a.config = ask.config
      /\ a.revision = ask.revision
  BY PlanFields DEF CodexAskOk
<1>2. codexAsks' = [codexAsks EXCEPT ![r] = a]
  BY DEF Planned, CodexBecomes, PlanOf
<1> HIDE DEF a
<1>3. PlanStands(a)
  <2>1. a.todo \in AccountLeft => a.route.account \in DOMAIN Provider
    BY <1>1 DEF TodoFor, RouteOk
  <2>2. a.todo \in AccountDone => CodexSuits(a)
    BY <1>1 DEF TodoFor, a
  <2> QED BY <1>1, <2>1, <2>2 DEF PlanStands, TodoFor, PlanOk
<1>4. CodexAskOk(a, inForce, codexSaves)
  BY <1>1, <1>3 DEF CodexAskOk
<1>5. CodexGoes(r, a)
  BY <1>1, <1>2, <1>4, CodexQuiet DEF CodexGoes
<1> QED BY <1>5, OneCodexAsk

LEMMA PrimaryPlanned ==
  ASSUME CodexInv, NEW r \in CodexAsk, PlanPrimary(r)
  PROVE  CodexInv' /\ CodexHold
<1> DEFINE ask == Reread(r)
<1>1. /\ codexAsks[r].stage = "reading" /\ ~IsCompaction(ask.body)
      /\ UNCHANGED << inForce, codexSaves >>
  BY DEF PlanPrimary
<1>2. CodexAskOk(ask, inForce, codexSaves) /\ DOMAIN ask = CodexAskFields
  BY <1>1, Rereading DEF CodexAskOk
<1>3. PICK selection \in Selections(ask) :
        IF PrimaryRefusal(ask.body, ask.config, selection.route) # 0
        THEN CodexEnds(r, PrimaryRefusal(ask.body, ask.config, selection.route))
        ELSE \E cred \in PoolKeys(selection.route) :
               Planned(r, ask, selection.route, Reserved(ask, selection),
                       buildPrimaryOpenAiProxyPlan(ask, selection.route, cred),
                       TokenAwaited(selection.route) \o PointerAwaited(Reserved(ask, selection)))
  BY DEF PlanPrimary
<1> DEFINE route == selection.route
           key == Reserved(ask, selection)
           todo == TokenAwaited(route) \o PointerAwaited(key)
<1>4. CASE PrimaryRefusal(ask.body, ask.config, route) # 0
  BY <1>1, <1>3, <1>4, CodexQuiet, CodexAskEnds
<1>5. CASE PrimaryRefusal(ask.body, ask.config, route) = 0
  <2>1. PICK cred \in PoolKeys(route) :
          Planned(r, ask, route, key, buildPrimaryOpenAiProxyPlan(ask, route, cred), todo)
    BY <1>3, <1>5
  <2>2. /\ Serves(route, key, ask.config)
        /\ ask.caller.profile # NoProfile => key.profile = NoProfile
    BY SelectionServes
  <2>3. TodoFor(todo, route, key)
    BY TodoJoins
  <2> HIDE DEF ask, route, key, todo
  <2>4. RouteOk(route) /\ (route.account # NoAccount => key.key = NoCredential)
    BY <1>2, <2>2, ServingRoute DEF CodexAskOk
  <2> DEFINE out == buildPrimaryOpenAiProxyPlan(ask, route, cred)
             a == PlanOf(ask, route, key, out, todo)
  <2>5. PlanOk(out, route) /\ CarriesKey(out, route, cred, ask.caller)
    BY <1>1, <1>2, <1>5, <2>4, PrimaryPlanOk DEF CodexAskOk
  <2> HIDE DEF out
  <2>6. a.charged = key /\ a.out = out /\ a.caller = ask.caller /\ a.config = ask.config
    BY <1>2, PlanFields
  <2> HIDE DEF a
  <2>7. route.account = NoAccount => CodexSuits(a)
    BY <1>2, <2>1, <2>2, <2>5, <2>6, ServedSuits DEF CodexAskOk
  <2>8. key.profile # NoProfile =>
          ask.caller.profile = NoProfile /\ key.profile \in DOMAIN ask.config.profiles
    BY <2>2 DEF Serves
  <2>9. Planned(r, ask, route, key, out, todo)
    BY <2>1 DEF out
  <2> QED BY <1>1, <1>2, <2>3, <2>4, <2>5, <2>7, <2>8, <2>9, PlannedGoes DEF a
<1> QED BY <1>4, <1>5

LEMMA CompactPlanned ==
  ASSUME CodexInv, NEW r \in CodexAsk, PlanCompact(r)
  PROVE  CodexInv' /\ CodexHold
<1> DEFINE ask == Reread(r)
<1>1. /\ codexAsks[r].stage = "reading" /\ IsCompaction(ask.body)
      /\ UNCHANGED << inForce, codexSaves >>
  BY DEF PlanCompact
<1>2. /\ CodexAskOk(ask, inForce, codexSaves) /\ DOMAIN ask = CodexAskFields
      /\ ask.body \in CodexBody /\ ask.caller \in CodexCaller /\ ConfigOk(ask.config)
  BY <1>1, Rereading DEF CodexAskOk
<1>3. PICK selection \in CompactSelections(ask) :
        LET route == CompactRoute(ask.config, selection)
            key == Reserved(ask, selection)
        IN  IF CompactRefusal(ask.body, route) # 0
            THEN CodexEnds(r, CompactRefusal(ask.body, route))
            ELSE \E cred \in PoolKeys(route) :
                   Planned(r, ask, route, key,
                           buildCompactOpenAiProxyPlan(ask, selection, route, cred),
                           PointerAwaited(key) \o TokenAwaited(route))
  BY DEF PlanCompact
<1> DEFINE route == CompactRoute(ask.config, selection)
           key == Reserved(ask, selection)
           todo == PointerAwaited(key) \o TokenAwaited(route)
           split == ask.config.compact.split
<1>4. CASE CompactRefusal(ask.body, route) # 0
  BY <1>1, <1>3, <1>4, CodexQuiet, CodexAskEnds
<1>5. CASE CompactRefusal(ask.body, route) = 0
  <2>1. PICK cred \in PoolKeys(route) :
          Planned(r, ask, route, key, buildCompactOpenAiProxyPlan(ask, selection, route, cred), todo)
    BY <1>3, <1>5
  <2>2. TodoFor(todo, route, key)
    BY TodoJoins
  <2>3. ASSUME ~split
        PROVE  /\ Serves(route, key, ask.config)
               /\ ask.caller.profile # NoProfile => key.profile = NoProfile
    BY <2>3, SelectionServes DEF CompactSelections, CompactRoute
  <2>4. ASSUME split
        PROVE  /\ route = ask.config.compact.route
               /\ key.profile = NoProfile /\ key.key = NoCredential
    <3>1. selection \in {[profile |-> NoProfile, key |-> NoCredential, route |-> ask.config.primary]}
      BY <2>4 DEF CompactSelections
    <3>2. selection.profile = NoProfile /\ selection.key = NoCredential
      BY <3>1
    <3>3. KeyOf(selection).profile = NoProfile /\ KeyOf(selection).key = NoCredential
      BY <3>2 DEF KeyOf
    <3>4. NoKeyChosen.profile = NoProfile /\ NoKeyChosen.key = NoCredential
      BY DEF NoKeyChosen
    <3> QED BY <2>4, <3>3, <3>4 DEF Reserved, CompactRoute
  <2> HIDE DEF ask, route, key, todo
  <2>5. RouteOk(route) /\ (route.account # NoAccount => key.key = NoCredential)
    <3>1. CASE split
      BY <1>2, <2>4, <3>1 DEF ConfigOk
    <3>2. CASE ~split
      BY <1>2, <2>3, <3>2, ServingRoute
    <3> QED BY <3>1, <3>2
  <2> DEFINE out == buildCompactOpenAiProxyPlan(ask, selection, route, cred)
             a == PlanOf(ask, route, key, out, todo)
             silent == [ask.caller EXCEPT !.credential = NoCredential]
  <2>6. /\ PlanOk(out, route)
        /\ ~split => CarriesKey(out, route, cred, ask.caller)
        /\ split /\ route.account = NoAccount => CarriesKey(out, route, cred, silent)
    <3> HIDE DEF out
    <3> QED BY <1>1, <1>2, <1>5, <2>5, CompactPlanOk DEF out
  <2> HIDE DEF out, silent
  <2>7. a.charged = key /\ a.out = out /\ a.caller = ask.caller /\ a.config = ask.config
    BY <1>2, PlanFields
  <2> HIDE DEF a
  <2>8. ASSUME route.account = NoAccount PROVE CodexSuits(a)
    <3>1. CASE ~split
      BY <1>2, <2>1, <2>3, <2>6, <2>7, <2>8, <3>1, ServedSuits
    <3>2. CASE split
      <4>1. SuitsRoute(out, silent, route)
        BY <2>1, <2>5, <2>6, <2>8, <3>2, PoolKeySuits
      <4> DEFINE x == [route |-> route, passes |-> FALSE]
      <4>2. x \in RoutesOf(a.config)
        BY <2>4, <2>7, <3>2 DEF RoutesOf
      <4>3. x.route = route /\ x.passes = FALSE
        OBVIOUS
      <4> HIDE DEF x
      <4> QED BY <2>4, <2>7, <3>2, <4>1, <4>2, <4>3 DEF CodexSuits, ChargedForItsOwnKey, silent
    <3> QED BY <3>1, <3>2
  <2>9. key.profile # NoProfile =>
          ask.caller.profile = NoProfile /\ key.profile \in DOMAIN ask.config.profiles
    BY <2>3, <2>4 DEF Serves
  <2>10. Planned(r, ask, route, key, out, todo)
    BY <2>1 DEF out
  <2> QED BY <1>1, <1>2, <2>2, <2>5, <2>6, <2>8, <2>9, <2>10, PlannedGoes DEF a
<1> QED BY <1>4, <1>5

LEMMA AccountPrepared ==
  ASSUME CodexInv, NEW r \in CodexAsk, PrepareAccount(r)
  PROVE  CodexInv' /\ CodexHold
<1> DEFINE ask == codexAsks[r]
           account == ask.route.account
           told == InDialect(ask.out, account)
           out == [told EXCEPT !.auth = account, !.xkey = NoCredential]
           a == [ask EXCEPT !.todo = Tail(ask.todo), !.out = out]
<1>1. /\ ask.stage = "waiting" /\ ask.todo # << >> /\ Head(ask.todo) = "account"
      /\ UNCHANGED << inForce, codexSaves >>
  BY DEF PrepareAccount, Awaits
<1>2. CodexAskOk(ask, inForce, codexSaves) /\ PlanStands(ask) /\ DOMAIN ask = CodexAskFields
  BY <1>1 DEF CodexInv, CodexAskOk
<1>3. /\ ask.todo \in AccountLeft /\ Tail(ask.todo) \in AccountDone
      /\ Tail(ask.todo) \in PointerLeft => ask.todo \in PointerLeft
  BY <1>1, <1>2, TodoHeads DEF PlanStands
<1>4. CASE \E status : CodexEnds(r, status)
  BY <1>1, <1>4, CodexQuiet, CodexAskEnds
<1>5. CASE ~AccountRefuses(ask.route, ask.out.path) /\ CodexBecomes(r, a)
  <2>1. /\ DOMAIN told = CodexOutFields /\ told.host = ask.out.host
        /\ told.path = ask.out.path /\ told.shape = ask.out.shape
        /\ told.encoded => ~told.ours
    BY <1>2 DEF InDialect, PlanStands, CodexOutFields
  <2> HIDE DEF told
  <2>2. /\ DOMAIN out = CodexOutFields /\ out.host = ask.out.host
        /\ out.path = ask.out.path /\ out.shape = ask.out.shape
        /\ out.encoded => ~out.ours
        /\ out.auth = account /\ out.xkey = NoCredential
    BY <2>1 DEF CodexOutFields
  <2> HIDE DEF out
  <2>3. /\ DOMAIN a = CodexAskFields /\ a.stage = ask.stage /\ a.out = out
        /\ a.todo = Tail(ask.todo) /\ a.charged = ask.charged /\ a.config = ask.config
        /\ a.caller = ask.caller /\ a.body = ask.body /\ a.revision = ask.revision
        /\ a.route = ask.route
    BY <1>2 DEF CodexAskFields
  <2>4. codexAsks' = [codexAsks EXCEPT ![r] = a]
    BY <1>5 DEF CodexBecomes
  <2>5. /\ account \in DOMAIN Provider /\ ask.out.host = ask.route.host
        /\ ask.charged.key = NoCredential
    BY <1>2, <1>3 DEF PlanStands
  <2>6. ask.route.host = Provider[account].host
    BY <1>5 DEF AccountRefuses
  <2> HIDE DEF a, ask, account
  <2>7. CodexSuits(a)
    BY <2>2, <2>3, <2>5, <2>6 DEF CodexSuits, ChargedForItsOwnKey
  <2>8. a.todo \notin AccountLeft
    BY <1>3, <2>3, TodoHeads
  <2>9. PlanStands(a)
    BY <1>2, <1>3, <2>2, <2>3, <2>7, <2>8 DEF PlanStands
  <2>10. CodexAskOk(a, inForce, codexSaves)
    BY <1>2, <2>3, <2>9 DEF CodexAskOk
  <2>11. CodexGoes(r, a)
    BY <1>1, <2>3, <2>4, <2>10, CodexQuiet DEF CodexGoes
  <2> QED BY <2>11, OneCodexAsk
<1> QED BY <1>4, <1>5 DEF PrepareAccount

\* A request for whose profile the active profile was moved, or was not.
LEMMA PointerPassed ==
  ASSUME CodexInv, NEW r \in CodexAsk, Awaits(r, "pointer"),
         CodexBecomes(r, [codexAsks[r] EXCEPT !.todo = Tail(@)]),
         ConfigOk(inForce'), codexSaves' \in Nat, codexSaves' >= codexSaves,
         codexSaves' = codexSaves => DOMAIN inForce'.profiles = DOMAIN inForce.profiles
  PROVE  CodexInv' /\ CodexHold
<1> DEFINE ask == codexAsks[r]
           a == [ask EXCEPT !.todo = Tail(ask.todo)]
<1>1. ask.stage = "waiting" /\ ask.todo # << >> /\ Head(ask.todo) = "pointer"
  BY DEF Awaits
<1>2. CodexAskOk(ask, inForce, codexSaves) /\ PlanStands(ask) /\ DOMAIN ask = CodexAskFields
  BY <1>1 DEF CodexInv, CodexAskOk
<1>3. /\ Tail(ask.todo) \in AccountLeft \cup AccountDone /\ Tail(ask.todo) \notin PointerLeft
      /\ ask.todo \in AccountLeft <=> Tail(ask.todo) \in AccountLeft
  BY <1>1, <1>2, TodoHeads DEF PlanStands
<1>4. codexAsks' = [codexAsks EXCEPT ![r] = a]
  BY DEF CodexBecomes
<1>5. /\ DOMAIN a = CodexAskFields /\ a.stage = ask.stage /\ a.todo = Tail(ask.todo)
      /\ a.out = ask.out /\ a.charged = ask.charged /\ a.config = ask.config
      /\ a.caller = ask.caller /\ a.body = ask.body /\ a.revision = ask.revision
      /\ a.route = ask.route
  BY <1>2 DEF CodexAskFields
<1> HIDE DEF a, ask
<1>6. a.todo \in AccountDone => CodexSuits(a)
  <2>1. a.todo \in AccountDone => ask.todo \in AccountDone
    BY <1>2, <1>3, <1>5, TodoHeads DEF PlanStands
  <2>2. CodexSuits(ask) => CodexSuits(a)
    BY <1>5 DEF CodexSuits, ChargedForItsOwnKey
  <2> QED BY <1>2, <2>1, <2>2 DEF PlanStands
<1>7. PlanStands(a)
  BY <1>2, <1>3, <1>5, <1>6 DEF PlanStands
<1>8. CodexAskOk(a, inForce', codexSaves')
  <2>1. /\ a.revision \in Nat /\ a.revision <= codexSaves /\ codexSaves \in Nat
    BY <1>2, <1>5 DEF CodexAskOk, CodexInv
  <2>2. a.revision <= codexSaves' /\ (a.revision = codexSaves' =>
                                        codexSaves' = codexSaves /\ a.revision = codexSaves)
    BY <2>1
  <2> QED BY <1>2, <1>5, <1>7, <2>1, <2>2 DEF CodexAskOk
<1>9. CodexGoes(r, a)
  BY <1>1, <1>4, <1>5, <1>8 DEF CodexGoes
<1> QED BY <1>9, OneCodexAsk

\* The profile a request is charged to is still there when nobody has saved since.
LEMMA ChargedApplies ==
  ASSUME CodexInv, NEW r \in CodexAsk, Awaits(r, "pointer"), PointerMoves(codexAsks[r]),
         ApplyCharged(r)
  PROVE  ConfigOk(inForce') /\ codexSaves' \in Nat /\ codexSaves' >= codexSaves
         /\ codexSaves' # codexSaves
<1> DEFINE ask == codexAsks[r]
           p == ask.charged.profile
           to == WithCodexProfile(inForce, p)
<1>1. ask.stage = "waiting" /\ ask.todo # << >> /\ Head(ask.todo) = "pointer"
  BY DEF Awaits
<1>2. CodexAskOk(ask, inForce, codexSaves) /\ PlanStands(ask)
  BY <1>1 DEF CodexInv, CodexAskOk
<1>3. ask.todo \in PointerLeft
  BY <1>1, <1>2, TodoHeads DEF PlanStands
<1>4. p \in DOMAIN inForce.profiles
  BY <1>2, <1>3 DEF PlanStands, CodexAskOk, PointerMoves
<1>5. ConfigOk(to)
  BY <1>4, ProfileInForce DEF CodexInv
<1> HIDE DEF to
<1>6. inForce' = [to EXCEPT !.auto = inForce.auto]
  BY DEF ApplyCharged, to
<1>7. ConfigOk(inForce')
  BY <1>5, <1>6 DEF ConfigOk
<1>8. codexSaves \in Nat /\ codexSaves' = codexSaves + 1
  BY DEF CodexInv, ApplyCharged
<1> QED BY <1>7, <1>8

LEMMA CodexStarts == CodexInit => CodexInv
<1> SUFFICES ASSUME CodexInit PROVE CodexInv
  OBVIOUS
<1>1. NotYetAsked.stage = "idle"
  BY DEF NotYetAsked
<1>2. ConfigOk(inForce)
  BY CodexAssumption DEF CodexInit
<1>3. DOMAIN codexAsks = CodexAsk /\ \A r \in CodexAsk : codexAsks[r].stage = "idle"
  BY <1>1 DEF CodexInit
<1> QED BY <1>2, <1>3 DEF CodexInit, CodexInv

LEMMA CodexSteps ==
  CodexInv /\ [CodexNext]_codexVars => CodexInv' /\ (CodexHold \/ UNCHANGED codexVars)
<1> SUFFICES ASSUME CodexInv, [CodexNext]_codexVars
             PROVE  CodexInv' /\ (CodexHold \/ UNCHANGED codexVars)
  OBVIOUS
<1>1. ASSUME NEW r \in CodexAsk, NEW status, CodexEnds(r, status), UNCHANGED << inForce, codexSaves >>
      PROVE  CodexInv' /\ CodexHold
  BY <1>1, CodexQuiet, CodexAskEnds
<1>2. ASSUME NEW r \in CodexAsk,
             CodexLoseBody(r) \/ FailAccount(r) \/ ReplayCompaction(r) \/ CodexConclude(r)
      PROVE  CodexInv' /\ CodexHold
  BY <1>1, <1>2 DEF CodexLoseBody, FailAccount, ReplayCompaction, CodexConclude
<1>3. ASSUME NEW r \in CodexAsk, CodexArrive(r) PROVE CodexInv' /\ CodexHold
  BY <1>3, CodexLooks
<1>4. ASSUME NEW r \in CodexAsk, PlanPrimary(r) PROVE CodexInv' /\ CodexHold
  BY <1>4, PrimaryPlanned
<1>5. ASSUME NEW r \in CodexAsk, PlanCompact(r) PROVE CodexInv' /\ CodexHold
  BY <1>5, CompactPlanned
<1>6. ASSUME NEW r \in CodexAsk, PrepareAccount(r) PROVE CodexInv' /\ CodexHold
  BY <1>6, AccountPrepared
<1>7. ASSUME NEW r \in CodexAsk, LeavePointer(r) PROVE CodexInv' /\ CodexHold
  BY <1>7, CodexQuiet, PointerPassed DEF LeavePointer
<1>8. ASSUME NEW r \in CodexAsk, MovePointer(r) PROVE CodexInv' /\ CodexHold
  BY <1>8, ChargedApplies, PointerPassed DEF MovePointer
<1>9. ASSUME NEW r \in CodexAsk, FailPointer(r) PROVE CodexInv' /\ CodexHold
  <2>1. CASE ApplyCharged(r) /\ CodexEnds(r, 500)
    BY <1>9, <2>1, ChargedApplies, CodexAskEnds DEF FailPointer
  <2>2. CASE UNCHANGED << inForce, codexSaves >> /\ \E status : CodexEnds(r, status)
    BY <1>1, <2>2
  <2> QED BY <1>9, <2>1, <2>2 DEF FailPointer
<1>10. ASSUME NEW r \in CodexAsk, CodexAttempt(r) PROVE CodexInv' /\ CodexHold
  <2> DEFINE ask == codexAsks[r]
             a == [ask EXCEPT !.stage = "sent"]
  <2>1. /\ ask.stage = "waiting" /\ ask.todo = << >> /\ UNCHANGED << inForce, codexSaves >>
    BY <1>10 DEF CodexAttempt, Ready
  <2>2. PlanStands(ask) /\ DOMAIN ask = CodexAskFields
    BY <2>1 DEF CodexInv, CodexAskOk
  <2>3. CodexSuits(ask)
    BY <2>1, <2>2 DEF PlanStands, AccountDone
  <2>4. /\ a.stage = "sent" /\ a.out = ask.out /\ a.charged = ask.charged
        /\ a.config = ask.config /\ a.caller = ask.caller
    BY <2>2 DEF CodexAskFields
  <2>5. codexAsks' = [codexAsks EXCEPT ![r] = a]
    BY <1>10 DEF CodexAttempt, CodexBecomes
  <2> HIDE DEF a, ask
  <2>6. CodexSent(a)
    BY <2>2, <2>3, <2>4 DEF CodexSent, CodexSuits, ChargedForItsOwnKey, PlanStands
  <2>7. CodexGoes(r, a)
    BY <2>1, <2>4, <2>5, <2>6, CodexQuiet DEF CodexGoes
  <2> QED BY <2>7, OneCodexAsk
<1>11. CASE CodexSave
  <2>1. /\ inForce' \in CodexGeneration /\ codexSaves' = codexSaves + 1 /\ codexAsks' = codexAsks
    BY <1>11 DEF CodexSave
  <2>2. ConfigOk(inForce')
    BY <2>1, CodexAssumption
  <2>3. codexSaves \in Nat /\ codexSaves' \in Nat
    BY <2>1 DEF CodexInv
  <2>4. ASSUME NEW q \in CodexAsk, codexAsks[q].stage \in {"reading", "waiting"}
        PROVE  CodexAskOk(codexAsks[q], inForce', codexSaves')
    <3>1. CodexAskOk(codexAsks[q], inForce, codexSaves)
      BY <2>4 DEF CodexInv
    <3>2. codexAsks[q].revision \in Nat /\ codexAsks[q].revision <= codexSaves
      BY <3>1 DEF CodexAskOk
    <3>3. codexAsks[q].revision <= codexSaves' /\ codexAsks[q].revision # codexSaves'
      BY <2>1, <2>3, <3>2
    <3> QED BY <3>1, <3>3 DEF CodexAskOk
  <2>5. CodexInv'
    BY <2>1, <2>2, <2>3, <2>4 DEF CodexInv, ConfigOk, RouteOk
  <2>6. CodexHold
    BY <2>1 DEF CodexHold
  <2> QED BY <2>5, <2>6
<1>12. CASE UNCHANGED codexVars
  <2>1. inForce' = inForce /\ codexSaves' = codexSaves /\ codexAsks' = codexAsks
    BY <1>12 DEF codexVars
  <2> QED BY <1>12, <2>1 DEF CodexInv
<1> QED BY <1>2, <1>3, <1>4, <1>5, <1>6, <1>7, <1>8, <1>9, <1>10, <1>11, <1>12 DEF CodexNext

\* A request of either endpoint reaches its upstream with a key of the
\* configuration it was planned from, in its protocol and under its identity,
\* whatever is saved meanwhile and however many requests are under way.
THEOREM RequestsSuit == GatewaySpec => RequestsSuitTheirUpstream
<1>1. GatewayInit => RoutingInv /\ CodexInv
  BY RoutingStarts, CodexStarts DEF GatewayInit
<1>2. RoutingInv /\ [GatewayNext]_gatewayVars => RoutingInv' /\ (RoutesHold \/ UNCHANGED routingVars)
  <2>1. RoutingInv /\ UNCHANGED routingVars => RoutingInv'
    BY RoutingSteps
  <2> QED BY <2>1, RoutingSteps DEF GatewayNext, gatewayVars
<1>3. CodexInv /\ [GatewayNext]_gatewayVars => CodexInv' /\ (CodexHold \/ UNCHANGED codexVars)
  <2>1. CodexInv /\ UNCHANGED codexVars => CodexInv'
    BY CodexSteps
  <2> QED BY <2>1, CodexSteps DEF GatewayNext, gatewayVars
<1>4. RoutingInv /\ [GatewayNext]_gatewayVars => [RoutesHold]_routingVars
  BY <1>2
<1>5. CodexInv /\ [GatewayNext]_gatewayVars => [CodexHold]_codexVars
  BY <1>3
<1>6. [][RoutesHold]_routingVars => ClaudeRequestsSuitTheirUpstream
  BY PTL DEF RoutesHold, ClaudeRequestsSuitTheirUpstream
<1>7. [][CodexHold]_codexVars => CodexRequestsSuitTheirUpstream
  BY PTL DEF CodexHold, CodexRequestsSuitTheirUpstream
<1> QED BY <1>1, <1>2, <1>3, <1>4, <1>5, <1>6, <1>7, PTL DEF GatewaySpec, RequestsSuitTheirUpstream

-----------------------------------------------------------------------------
(* CompactionBridge *)

\* The order of a map's entries: no two were written at once, and of two
\* entries the younger one expires no earlier.
IsWritten(map) ==
  /\ IsFiniteSet(DOMAIN map)
  /\ \A k \in DOMAIN map : /\ {"age", "expiresAt"} \subseteq DOMAIN map[k]
                           /\ map[k].age \in Nat /\ map[k].expiresAt \in Nat
  /\ \A k, l \in DOMAIN map : map[k].age = map[l].age => k = l
  /\ \A k, l \in DOMAIN map : map[k].age < map[l].age => map[k].expiresAt >= map[l].expiresAt

LEMMA OldestEntry ==
  ASSUME NEW map, IsWritten(map), DOMAIN map # {}
  PROVE  \E d \in DOMAIN map : Younger(map, d) = DOMAIN map \ {d}
<1> DEFINE keys == DOMAIN map
           Older(k) == {l \in keys : map[l].age > map[k].age}
           olders == {Older(k) : k \in keys}
<1>1. /\ IsFiniteSet(keys) /\ keys # {}
      /\ \A k \in keys : map[k].age \in Nat
      /\ \A k, l \in keys : map[k].age = map[l].age => k = l
  BY DEF IsWritten
<1> HIDE DEF keys
<1>2. \A k \in keys : Older(k) \in SUBSET keys
  OBVIOUS
<1>3. olders \subseteq FiniteSubsetsOf(keys)
  BY <1>1, <1>2, FS_FiniteSubsetsOfFinite
<1>4. olders # {}
  <2>1. PICK k \in keys : TRUE
    BY <1>1
  <2>2. Older(k) \in olders
    OBVIOUS
  <2> QED BY <2>2
<1>5. IsWellFoundedOn(StrictSubsetOrdering(keys), FiniteSubsetsOf(keys))
  BY FS_StrictSubsetOrderingWellFounded
<1>6. \E x \in olders : \A y \in olders : << y, x >> \notin StrictSubsetOrdering(keys)
  <2> HIDE DEF olders
  <2> QED BY <1>3, <1>4, <1>5, WFMin
<1>7. PICK d \in keys : \A y \in olders : << y, Older(d) >> \notin StrictSubsetOrdering(keys)
  BY <1>6
<1>8. ASSUME NEW l \in keys, map[l].age > map[d].age PROVE FALSE
  <2>1. /\ Older(l) \in olders /\ Older(l) \subseteq Older(d)
        /\ l \in Older(d) /\ l \notin Older(l)
    BY <1>1, <1>8
  <2>2. Older(l) \in SUBSET keys /\ Older(d) \in SUBSET keys /\ Older(l) # Older(d)
    BY <1>2, <2>1
  <2> HIDE DEF Older, olders
  <2>3. << Older(l), Older(d) >> \in StrictSubsetOrdering(keys)
    BY <2>1, <2>2 DEF StrictSubsetOrdering
  <2> QED BY <1>7, <2>1, <2>3
<1>9. \A l \in keys : l # d => map[l].age < map[d].age
  BY <1>1, <1>8
<1>10. Younger(map, d) = keys \ {d}
  BY <1>1, <1>9 DEF Younger, keys
<1> QED BY <1>10 DEF keys

\* A map that was full before it was written loses its oldest entry.
IsCapped(capped, map, n) ==
  /\ \A k \in DOMAIN capped : k \in DOMAIN map /\ capped[k] = map[k]
  /\ \/ DOMAIN capped = DOMAIN map /\ Cardinality(DOMAIN map) <= n
     \/ /\ Cardinality(DOMAIN capped) = n
        /\ \E d \in DOMAIN map : /\ DOMAIN capped = DOMAIN map \ {d}
                                 /\ Younger(map, d) = DOMAIN map \ {d}

LEMMA BoundedMap ==
  ASSUME NEW map, IsWritten(map), NEW n \in Nat, Cardinality(DOMAIN map) <= n + 1
  PROVE  IsCapped(AtMost(map, n), map, n)
<1> DEFINE keys == DOMAIN map
<1>1. /\ IsFiniteSet(keys) /\ Cardinality(keys) \in Nat /\ Cardinality(keys) <= n + 1
      /\ \A k \in keys : map[k].age \in Nat
  BY FS_CardinalityType DEF IsWritten
<1>2. /\ DOMAIN AtMost(map, n) = {k \in keys : Cardinality(Younger(map, k)) < n}
      /\ \A k \in DOMAIN AtMost(map, n) : k \in keys /\ AtMost(map, n)[k] = map[k]
  BY DEF AtMost, Restrict
<1>3. ASSUME NEW k \in keys, NEW d \in keys
      PROVE  /\ Younger(map, k) \subseteq keys \ {k}
             /\ map[k].age < map[d].age => Younger(map, k) \subseteq (keys \ {d}) \ {k}
  BY <1>1 DEF Younger
<1>4. \A k \in keys : /\ IsFiniteSet(keys \ {k})
                      /\ Cardinality(keys \ {k}) = Cardinality(keys) - 1
  BY <1>1, FS_RemoveElement
<1>5. CASE Cardinality(keys) <= n
  <2>1. ASSUME NEW k \in keys PROVE Cardinality(Younger(map, k)) < n
    <3>1. Cardinality(Younger(map, k)) <= Cardinality(keys \ {k})
      BY <1>3, <1>4, FS_Subset
    <3>2. IsFiniteSet(Younger(map, k))
      BY <1>3, <1>4, FS_Subset
    <3>3. Cardinality(Younger(map, k)) \in Nat
      BY <3>2, FS_CardinalityType
    <3> HIDE DEF keys
    <3> QED BY <1>1, <1>4, <1>5, <3>1, <3>3
  <2> QED BY <1>2, <1>5, <2>1 DEF IsCapped
<1>6. CASE Cardinality(keys) = n + 1
  <2>1. keys # {}
    BY <1>1, <1>6, FS_EmptySet
  <2>2. PICK d \in keys : Younger(map, d) = keys \ {d}
    BY <2>1, OldestEntry
  <2>3. Cardinality(keys \ {d}) = n
    <3> HIDE DEF keys
    <3> QED BY <1>1, <1>4, <1>6, <2>2
  <2>4. d \notin DOMAIN AtMost(map, n)
    BY <1>2, <2>2, <2>3
  <2>5. ASSUME NEW k \in keys \ {d} PROVE Cardinality(Younger(map, k)) < n
    <3>1. map[k].age < map[d].age
      BY <2>2 DEF Younger
    <3>2. Younger(map, k) \subseteq (keys \ {d}) \ {k}
      BY <1>3, <3>1
    <3>3. /\ IsFiniteSet((keys \ {d}) \ {k})
          /\ Cardinality((keys \ {d}) \ {k}) = n - 1
      BY <1>4, <2>3, FS_RemoveElement
    <3>4. /\ IsFiniteSet(Younger(map, k))
          /\ Cardinality(Younger(map, k)) <= Cardinality((keys \ {d}) \ {k})
      BY <3>2, <3>3, FS_Subset
    <3>5. Cardinality(Younger(map, k)) \in Nat
      BY <3>4, FS_CardinalityType
    <3> HIDE DEF keys
    <3> QED BY <3>3, <3>4, <3>5
  <2>6. DOMAIN AtMost(map, n) = keys \ {d}
    BY <1>2, <2>4, <2>5
  <2> QED BY <1>2, <2>2, <2>3, <2>6 DEF IsCapped
<1> QED BY <1>1, <1>2, <1>5, <1>6

LEMMA LiveMap ==
  ASSUME NEW map, IsWritten(map)
  PROVE  /\ IsWritten(Live(map))
         /\ DOMAIN Live(map) = {k \in DOMAIN map : map[k].expiresAt > bridgeClock}
         /\ \A k \in DOMAIN Live(map) : Live(map)[k] = map[k]
         /\ Cardinality(DOMAIN Live(map)) <= Cardinality(DOMAIN map)
<1>1. /\ DOMAIN Live(map) = {k \in DOMAIN map : map[k].expiresAt > bridgeClock}
      /\ \A k \in DOMAIN Live(map) : Live(map)[k] = map[k]
  BY DEF Live, Restrict
<1>2. /\ IsFiniteSet(DOMAIN Live(map))
      /\ Cardinality(DOMAIN Live(map)) <= Cardinality(DOMAIN map)
  BY <1>1, FS_Subset DEF IsWritten
<1> QED BY <1>1, <1>2 DEF IsWritten

\* A write of an entry that expires no earlier than any other.
IsWrite(new, map, key, entry) ==
  /\ IsWritten(new)
  /\ DOMAIN new = DOMAIN map \cup {key} /\ new[key] = entry
  /\ Cardinality(DOMAIN new) <= Cardinality(DOMAIN map) + 1
  /\ key \in DOMAIN map => Cardinality(DOMAIN new) = Cardinality(DOMAIN map)
  /\ \A k \in DOMAIN map \ {key} : new[k] = [map[k] EXCEPT !.age = @ + 1]

LEMMA WrittenMap ==
  ASSUME NEW map, IsWritten(map), NEW key, NEW entry,
         entry.age = 0, entry.expiresAt \in Nat,
         {"age", "expiresAt"} \subseteq DOMAIN entry,
         \A k \in DOMAIN map : map[k].expiresAt <= entry.expiresAt
  PROVE  IsWrite(Remember(map, key, entry), map, key, entry)
<1> DEFINE new == Remember(map, key, entry)
<1>1. /\ DOMAIN new = DOMAIN map \cup {key} /\ new[key] = entry
      /\ \A k \in DOMAIN map \ {key} : new[k] = [map[k] EXCEPT !.age = @ + 1]
  BY DEF Remember
<1>2. /\ IsFiniteSet(DOMAIN new) /\ Cardinality(DOMAIN map) \in Nat
      /\ Cardinality(DOMAIN new) <= Cardinality(DOMAIN map) + 1
      /\ key \in DOMAIN map => Cardinality(DOMAIN new) = Cardinality(DOMAIN map)
  <2>1. IsFiniteSet(DOMAIN map) /\ Cardinality(DOMAIN map) \in Nat
    BY FS_CardinalityType DEF IsWritten
  <2>2. /\ IsFiniteSet(DOMAIN map \cup {key})
        /\ Cardinality(DOMAIN map \cup {key}) =
              IF key \in DOMAIN map THEN Cardinality(DOMAIN map) ELSE Cardinality(DOMAIN map) + 1
    BY <2>1, FS_AddElement
  <2> HIDE DEF new
  <2> QED BY <1>1, <2>1, <2>2
<1> HIDE DEF new
<1>3. \A k \in DOMAIN map \ {key} : /\ {"age", "expiresAt"} \subseteq DOMAIN new[k]
                                      /\ new[k].age = map[k].age + 1
                                      /\ new[k].expiresAt = map[k].expiresAt
  BY <1>1 DEF IsWritten
<1>4. IsWritten(new)
  BY <1>1, <1>2, <1>3 DEF IsWritten
<1> QED BY <1>1, <1>2, <1>4 DEF new, IsWrite

LEMMA CappedMap ==
  ASSUME NEW map, IsWritten(map), NEW n \in Nat, Cardinality(DOMAIN map) <= n + 1
  PROVE  IsWritten(AtMost(map, n)) /\ Cardinality(DOMAIN AtMost(map, n)) <= n
<1>1. /\ DOMAIN AtMost(map, n) \subseteq DOMAIN map
      /\ \A k \in DOMAIN AtMost(map, n) : AtMost(map, n)[k] = map[k]
      /\ Cardinality(DOMAIN AtMost(map, n)) <= n
  BY BoundedMap DEF IsCapped
<1>2. IsFiniteSet(DOMAIN AtMost(map, n))
  BY <1>1, FS_Subset DEF IsWritten
<1> QED BY <1>1, <1>2 DEF IsWritten

\* What the bridge owes whoever holds the item w: while its time to live runs, a
\* ciphertext is known, and text that came with it is stored or was evicted by
\* entries that are all younger.
IsKept(w, stored, known, clock) ==
  w.state # NoState =>
    /\ w.since \in Nat /\ w.since <= clock
    /\ clock < w.since + BridgeTTL =>
         /\ w.state \in Cipher =>
              /\ w.state \in DOMAIN known
              /\ known[w.state] \in Nat /\ known[w.state] >= w.since + BridgeTTL
         /\ w.text =>
              /\ \A k \in DOMAIN stored :
                   k = << w.scope, w.state >> \/ << w.scope, w.state >> \notin DOMAIN stored =>
                       stored[k].expiresAt >= w.since + BridgeTTL
              /\ << w.scope, w.state >> \notin DOMAIN stored =>
                     Cardinality(DOMAIN stored) = MaxBridged

BridgeInv ==
  /\ bridgeClock \in Nat
  /\ IsWritten(fallbacks) /\ Cardinality(DOMAIN fallbacks) <= MaxBridged
  /\ \A k \in DOMAIN fallbacks : fallbacks[k].expiresAt <= bridgeClock + BridgeTTL
  /\ DOMAIN held = Codex
  /\ \A c \in Codex : IsKept(held[c], fallbacks, knownStates, bridgeClock)
  /\ \A k \in DOMAIN replays :
        /\ "held" \in DOMAIN replays[k]
        /\ IsKept(replays[k].held, fallbacks, knownStates, bridgeClock)

LEMMA BridgeStarts == BridgeInit => BridgeInv
<1> SUFFICES ASSUME BridgeInit PROVE BridgeInv
  OBVIOUS
<1>1. DOMAIN fallbacks = {} /\ DOMAIN replays = {}
  BY DEF BridgeInit
<1>2. IsWritten(fallbacks) /\ Cardinality(DOMAIN fallbacks) = 0
  BY <1>1, FS_EmptySet DEF IsWritten
<1>3. DOMAIN held = Codex /\ \A c \in Codex : held[c].state = NoState
  BY DEF BridgeInit, NoHold
<1>4. bridgeClock = 0
  BY DEF BridgeInit
<1> QED BY <1>1, <1>2, <1>3, <1>4, BridgeAssumption DEF BridgeInv, IsKept

\* Pruning takes nothing that is still owed.
LEMMA PrunedKeeps ==
  ASSUME BridgeInv, NEW w, IsKept(w, fallbacks, knownStates, bridgeClock)
  PROVE  IsKept(w, Live(fallbacks), LiveStates, bridgeClock)
<1> SUFFICES ASSUME w.state # NoState, bridgeClock < w.since + BridgeTTL
             PROVE  IsKept(w, Live(fallbacks), LiveStates, bridgeClock)
  BY DEF IsKept
<1> DEFINE key == << w.scope, w.state >>
           until == w.since + BridgeTTL
<1>1. /\ w.since \in Nat /\ w.since <= bridgeClock /\ bridgeClock \in Nat /\ until \in Nat
      /\ bridgeClock < until
  BY BridgeAssumption DEF IsKept, BridgeInv
<1>2. /\ DOMAIN Live(fallbacks) = {k \in DOMAIN fallbacks : fallbacks[k].expiresAt > bridgeClock}
      /\ \A k \in DOMAIN Live(fallbacks) : Live(fallbacks)[k] = fallbacks[k]
  BY LiveMap DEF BridgeInv
<1>3. \A k \in DOMAIN fallbacks : fallbacks[k].expiresAt \in Nat
  BY DEF BridgeInv, IsWritten
<1>4. /\ DOMAIN LiveStates = {x \in DOMAIN knownStates : knownStates[x] > bridgeClock}
      /\ \A x \in DOMAIN LiveStates : LiveStates[x] = knownStates[x]
  BY DEF LiveStates
<1>5. w.state \in Cipher =>
        /\ w.state \in DOMAIN knownStates
        /\ knownStates[w.state] \in Nat /\ knownStates[w.state] >= until
  BY DEF IsKept
<1>6. w.text =>
        /\ \A k \in DOMAIN fallbacks :
             k = key \/ key \notin DOMAIN fallbacks => fallbacks[k].expiresAt >= until
        /\ key \notin DOMAIN fallbacks => Cardinality(DOMAIN fallbacks) = MaxBridged
  BY DEF IsKept
<1> HIDE DEF key, until
<1>7. w.state \in Cipher =>
        /\ w.state \in DOMAIN LiveStates
        /\ LiveStates[w.state] \in Nat /\ LiveStates[w.state] >= until
  BY <1>1, <1>4, <1>5
<1>8. w.text /\ key \in DOMAIN fallbacks => key \in DOMAIN Live(fallbacks)
  BY <1>1, <1>2, <1>3, <1>6
<1>9. w.text /\ key \notin DOMAIN fallbacks => DOMAIN Live(fallbacks) = DOMAIN fallbacks
  <2> SUFFICES ASSUME w.text, key \notin DOMAIN fallbacks
               PROVE  DOMAIN Live(fallbacks) = DOMAIN fallbacks
    OBVIOUS
  <2>1. ASSUME NEW k \in DOMAIN fallbacks PROVE fallbacks[k].expiresAt > bridgeClock
    BY <1>1, <1>3, <1>6
  <2> QED BY <1>2, <2>1
<1>10. w.text =>
        /\ \A k \in DOMAIN Live(fallbacks) :
             k = key \/ key \notin DOMAIN Live(fallbacks) => Live(fallbacks)[k].expiresAt >= until
        /\ key \notin DOMAIN Live(fallbacks) => Cardinality(DOMAIN Live(fallbacks)) = MaxBridged
  BY <1>2, <1>6, <1>8, <1>9
<1> QED BY <1>1, <1>7, <1>10 DEF IsKept, key, until

\* Storing an entry of the present hands nobody's text to an older entry: what is
\* evicted is evicted by younger entries.
LEMMA StoredKeeps ==
  ASSUME BridgeInv, NEW key, NEW entry,
         entry.age = 0, entry.expiresAt = bridgeClock + BridgeTTL,
         {"age", "expiresAt"} \subseteq DOMAIN entry,
         NEW stored, stored = AtMost(Remember(Live(fallbacks), key, entry), MaxBridged),
         NEW known, \A x \in DOMAIN LiveStates :
                       /\ x \in DOMAIN known
                       /\ \/ known[x] = LiveStates[x]
                          \/ known[x] = bridgeClock + BridgeTTL
  PROVE  /\ IsWritten(stored) /\ Cardinality(DOMAIN stored) <= MaxBridged
         /\ \A k \in DOMAIN stored : stored[k].expiresAt <= bridgeClock + BridgeTTL
         /\ \A w : IsKept(w, fallbacks, knownStates, bridgeClock) =>
                      IsKept(w, stored, known, bridgeClock)
         /\ \/ key \in DOMAIN stored /\ stored[key] = entry
            \/ DOMAIN stored = {} /\ MaxBridged = 0
<1> DEFINE live == Live(fallbacks)
           new == Remember(live, key, entry)
           now == bridgeClock + BridgeTTL
<1>0. bridgeClock \in Nat /\ MaxBridged \in Nat /\ BridgeTTL \in Nat /\ now \in Nat
  BY BridgeAssumption DEF BridgeInv
<1>1. /\ IsWritten(live) /\ IsFiniteSet(DOMAIN live)
      /\ Cardinality(DOMAIN live) <= Cardinality(DOMAIN fallbacks)
      /\ \A k \in DOMAIN live : live[k].expiresAt <= now
  <2>1. IsWritten(fallbacks) /\ \A k \in DOMAIN fallbacks : fallbacks[k].expiresAt <= now
    BY DEF BridgeInv
  <2>2. /\ IsWritten(live)
        /\ \A k \in DOMAIN live : k \in DOMAIN fallbacks /\ live[k] = fallbacks[k]
        /\ Cardinality(DOMAIN live) <= Cardinality(DOMAIN fallbacks)
    BY <2>1, LiveMap
  <2> HIDE DEF live, now
  <2>3. IsFiniteSet(DOMAIN live)
    BY <2>2 DEF IsWritten
  <2> QED BY <2>1, <2>2, <2>3
<1>2. /\ Cardinality(DOMAIN live) \in Nat /\ Cardinality(DOMAIN live) <= MaxBridged
      /\ Cardinality(DOMAIN fallbacks) \in Nat
  <2>1. Cardinality(DOMAIN live) \in Nat /\ Cardinality(DOMAIN fallbacks) \in Nat
    BY <1>1, FS_CardinalityType DEF BridgeInv, IsWritten
  <2>2. Cardinality(DOMAIN fallbacks) <= MaxBridged
    BY DEF BridgeInv
  <2> HIDE DEF live
  <2> QED BY <1>0, <1>1, <2>1, <2>2
<1> HIDE DEF live, now
<1>3. /\ IsWritten(new)
      /\ DOMAIN new = DOMAIN live \cup {key} /\ new[key] = entry
      /\ Cardinality(DOMAIN new) <= Cardinality(DOMAIN live) + 1
      /\ key \in DOMAIN live => Cardinality(DOMAIN new) = Cardinality(DOMAIN live)
      /\ \A k \in DOMAIN live \ {key} : new[k] = [live[k] EXCEPT !.age = @ + 1]
  <2>1. /\ entry.expiresAt \in Nat
        /\ \A k \in DOMAIN live : live[k].expiresAt <= entry.expiresAt
    BY <1>0, <1>1 DEF now
  <2>2. IsWrite(Remember(live, key, entry), live, key, entry)
    BY <1>1, <2>1, WrittenMap
  <2> QED BY <2>2 DEF IsWrite
<1> HIDE DEF new
<1>4. \A k \in DOMAIN live \ {key} : new[k].expiresAt = live[k].expiresAt
  BY <1>1, <1>3 DEF IsWritten
<1>5. IsFiniteSet(DOMAIN new) /\ Cardinality(DOMAIN new) \in Nat /\ Cardinality(DOMAIN new) <= MaxBridged + 1
  <2>1. IsFiniteSet(DOMAIN new) /\ Cardinality(DOMAIN new) \in Nat
    BY <1>3, FS_CardinalityType DEF IsWritten
  <2> QED BY <1>0, <1>2, <1>3, <2>1
<1>6. IsWritten(stored) /\ Cardinality(DOMAIN stored) <= MaxBridged
  BY <1>0, <1>3, <1>5, CappedMap DEF new, live
<1>7. /\ \A k \in DOMAIN stored : k \in DOMAIN new /\ stored[k] = new[k]
      /\ \/ DOMAIN stored = DOMAIN new
         \/ /\ Cardinality(DOMAIN stored) = MaxBridged
            /\ \E d \in DOMAIN new : /\ DOMAIN stored = DOMAIN new \ {d}
                                     /\ Younger(new, d) = DOMAIN new \ {d}
  <2>1. stored = AtMost(new, MaxBridged)
    BY DEF new, live
  <2>2. IsCapped(AtMost(new, MaxBridged), new, MaxBridged)
    BY <1>0, <1>3, <1>5, BoundedMap
  <2> QED BY <2>1, <2>2 DEF IsCapped
<1>8. \A k \in DOMAIN new : /\ k = key \/ k \in DOMAIN live
                            /\ new[k].expiresAt = IF k = key THEN now ELSE live[k].expiresAt
  BY <1>3, <1>4 DEF now
<1>9. \A k \in DOMAIN stored : stored[k].expiresAt <= now
  BY <1>0, <1>1, <1>7, <1>8
<1>10. \/ key \in DOMAIN stored /\ stored[key] = entry
       \/ DOMAIN stored = {} /\ MaxBridged = 0
  <2>1. CASE DOMAIN stored = DOMAIN new
    BY <1>3, <1>7, <2>1
  <2>2. CASE /\ Cardinality(DOMAIN stored) = MaxBridged
             /\ DOMAIN stored = DOMAIN new \ {key} /\ Younger(new, key) = DOMAIN new \ {key}
    <3>1. Younger(new, key) = {}
      BY <1>3 DEF Younger, IsWritten
    <3> QED BY <2>2, <3>1, FS_EmptySet
  <2>3. ASSUME NEW d \in DOMAIN new, DOMAIN stored = DOMAIN new \ {d}, d # key
        PROVE  key \in DOMAIN stored /\ stored[key] = entry
    BY <1>3, <1>7, <2>3
  <2> QED BY <1>7, <2>1, <2>2, <2>3
<1>11. ASSUME NEW w, IsKept(w, fallbacks, knownStates, bridgeClock)
       PROVE  IsKept(w, stored, known, bridgeClock)
  <2> SUFFICES ASSUME w.state # NoState, bridgeClock < w.since + BridgeTTL
               PROVE  IsKept(w, stored, known, bridgeClock)
    BY <1>11 DEF IsKept
  <2> DEFINE own == << w.scope, w.state >>
             until == w.since + BridgeTTL
  <2>1. IsKept(w, live, LiveStates, bridgeClock)
    BY <1>11, PrunedKeeps DEF live
  <2>2. w.since \in Nat /\ w.since <= bridgeClock /\ until \in Nat /\ until <= now
    BY <1>0, <2>1 DEF IsKept, now
  <2>3. w.state \in Cipher =>
          /\ w.state \in DOMAIN LiveStates
          /\ LiveStates[w.state] \in Nat /\ LiveStates[w.state] >= until
    BY <2>1 DEF IsKept
  <2>4. w.text =>
          /\ \A k \in DOMAIN live :
               k = own \/ own \notin DOMAIN live => live[k].expiresAt >= until
          /\ own \notin DOMAIN live => Cardinality(DOMAIN live) = MaxBridged
    BY <2>1 DEF IsKept
  <2> HIDE DEF own, until
  <2>5. w.state \in Cipher =>
          /\ w.state \in DOMAIN known
          /\ known[w.state] \in Nat /\ known[w.state] >= until
    BY <1>0, <2>2, <2>3 DEF now
  <2>6. ASSUME w.text
        PROVE  /\ \A k \in DOMAIN stored :
                    k = own \/ own \notin DOMAIN stored => stored[k].expiresAt >= until
               /\ own \notin DOMAIN stored => Cardinality(DOMAIN stored) = MaxBridged
    <3>1. CASE own \in DOMAIN stored
      BY <1>0, <1>7, <1>8, <2>2, <2>4, <2>6, <3>1
    <3>2. CASE own \notin DOMAIN stored /\ own \in DOMAIN new
      <4>1. /\ Cardinality(DOMAIN stored) = MaxBridged
            /\ DOMAIN stored = DOMAIN new \ {own} /\ Younger(new, own) = DOMAIN new \ {own}
        BY <1>7, <3>2
      <4>2. new[own].expiresAt >= until
        BY <1>0, <1>8, <2>2, <2>4, <2>6, <3>2
      <4>3. ASSUME NEW k \in DOMAIN stored PROVE stored[k].expiresAt >= until
        <5>1. k \in DOMAIN new /\ stored[k] = new[k] /\ new[k].age < new[own].age
          BY <1>7, <4>1 DEF Younger
        <5>2. /\ new[k].expiresAt >= new[own].expiresAt
              /\ new[k].expiresAt \in Nat /\ new[own].expiresAt \in Nat
          BY <1>3, <3>2, <5>1 DEF IsWritten
        <5> QED BY <2>2, <4>2, <5>1, <5>2
      <4> QED BY <3>2, <4>1, <4>3
    <3>3. CASE own \notin DOMAIN new
      <4>1. own \notin DOMAIN live /\ own # key
        BY <1>3, <3>3
      <4>2. /\ Cardinality(DOMAIN live) = MaxBridged
            /\ \A k \in DOMAIN live : live[k].expiresAt >= until
        BY <2>4, <2>6, <4>1
      <4>3. \A k \in DOMAIN stored : stored[k].expiresAt >= until
        BY <1>0, <1>7, <1>8, <2>2, <4>2
      <4>4. Cardinality(DOMAIN stored) = MaxBridged
        <5>1. CASE key \in DOMAIN live
          <6>1. Cardinality(DOMAIN new) = MaxBridged
            BY <1>3, <4>2, <5>1
          <6> QED BY <1>7, <6>1
        <5>2. CASE key \notin DOMAIN live
          <6>1. Cardinality(DOMAIN new) = MaxBridged + 1
            BY <1>1, <1>3, <4>2, <5>2, FS_AddElement
          <6>2. DOMAIN stored # DOMAIN new
            BY <1>0, <1>6, <6>1
          <6> QED BY <1>7, <6>2
        <5> QED BY <5>1, <5>2
      <4> QED BY <4>3, <4>4
    <3>4. own \in DOMAIN stored => own \in DOMAIN new
      BY <1>7
    <3> QED BY <3>1, <3>2, <3>3, <3>4
  <2> QED BY <2>2, <2>5, <2>6 DEF IsKept, own, until
<1> QED BY <1>6, <1>9, <1>10, <1>11 DEF now

LEMMA HeldAsReceived ==
  ASSUME NEW w, NEW scope, NEW stored, NEW known, NEW clock, IsKept(w, stored, known, clock)
  PROVE  IsKept(Holding(w, scope), stored, known, clock)
BY DEF IsKept, Holding

\* What the store owes after pruning, and after it stored an answer.
Stands(stored, known) ==
  /\ IsWritten(stored) /\ Cardinality(DOMAIN stored) <= MaxBridged
  /\ \A k \in DOMAIN stored : stored[k].expiresAt <= bridgeClock + BridgeTTL
  /\ \A w : IsKept(w, fallbacks, knownStates, bridgeClock) => IsKept(w, stored, known, bridgeClock)

LEMMA PrunedStands == BridgeInv => Stands(Live(fallbacks), LiveStates)
<1> SUFFICES ASSUME BridgeInv PROVE Stands(Live(fallbacks), LiveStates)
  OBVIOUS
<1> DEFINE live == Live(fallbacks)
<1>1. /\ IsWritten(fallbacks) /\ Cardinality(DOMAIN fallbacks) <= MaxBridged
      /\ \A k \in DOMAIN fallbacks : fallbacks[k].expiresAt <= bridgeClock + BridgeTTL
  BY DEF BridgeInv
<1>2. /\ IsWritten(live) /\ Cardinality(DOMAIN live) <= Cardinality(DOMAIN fallbacks)
      /\ \A k \in DOMAIN live : k \in DOMAIN fallbacks /\ live[k] = fallbacks[k]
  BY <1>1, LiveMap
<1>3. \A w : IsKept(w, fallbacks, knownStates, bridgeClock) =>
                IsKept(w, live, LiveStates, bridgeClock)
  BY PrunedKeeps
<1> HIDE DEF live
<1>4. Cardinality(DOMAIN live) <= MaxBridged
  <2>1. /\ Cardinality(DOMAIN live) \in Nat /\ Cardinality(DOMAIN fallbacks) \in Nat
        /\ MaxBridged \in Nat
    BY <1>1, <1>2, FS_CardinalityType, BridgeAssumption DEF IsWritten
  <2> QED BY <1>1, <1>2, <2>1
<1> QED BY <1>1, <1>2, <1>3, <1>4 DEF Stands, live

\* The item an answer brought, as its client will hold it.
Brought(answer, q) ==
  [state |-> answer.state, scope |-> q.scope, text |-> answer.text, since |-> bridgeClock]

LEMMA AnswerStored ==
  ASSUME BridgeInv, NEW q, NEW answer \in CompactAnswers(q.protocol),
         StoreCompactResponse(answer, q)
  PROVE  /\ Stands(fallbacks', knownStates')
         /\ IsKept(Brought(answer, q), fallbacks', knownStates', bridgeClock)
<1> DEFINE state == StoredState(answer, q.protocol)
           until == bridgeClock + BridgeTTL
           key == << q.scope, state >>
           entry == [expiresAt |-> until, age |-> 0,
                     synthetic |-> isNormalized(answer, q.protocol)]
           w == Brought(answer, q)
<1>0. bridgeClock \in Nat /\ BridgeTTL \in Nat /\ MaxBridged \in Nat /\ until \in Nat
  BY BridgeAssumption DEF BridgeInv
<1>1. /\ w.state = answer.state /\ w.scope = q.scope /\ w.text = answer.text
      /\ w.since = bridgeClock
  BY DEF Brought
\* Where the client gets an item that is not signed, the store keeps the same.
<1>2. \/ answer.state = NoState
      \/ answer.state = state /\ q.protocol = "responses"
      \/ answer.state = Signed /\ answer.text = FALSE
  BY DEF CompactAnswers, StoredState
<1>3. /\ entry.age = 0 /\ entry.expiresAt = until /\ {"age", "expiresAt"} \subseteq DOMAIN entry
  OBVIOUS
<1>4. CASE state = NoState
  <2>1. fallbacks' = Live(fallbacks) /\ knownStates' = LiveStates
    BY <1>4 DEF StoreCompactResponse
  <2>2. Stands(fallbacks', knownStates')
    BY <2>1, PrunedStands
  <2>3. answer.state = NoState \/ (answer.state \notin Cipher /\ ~answer.text)
    BY <1>2, <1>4, BridgeAssumption
  <2> QED BY <1>0, <1>1, <2>2, <2>3 DEF IsKept
<1>5. CASE state # NoState
  <2>1. /\ knownStates' = KnownStates(answer, state, until)
        /\ fallbacks' = AtMost(IF hasFallback(answer, state)
                               THEN Remember(Live(fallbacks), key, entry)
                               ELSE Live(fallbacks), MaxBridged)
    BY <1>5 DEF StoreCompactResponse
  <2>2. /\ \A x \in DOMAIN LiveStates : /\ x \in DOMAIN knownStates'
                                        /\ \/ knownStates'[x] = LiveStates[x]
                                           \/ knownStates'[x] = until
        /\ state \in DOMAIN knownStates' /\ knownStates'[state] = until
    BY <2>1 DEF KnownStates
  <2>3. CASE hasFallback(answer, state)
    <3>1. fallbacks' = AtMost(Remember(Live(fallbacks), key, entry), MaxBridged)
      BY <2>1, <2>3
    <3> HIDE DEF entry
    <3>2. /\ IsWritten(fallbacks') /\ Cardinality(DOMAIN fallbacks') <= MaxBridged
          /\ \A k \in DOMAIN fallbacks' : fallbacks'[k].expiresAt <= bridgeClock + BridgeTTL
          /\ \A v : IsKept(v, fallbacks, knownStates, bridgeClock) =>
                       IsKept(v, fallbacks', knownStates', bridgeClock)
          /\ \/ key \in DOMAIN fallbacks' /\ fallbacks'[key] = entry
             \/ DOMAIN fallbacks' = {} /\ MaxBridged = 0
      BY <1>3, <2>2, <3>1, StoredKeeps
    <3>3. Stands(fallbacks', knownStates')
      BY <3>2 DEF Stands
    <3>4. CASE answer.state = state
      <4>1. Cardinality({}) = 0
        BY FS_EmptySet
      <4> HIDE DEF w
      <4>2. << w.scope, w.state >> = key
        BY <1>1, <3>4
      <4> HIDE DEF key, until, state
      <4>3. \A k \in DOMAIN fallbacks' : k = key \/ key \notin DOMAIN fallbacks' =>
                                            fallbacks'[k].expiresAt >= until
        BY <1>0, <1>3, <3>2
      <4>4. key \notin DOMAIN fallbacks' => Cardinality(DOMAIN fallbacks') = MaxBridged
        BY <3>2, <4>1
      <4>5. IsKept(w, fallbacks', knownStates', bridgeClock)
        BY <1>0, <1>1, <2>2, <3>4, <4>2, <4>3, <4>4 DEF IsKept, until
      <4> QED BY <3>3, <4>5 DEF w
    <3>5. CASE answer.state = NoState \/ (answer.state = Signed /\ answer.text = FALSE)
      BY <1>0, <1>1, <3>3, <3>5, BridgeAssumption DEF IsKept
    <3> QED BY <1>2, <3>4, <3>5
  <2>4. CASE ~hasFallback(answer, state)
    <3>1. fallbacks' = AtMost(Live(fallbacks), MaxBridged)
      BY <2>1, <2>4
    <3> DEFINE live == Live(fallbacks)
    <3>2. Stands(live, LiveStates)
      BY PrunedStands
    <3> HIDE DEF live
    <3>3. IsWritten(live) /\ Cardinality(DOMAIN live) <= MaxBridged
      BY <3>2 DEF Stands
    <3>4. Cardinality(DOMAIN live) \in Nat /\ IsFiniteSet(DOMAIN live)
      BY <3>3, FS_CardinalityType DEF IsWritten
    <3>5. IsCapped(fallbacks', live, MaxBridged)
      <4>1. IsCapped(AtMost(live, MaxBridged), live, MaxBridged)
        BY <1>0, <3>3, <3>4, BoundedMap
      <4> QED BY <3>1, <4>1 DEF live
    <3>6. DOMAIN fallbacks' = DOMAIN live /\ \A k \in DOMAIN live : fallbacks'[k] = live[k]
      <4>1. ASSUME NEW d \in DOMAIN live, Cardinality(DOMAIN live \ {d}) = MaxBridged
            PROVE  FALSE
        <5>1. Cardinality(DOMAIN live \ {d}) = Cardinality(DOMAIN live) - 1
          BY <3>4, FS_RemoveElement
        <5> QED BY <1>0, <3>3, <3>4, <4>1, <5>1
      <4> QED BY <3>5, <4>1 DEF IsCapped
    <3>7. \A v : IsKept(v, fallbacks, knownStates, bridgeClock) =>
                    IsKept(v, fallbacks', knownStates', bridgeClock)
      <4> SUFFICES ASSUME NEW v, IsKept(v, live, LiveStates, bridgeClock)
                   PROVE  IsKept(v, fallbacks', knownStates', bridgeClock)
        BY <3>2 DEF Stands
      <4> SUFFICES ASSUME v.state # NoState, bridgeClock < v.since + BridgeTTL
                   PROVE  IsKept(v, fallbacks', knownStates', bridgeClock)
        BY DEF IsKept
      <4>1. /\ v.since \in Nat /\ v.since <= bridgeClock
            /\ v.state \in Cipher =>
                 /\ v.state \in DOMAIN LiveStates
                 /\ LiveStates[v.state] \in Nat /\ LiveStates[v.state] >= v.since + BridgeTTL
        BY DEF IsKept
      <4>2. v.state \in Cipher =>
              /\ v.state \in DOMAIN knownStates'
              /\ knownStates'[v.state] \in Nat
              /\ knownStates'[v.state] >= v.since + BridgeTTL
        BY <1>0, <2>2, <4>1
      <4> QED BY <3>6, <4>1, <4>2 DEF IsKept
    <3>8. Stands(fallbacks', knownStates')
      <4>1. IsWritten(fallbacks')
        BY <3>3, <3>6 DEF IsWritten
      <4> QED BY <3>2, <3>6, <3>7, <4>1 DEF Stands
    <3>9. answer.text = FALSE \/ answer.state = NoState
      BY <1>2, <2>4 DEF hasFallback, CompactAnswers
    <3>10. answer.state = state \/ answer.state = NoState \/ answer.state \notin Cipher
      BY <1>2, BridgeAssumption
    <3> QED BY <1>0, <1>1, <2>2, <3>8, <3>9, <3>10 DEF IsKept
  <2> QED BY <2>3, <2>4
<1> QED BY <1>4, <1>5

\* A step that stores nothing but prunes, or leaves all three maps alone.
LEMMA OnlyPruned ==
  ASSUME BridgeInv, bridgeClock' = bridgeClock,
         \/ fallbacks' = Live(fallbacks) /\ knownStates' = LiveStates
         \/ fallbacks' = fallbacks /\ knownStates' = knownStates
  PROVE  Stands(fallbacks', knownStates')
<1>1. Stands(fallbacks, knownStates)
  BY DEF Stands, BridgeInv
<1> QED BY <1>1, PrunedStands

\* Who holds what is owed it, and so is whoever a replay is for.
LEMMA OwedStill ==
  ASSUME BridgeInv, bridgeClock' = bridgeClock, Stands(fallbacks', knownStates'),
         DOMAIN held' = Codex,
         \A c \in Codex : IsKept(held'[c], fallbacks', knownStates', bridgeClock),
         \A k \in DOMAIN replays' :
            /\ "held" \in DOMAIN replays'[k]
            /\ IsKept(replays'[k].held, fallbacks', knownStates', bridgeClock)
  PROVE  BridgeInv'
BY DEF BridgeInv, Stands

LEMMA LiveReplays ==
  ASSUME NEW k \in DOMAIN Live(replays)
  PROVE  k \in DOMAIN replays /\ Live(replays)[k] = replays[k]
BY DEF Live, Restrict

LEMMA BridgeSteps == BridgeInv /\ [BridgeNext]_bridgeVars => BridgeInv'
<1> SUFFICES ASSUME BridgeInv, [BridgeNext]_bridgeVars
             PROVE  BridgeInv'
  OBVIOUS
<1>0. /\ DOMAIN held = Codex
      /\ \A c \in Codex : IsKept(held[c], fallbacks, knownStates, bridgeClock)
      /\ \A k \in DOMAIN replays :
            "held" \in DOMAIN replays[k] /\ IsKept(replays[k].held, fallbacks, knownStates, bridgeClock)
  BY DEF BridgeInv
<1>1. ASSUME NEW c \in Codex, AskForCompaction(c) PROVE BridgeInv'
  <2>1. /\ bridgeClock' = bridgeClock
        /\ \/ fallbacks' = Live(fallbacks) /\ knownStates' = LiveStates
           \/ fallbacks' = fallbacks /\ knownStates' = knownStates
        /\ replays' = Live(replays) \/ replays' = replays
    BY <1>1 DEF AskForCompaction
  <2>2. Stands(fallbacks', knownStates')
    BY <2>1, OnlyPruned
  <2>3. /\ DOMAIN held' = Codex
        /\ \A d \in Codex :
              \/ held'[d] = held[d]
              \/ \E key \in DOMAIN Live(replays), scope \in {Scope(model, bridgeConfig) : model \in Model} :
                    held'[d] = Holding(replays[key].held, scope)
    <3>1. PICK model \in Model :
            LET scope == Scope(model, bridgeConfig)
                key == DedupeKey(c, model, bridgeConfig)
                replayed == compactProtocol(bridgeConfig) = "responses" /\ key \in DOMAIN Live(replays)
            IN  held' = [held EXCEPT ![c] = IF replayed THEN Holding(replays[key].held, scope) ELSE @]
      BY <1>1 DEF AskForCompaction
    <3> DEFINE scope == Scope(model, bridgeConfig)
               key == DedupeKey(c, model, bridgeConfig)
               replayed == compactProtocol(bridgeConfig) = "responses" /\ key \in DOMAIN Live(replays)
    <3>2. scope \in {Scope(m, bridgeConfig) : m \in Model} /\ (replayed => key \in DOMAIN Live(replays))
      OBVIOUS
    <3>3. held' = [held EXCEPT ![c] = IF replayed THEN Holding(replays[key].held, scope) ELSE @]
      BY <3>1
    <3> HIDE DEF scope, key, replayed
    <3> QED BY <1>0, <3>2, <3>3
  <2>4. \A k \in DOMAIN replays :
           IsKept(replays[k].held, fallbacks', knownStates', bridgeClock)
    BY <1>0, <2>2 DEF Stands
  <2>5. DOMAIN held' = Codex
        /\ \A d \in Codex : IsKept(held'[d], fallbacks', knownStates', bridgeClock)
    <3>1. ASSUME NEW key \in DOMAIN Live(replays), NEW scope
          PROVE  IsKept(Holding(replays[key].held, scope), fallbacks', knownStates', bridgeClock)
      BY <2>4, LiveReplays, HeldAsReceived
    <3>2. \A d \in Codex : IsKept(held[d], fallbacks', knownStates', bridgeClock)
      BY <1>0, <2>2 DEF Stands
    <3> QED BY <2>3, <3>1, <3>2
  <2>6. \A k \in DOMAIN replays' :
           /\ "held" \in DOMAIN replays'[k]
           /\ IsKept(replays'[k].held, fallbacks', knownStates', bridgeClock)
    BY <1>0, <2>1, <2>4, LiveReplays
  <2> QED BY <2>1, <2>2, <2>5, <2>6, OwedStill
<1>2. ASSUME NEW c \in Codex, ReceiveCompaction(c) PROVE BridgeInv'
  <2> DEFINE q == compacting[c]
  <2>1. /\ bridgeClock' = bridgeClock
        /\ \E answer \in CompactAnswers(q.protocol) :
             /\ StoreCompactResponse(answer, q)
             /\ StoreReplay(answer, q)
             /\ held' = [held EXCEPT ![c] = Holding(Brought(answer, q), q.scope)]
    BY <1>2 DEF ReceiveCompaction, Brought, Holding
  <2>2. PICK answer \in CompactAnswers(q.protocol) :
             /\ StoreCompactResponse(answer, q)
             /\ StoreReplay(answer, q)
             /\ held' = [held EXCEPT ![c] = Holding(Brought(answer, q), q.scope)]
    BY <2>1
  <2> HIDE DEF q
  <2>3. /\ Stands(fallbacks', knownStates')
        /\ IsKept(Brought(answer, q), fallbacks', knownStates', bridgeClock)
    BY <2>2, AnswerStored
  <2>4. IsKept(Holding(Brought(answer, q), q.scope), fallbacks', knownStates', bridgeClock)
    BY <2>3, HeldAsReceived
  <2>5. \A d \in Codex : IsKept(held[d], fallbacks', knownStates', bridgeClock)
    BY <1>0, <2>3 DEF Stands
  <2>6. DOMAIN held' = Codex
        /\ \A d \in Codex : IsKept(held'[d], fallbacks', knownStates', bridgeClock)
    <3> HIDE DEF Holding
    <3> QED BY <1>0, <2>2, <2>4, <2>5
  <2>7. \A k \in DOMAIN replays :
           /\ "held" \in DOMAIN replays[k]
           /\ IsKept(replays[k].held, fallbacks', knownStates', bridgeClock)
    BY <1>0, <2>3 DEF Stands
  <2> DEFINE entry == [expiresAt |-> bridgeClock + ReplayTTL, age |-> 0,
                       held |-> Brought(answer, q)]
             new == Remember(Live(replays), q.dedupe, entry)
  <2>8. replays' = Live(replays) \/ replays' = AtMost(new, MaxReplays)
    BY <2>2 DEF StoreReplay, Brought
  <2>9. \A k \in DOMAIN new :
           /\ "held" \in DOMAIN new[k]
           /\ \/ new[k].held = Brought(answer, q)
              \/ k \in DOMAIN replays /\ new[k].held = replays[k].held
    <3>1. entry.held = Brought(answer, q) /\ "held" \in DOMAIN entry
      OBVIOUS
    <3> HIDE DEF entry
    <3> QED BY <1>0, <3>1, LiveReplays DEF Remember
  <2>10. \A k \in DOMAIN replays' :
           /\ "held" \in DOMAIN replays'[k]
           /\ IsKept(replays'[k].held, fallbacks', knownStates', bridgeClock)
    <3> HIDE DEF new
    <3>1. \A k \in DOMAIN AtMost(new, MaxReplays) :
             k \in DOMAIN new /\ AtMost(new, MaxReplays)[k] = new[k]
      BY DEF AtMost, Restrict
    <3>2. CASE replays' = Live(replays)
      BY <2>7, <3>2, LiveReplays
    <3>3. CASE replays' = AtMost(new, MaxReplays)
      <4> SUFFICES ASSUME NEW k \in DOMAIN replays'
                   PROVE  /\ "held" \in DOMAIN replays'[k]
                          /\ IsKept(replays'[k].held, fallbacks', knownStates', bridgeClock)
        OBVIOUS
      <4>1. k \in DOMAIN new /\ replays'[k] = new[k]
        BY <3>1, <3>3
      <4>2. /\ "held" \in DOMAIN new[k]
            /\ \/ new[k].held = Brought(answer, q)
               \/ k \in DOMAIN replays /\ new[k].held = replays[k].held
        BY <2>9, <4>1
      <4>3. IsKept(new[k].held, fallbacks', knownStates', bridgeClock)
        BY <2>3, <2>7, <4>2
      <4> QED BY <4>1, <4>2, <4>3
    <3> QED BY <2>8, <3>2, <3>3
  <2> QED BY <2>1, <2>3, <2>6, <2>10, OwedStill
<1>3. ASSUME NEW c \in Codex, LoseCompaction(c) PROVE BridgeInv'
  BY <1>3 DEF LoseCompaction, BridgeInv
<1>4. ASSUME NEW c \in Codex, FollowUp(c) PROVE BridgeInv'
  <2>1. /\ bridgeClock' = bridgeClock /\ held' = held
        /\ fallbacks' = Live(fallbacks) /\ knownStates' = LiveStates
        /\ replays' = Live(replays)
    BY <1>4 DEF FollowUp
  <2>2. Stands(fallbacks', knownStates')
    BY <2>1, OnlyPruned
  <2>3. \A d \in Codex : IsKept(held'[d], fallbacks', knownStates', bridgeClock)
    BY <1>0, <2>1, <2>2 DEF Stands
  <2>4. \A k \in DOMAIN replays' :
           /\ "held" \in DOMAIN replays'[k]
           /\ IsKept(replays'[k].held, fallbacks', knownStates', bridgeClock)
    BY <1>0, <2>1, <2>2, LiveReplays DEF Stands
  <2> QED BY <1>0, <2>1, <2>2, <2>3, <2>4, OwedStill
<1>5. CASE EditBridgeConfig
  BY <1>5 DEF EditBridgeConfig, BridgeInv
<1>6. CASE PassBridgeTime
  <2>1. /\ bridgeClock \in Nat /\ bridgeClock' = bridgeClock + 1
        /\ held' = held /\ fallbacks' = fallbacks /\ knownStates' = knownStates
        /\ replays' = replays
    BY <1>6 DEF PassBridgeTime, BridgeInv
  <2>2. \A w : IsKept(w, fallbacks, knownStates, bridgeClock) =>
                  IsKept(w, fallbacks', knownStates', bridgeClock')
    <3> SUFFICES ASSUME NEW w, IsKept(w, fallbacks, knownStates, bridgeClock),
                        w.state # NoState, bridgeClock + 1 < w.since + BridgeTTL
                 PROVE  IsKept(w, fallbacks, knownStates, bridgeClock + 1)
      BY <2>1 DEF IsKept
    <3>1. \/ bridgeClock < w.since + BridgeTTL
          \/ w.since \notin Nat
      BY <2>1, BridgeAssumption
    <3> QED BY <2>1, <3>1 DEF IsKept
  <2>3. \A k \in DOMAIN fallbacks : fallbacks[k].expiresAt <= bridgeClock' + BridgeTTL
    BY <2>1, BridgeAssumption DEF BridgeInv, IsWritten
  <2> QED BY <1>0, <2>1, <2>2, <2>3 DEF BridgeInv
<1>7. CASE UNCHANGED bridgeVars
  BY <1>7 DEF bridgeVars, BridgeInv
<1> QED BY <1>1, <1>2, <1>3, <1>4, <1>5, <1>6, <1>7 DEF BridgeNext

\* A turn that carries the item of a compaction, as the bridge then is.
LEMMA OwedComesBack == BridgeInv => CompactionsComeBack
<1> SUFFICES ASSUME BridgeInv, NEW c \in Codex,
                    held[c].state # NoState, bridgeConfig.split,
                    bridgeClock < held[c].since + BridgeTTL
             PROVE  LET h == held[c]
                        outcome == HandOver(FollowUpOf(h.state), h.asked[2])
                    IN  /\ h.state \in Cipher => outcome # "intact"
                        /\ \/ ~h.text
                           \/ Scope(h.asked[2], bridgeConfig) # h.asked
                           \/ h.scope # h.asked
                           \/ /\ << h.scope, h.state >> \notin DOMAIN fallbacks
                              /\ Cardinality(DOMAIN fallbacks) = MaxBridged
                              /\ \A k \in DOMAIN fallbacks :
                                     fallbacks[k].expiresAt >= h.since + BridgeTTL
                           \/ outcome = "readable"
  BY DEF CompactionsComeBack
<1> DEFINE h == held[c]
           state == h.state
           model == h.asked[2]
           scope == Scope(model, bridgeConfig)
           request == FollowUpOf(state)
           responses == bridgeConfig.primaryProtocol = "responses"
           outcome == HandOver(request, model)
           until == h.since + BridgeTTL
<1>1. request.state = state /\ request.v2 = FALSE
  BY DEF FollowUpOf, Compact1
<1>2. outcome = IF Bridged(scope, state) \/ isReadable(state, bridgeConfig.split) THEN "readable"
                ELSE IF ~responses \/ (bridgeConfig.split /\ state \in DOMAIN LiveStates)
                     THEN "refused" ELSE "intact"
  BY <1>1 DEF HandOver, IsV2FollowUp
<1>3. IsKept(h, fallbacks, knownStates, bridgeClock)
  BY DEF BridgeInv
<1>4. /\ h.since \in Nat /\ bridgeClock \in Nat /\ until \in Nat /\ bridgeClock < until
      /\ state \in Cipher => state \in DOMAIN LiveStates
  BY <1>3, BridgeAssumption DEF IsKept, BridgeInv, LiveStates
<1>5. state \in Cipher => outcome # "intact"
  BY <1>2, <1>4
<1>6. CASE h.text /\ << h.scope, state >> \in DOMAIN fallbacks
           /\ Scope(model, bridgeConfig) = h.asked /\ h.scope = h.asked
  <2>1. << h.scope, state >> = << scope, state >>
    BY <1>6
  <2>2. /\ fallbacks[<< scope, state >>].expiresAt >= until
        /\ fallbacks[<< scope, state >>].expiresAt \in Nat
    BY <1>3, <1>4, <1>6, <2>1 DEF IsKept, BridgeInv, IsWritten
  <2>3. << scope, state >> \in DOMAIN Live(fallbacks)
    BY <1>4, <1>6, <2>1, <2>2 DEF Live, Restrict
  <2>4. Bridged(scope, state)
    BY <2>3 DEF Bridged
  <2> QED BY <1>2, <1>5, <2>4
<1>7. CASE h.text /\ << h.scope, state >> \notin DOMAIN fallbacks
  <2>1. /\ Cardinality(DOMAIN fallbacks) = MaxBridged
        /\ \A k \in DOMAIN fallbacks : fallbacks[k].expiresAt >= until
    BY <1>3, <1>4, <1>7 DEF IsKept
  <2> QED BY <1>5, <1>7, <2>1
<1> QED BY <1>5, <1>6, <1>7

\* In split mode no compaction is passed on as a ciphertext while the bridge
\* remembers it, and what came with text comes back as history unless younger
\* compactions fill the bridge, however many clients compact, replay and edit.
THEOREM CompactionsReturn == GatewaySpec => []CompactionsComeBack
<1>1. GatewayInit => BridgeInv
  BY BridgeStarts DEF GatewayInit
<1>2. BridgeInv /\ [GatewayNext]_gatewayVars => BridgeInv'
  <2>1. BridgeInv /\ UNCHANGED bridgeVars => BridgeInv'
    BY BridgeSteps
  <2> QED BY <2>1, BridgeSteps DEF GatewayNext, gatewayVars
<1>3. BridgeInv => CompactionsComeBack
  BY OwedComesBack
<1> QED BY <1>1, <1>2, <1>3, PTL DEF GatewaySpec
=============================================================================
