--------------------------- MODULE StateRecovery ---------------------------
(***************************************************************************)
(* A conversation that moves to another provider: the recovery loop of     *)
(* src/server/provider-state-migration.ts, the evidence that lets it throw *)
(* provider state away, and the bindings that say where a conversation     *)
(* lives, as proxyPrimaryRequest of src/server/openai-proxy.ts uses them.  *)
(*                                                                         *)
(* A request arrives, waits for its body, for OAuth and for the scheduler's *)
(* pointer to be saved, then reads the binding and the evidence and is     *)
(* sent, and is sent again as another body while the answers ask for it;   *)
(* all the code between two waits runs in one turn of the event loop and   *)
(* is one action here.                                                     *)
(***************************************************************************)
EXTENDS StatePortability, Integers

CONSTANTS
    Turn,            \* requests
    Domain,          \* state domains of the profiles requests are routed to
    Nowhere,         \* no domain, no response
    Situation,       \* what a request carries and how its provider behaves
    BindingTTL, HealthTTL, LegacyTTL, LegacyThreshold,
    MaxRecoveryTime

\* A client sends a list of items; what its provider checks is as below.
ASSUME SituationAssumption ==
    \A s \in Situation : s.body \in [input : Seq(Items), previous : BOOLEAN, meta : BOOLEAN,
                                     cacheKey : {"none", "client", "target"}, store : BOOLEAN]

VARIABLES
    turns,           \* request -> its progress
    bindings,        \* identity -> the row of provider_state_bindings
    evidence,        \* key -> the row of provider_state_recovery_evidence
    recoveryClock,
    started,         \* requests arrived so far
    claims           \* observed: identity -> the successes that claimed it since it has a row

recoveryVars == << turns, bindings, evidence, recoveryClock, started, claims >>

MaxAttempts == 4

--------------------------------------------------------------------------
\* providerStateBindingIdentityHashes; the binding of the most specific one that
\* has one counts, and evidence is counted under the most stable one.

SessionOf == "session"

IdentityHashes(t) ==
    ({t.continues} \ {Nowhere}) \cup (IF t.inSession THEN {SessionOf} ELSE {})

conversationHash(t) ==
    IF t.inSession THEN SessionOf ELSE t.continues

findProviderStateBinding(t) ==
    LET live == {i \in IdentityHashes(t) :
                    i \in DOMAIN bindings /\ bindings[i].expiresAt > recoveryClock}
        first == IF t.continues \in live THEN t.continues ELSE SessionOf
    IN  IF live = {} THEN [domain |-> Nowhere, generation |-> 0]
        ELSE [domain |-> bindings[first].domain, generation |-> bindings[first].generation]

HealthKey(domain) == << "target_health", domain, Nowhere, "" >>

LegacyKey(t, answer) == << "legacy_failure", t.target, conversationHash(t), answer >>

Alive(rows) == [k \in {k \in DOMAIN rows : rows[k].expiresAt > recoveryClock} |-> rows[k]]

\* rememberProviderStateRecoveryEvidence
Observed(key) ==
    IF key \in DOMAIN Alive(evidence) THEN evidence[key].count + 1 ELSE 1

Remembered(key, ttl) ==
    Alive([k \in DOMAIN evidence \cup {key} |->
              IF k = key THEN [count |-> Observed(key), expiresAt |-> recoveryClock + ttl]
              ELSE evidence[k]])

\* Mutant: the version is left to its default, the time of the write.
VersionIsNow(t) == recoveryClock

\* A row's version is the time its request arrived, which no two share here.
Version(t) == t.arrived

\* The WHERE clause of the upsert.
Supersedes(row, old) ==
    \/ row.generation > old.generation
    \/ row.generation = old.generation /\ row.version >= old.version

Bound(identities, row) ==
    Alive([i \in DOMAIN bindings \cup identities |->
              IF i \in identities /\ (i \in DOMAIN bindings => Supersedes(row, bindings[i]))
              THEN row ELSE bindings[i]])

--------------------------------------------------------------------------
\* runProviderStateMigration

Try(strategy, prior, code) == [strategy |-> strategy, prior |-> prior, code |-> code]

Plain(strategy) == Try(strategy, strategy, "")

Codes == {"invalid_encrypted_content", "previous_response_not_found",
          "invalid_responses_request"}

\* isEligibleGenericProviderStateFailure: a coded refusal only once repaired.
isEligible(answer, repaired) ==
    \/ answer = "refused"
    \/ answer \in Codes /\ repaired

\* startGenericRecovery
Unlocks(t, answer) ==
    /\ ~t.evaluated /\ ~t.generic
    /\ t.targetHealthy
    /\ isEligible(answer, t.try.strategy = "error_400")
    /\ IF t.source # Nowhere THEN t.source # t.target
       ELSE /\ conversationHash(t) # Nowhere
            /\ Observed(LegacyKey(t, answer)) >= LegacyThreshold

CountsFailure(t, answer) ==
    /\ ~t.evaluated /\ ~t.generic
    /\ t.targetHealthy
    /\ isEligible(answer, t.try.strategy = "error_400")
    /\ t.source = Nowhere /\ conversationHash(t) # Nowhere

\* Whether an answer goes to the error-specific repair, or ends the loop.
TakesRepair(t, answer) == answer \in Codes /\ t.try.strategy # "error_400"

GivesUp(t, answer) ==
    /\ answer = "invalid_responses_request"
    /\ \/ ~HasType(t.canonical, "compaction")
       \/ t.try.strategy = "error_400" /\ t.try.code = "invalid_responses_request"

\* Mutant: after the repair, the strict cleanup is thought done already.
RepairIsLast(t, generic) ==
    IF ~generic \/ t.try.strategy = "error_400" THEN {}
    ELSE IF t.try.strategy = "original" /\ "cpa" \notin t.tried THEN {"cpa"}
    ELSE {"cross_domain"} \ t.tried

nextStrategyAfterFailure(t, generic) ==
    IF ~generic THEN {}
    ELSE IF t.try.strategy = "original" /\ "cpa" \notin t.tried THEN {"cpa"}
    ELSE {"cross_domain"} \ t.tried

nextStrategyAfterDuplicate(t, generic, strategy) ==
    IF ~generic \/ strategy \notin {"cpa", "error_400"} THEN {}
    ELSE {"cross_domain"} \ t.tried

IsDuplicate(t, try) == compileProviderStateAttempt(t.canonical, try) \in ToSet(t.sent)

\* The attempt an answer leads to, with the duplicates it passes over; none when
\* the loop ends.
NextTry(t, answer, generic) ==
    LET first == IF TakesRepair(t, answer)
                 THEN {Try("error_400", t.try.strategy, answer)}
                 ELSE {Plain(s) : s \in nextStrategyAfterFailure(t, generic)}
        second == UNION {{Plain(s) : s \in nextStrategyAfterDuplicate(t, generic, f.strategy)} :
                            f \in {f \in first : IsDuplicate(t, f)}}
    IN  IF Len(t.sent) >= MaxAttempts THEN {}
        ELSE {f \in first \cup second : ~IsDuplicate(t, f)}

Attempt(t, try) ==
    [t EXCEPT !.try = try, !.tried = @ \cup {try.strategy},
              !.sent = Append(@, compileProviderStateAttempt(t.canonical, try))]

--------------------------------------------------------------------------
Idle == [phase |-> "idle", canonical |-> Body(<< >>, FALSE, FALSE, "none", FALSE),
         continues |-> Nowhere, inSession |-> FALSE, arrived |-> 0, source |-> Nowhere,
         target |-> Nowhere, generation |-> 0, targetHealthy |-> FALSE, enabled |-> FALSE,
         strict |-> {}, agentrouter |-> FALSE, try |-> Plain("original"), tried |-> {},
         sent |-> << >>, evaluated |-> FALSE, generic |-> FALSE, trigger |-> FALSE,
         repaired |-> FALSE, outcome |-> "", refusal |-> "", fair |-> TRUE]

\* proxyPrimaryRequest takes the time first of all.
ArriveTurn(r) ==
    /\ turns[r].phase = "idle"
    /\ started' = started + 1
    /\ turns' = [turns EXCEPT ![r] = [Idle EXCEPT !.phase = "arrived", !.arrived = started + 1]]
    /\ UNCHANGED << bindings, evidence, recoveryClock, claims >>

\* After the waits, in which a request may also fail and leave nothing: the
\* persisted binding, else the profile the scheduler still remembers, says where
\* the state comes from.
SendTurn(r) ==
    /\ turns[r].phase = "arrived"
    /\ \E s \in Situation, target \in Domain, remembered \in Domain \cup {Nowhere},
          continues \in {Nowhere} \cup {x \in Turn : turns[x].outcome = "success"} :
         LET canonical == [s.body EXCEPT !.previous = continues # Nowhere]
             fresh == [Idle EXCEPT
                 !.phase = "sent", !.canonical = canonical, !.continues = continues,
                 !.inSession = s.inSession, !.arrived = turns[r].arrived, !.target = target,
                 !.enabled = s.enabled, !.strict = s.strict, !.agentrouter = s.agentrouter]
             binding == findProviderStateBinding(fresh)
         IN  turns' = [turns EXCEPT ![r] =
                Attempt([fresh EXCEPT
                    !.source = IF binding.domain # Nowhere THEN binding.domain ELSE remembered,
                    !.generation = binding.generation,
                    !.targetHealthy = HealthKey(target) \in DOMAIN Alive(evidence)],
                    Plain("original"))]
    /\ UNCHANGED << bindings, evidence, recoveryClock, started, claims >>

\* External: a provider accepts a body without the foreign state it checks for;
\* otherwise it says which state it refuses, or only that the request is bad.
\* Besides, anything may fail for reasons of its own.
Objections(t) ==
    IF t.source = t.target THEN {} ELSE ForeignKinds(Last(t.sent)) \cap t.strict

HonestAnswers(t) ==
    IF Objections(t) = {} THEN {"success"}
    ELSE {"refused"} \cup UNION {CodesFor(k) : k \in Objections(t)}

Recovers(t) == t.enabled /\ hasProviderOwnedState(t.canonical)

\* What is left of a turn that was answered.
Finish(t, outcome, refusal) ==
    [Idle EXCEPT !.phase = "done", !.outcome = outcome, !.refusal = refusal, !.fair = t.fair]

\* A complete success commits: evidence that the target is well, if the request
\* carried no state, and where the conversation lives now.
SucceedTurn(r) ==
    LET t == turns[r]
        row == [domain |-> t.target, version |-> Version(t),
                generation |-> t.generation + (IF t.trigger THEN 1 ELSE 0),
                expiresAt |-> recoveryClock + BindingTTL]
        identities == IdentityHashes(t) \cup {r}
        claim == [domain |-> t.target, generation |-> row.generation, arrived |-> t.arrived]
    IN  /\ t.phase = "sent"
        /\ turns' = [turns EXCEPT ![r] = Finish(t, "success", "")]
        /\ bindings' = Bound(identities, row)
        /\ evidence' = IF hasProviderOwnedState(t.canonical) THEN evidence
                       ELSE Remembered(HealthKey(t.target), HealthTTL)
        /\ claims' = [i \in DOMAIN claims |->
                        IF i \notin DOMAIN bindings' THEN {}
                        ELSE claims[i] \cup (IF i \in identities THEN {claim} ELSE {})]
        /\ UNCHANGED << recoveryClock, started >>

\* A failure that cannot be replayed, because the answer has begun, the client is
\* gone or the time is up, is the client's; so is one no recovery applies to.
EndTurn(r) ==
    LET t == turns[r]
    IN  /\ t.phase = "sent"
        /\ turns' = [turns EXCEPT ![r] = Finish([t EXCEPT !.fair = FALSE], "failed", "")]
        /\ UNCHANGED << bindings, evidence, recoveryClock, started, claims >>

\* A refusal that may be replayed.
RefuseTurn(r) ==
    LET t == turns[r]
    IN  /\ t.phase = "sent" /\ ~t.repaired /\ Recovers(t)
        /\ \E answer \in Codes \cup {"refused", "other"} :
             LET judged == ~TakesRepair(t, answer) /\ ~GivesUp(t, answer)
                 generic == t.generic \/ (judged /\ Unlocks(t, answer))
                 honest == answer \in HonestAnswers(t)
                 next == IF GivesUp(t, answer) THEN {} ELSE NextTry(t, answer, generic)
                 told == [t EXCEPT
                     !.fair = @ /\ honest,
                     !.generic = generic,
                     !.evaluated = @ \/ judged,
                     !.trigger = @ \/ generic \/ (TakesRepair(t, answer) /\ ~GivesUp(t, answer))]
             IN  /\ turns' = [turns EXCEPT ![r] =
                       IF next = {} THEN Finish(told, "failed", answer)
                       ELSE Attempt(told, CHOOSE f \in next : TRUE)]
                 /\ evidence' = IF judged /\ CountsFailure(t, answer)
                                THEN Remembered(LegacyKey(t, answer), LegacyTTL) ELSE evidence
        /\ UNCHANGED << bindings, recoveryClock, started, claims >>

\* agentrouter.org blames the Azure resource: one retry without the ids of the
\* compactions, at the original body only, and nothing after it.
RepairTurn(r) ==
    LET t == turns[r]
    IN  /\ t.phase = "sent" /\ ~t.repaired /\ Recovers(t) /\ t.agentrouter
        /\ turns' = [turns EXCEPT ![r] =
              IF t.try.strategy = "original" /\ RepairableIds(Last(t.sent))
              THEN [t EXCEPT !.repaired = TRUE, !.fair = FALSE, !.trigger = TRUE,
                             !.sent = Append(@, WithoutCompactionIds(Last(@)))]
              ELSE Finish([t EXCEPT !.fair = FALSE], "failed", "")]
        /\ UNCHANGED << bindings, evidence, recoveryClock, started, claims >>

PassRecoveryTime ==
    /\ recoveryClock < MaxRecoveryTime
    /\ recoveryClock' = recoveryClock + 1
    /\ UNCHANGED << turns, bindings, evidence, started, claims >>

RecoveryInit ==
    /\ turns = [r \in Turn |-> Idle]
    /\ bindings = << >>
    /\ \E healthy \in SUBSET Domain :
          evidence = [k \in {HealthKey(d) : d \in healthy} |->
                        [count |-> 1, expiresAt |-> HealthTTL]]
    /\ recoveryClock = 0
    /\ started = 0
    /\ claims = [i \in Turn \cup {SessionOf} |-> {}]

RecoveryNext ==
    \/ \E r \in Turn :
          \/ ArriveTurn(r) \/ SendTurn(r) \/ SucceedTurn(r) \/ EndTurn(r)
          \/ RefuseTurn(r) \/ RepairTurn(r)
    \/ PassRecoveryTime

RecoverySpec == RecoveryInit /\ [][RecoveryNext]_recoveryVars

--------------------------------------------------------------------------
\* A conversation that comes to a provider known to be well and known to be
\* another one than issued its state, and whose only fault is that state, is
\* answered (runProviderStateMigration): the loop gives up only where the repair
\* a refusal names changes nothing, which ends the loop before the cleanup that
\* would have helped.
ForeignStateIsShed ==
    [][\A r \in Turn :
          LET t == turns[r]
              refusal == turns'[r].refusal
          IN  /\ t.phase = "sent" /\ turns'[r].outcome = "failed" /\ turns'[r].fair
              /\ t.targetHealthy /\ t.source \notin {Nowhere, t.target}
              => /\ refusal \in Codes /\ ~t.generic
                 /\ IsDuplicate(t, Try("error_400", t.try.strategy, refusal))]_recoveryVars

\* Where a conversation is said to live does not depend on the order its requests
\* finish in, only on how many migrations they knew of and when they arrived: of
\* all that succeeded since it has a row, the row is the one's that counts the
\* most migrations and, among those, arrived last.  So a request that was slow
\* undoes neither a migration nor what a later request found
\* (rememberProviderStateBinding).
Outranks(c, d) ==
    \/ c.generation > d.generation
    \/ c.generation = d.generation /\ c.arrived >= d.arrived

BindingsIgnoreFinishOrder ==
    \A i \in DOMAIN bindings :
        \E c \in claims[i] :
            /\ bindings[i].domain = c.domain /\ bindings[i].generation = c.generation
            /\ \A d \in claims[i] : Outranks(c, d)
=============================================================================
