------------------------- MODULE StatePortability -------------------------
(***************************************************************************)
(* What of a Responses request belongs to the provider that issued it, and *)
(* the bodies a request may be sent as when its provider is another one:   *)
(* src/server/provider-state-portability.ts.  A body keeps the items of    *)
(* its input and the fields the cleanups touch; text is left out.          *)
(***************************************************************************)
EXTENDS Naturals, Sequences, SequencesExt, FiniteSets, Functions

CONSTANT CallId   \* what pairs a call with its output

Item(type, enc, id, call) == [type |-> type, enc |-> enc, id |-> id, call |-> call]

\* Reasoning with a ciphertext whose envelope is well formed, malformed, or none;
\* a compaction whose summary can be read back, or not.
Reasoning(enc, id) == Item("reasoning", enc, id, "")
Compaction(enc, id) == Item("compaction", enc, id, "")
Call(name, id) == Item("call", "none", id, name)
Output(name) == Item("output", "none", FALSE, name)
Message(id) == Item("message", "none", id, "")

Items == [type : {"reasoning", "compaction", "call", "output", "message"},
          enc : {"none", "valid", "malformed", "readable", "opaque"}, id : BOOLEAN,
          call : CallId \cup {""}]

Body(input, previous, meta, cacheKey, store) ==
    [input |-> input, previous |-> previous, meta |-> meta,
     cacheKey |-> cacheKey, store |-> store]

Bodies == [input : UNION {[places -> Items] : places \in SUBSET Nat}, previous : BOOLEAN,
           meta : BOOLEAN, cacheKey : {"none", "client", "target"}, store : BOOLEAN]

ItemsOf(body) == ToSet(body.input)

\* What filter leaves of an input.  An item keeps its place, so that two bodies
\* made of one input are the same list if they hold the same items in the same
\* places.
Keeping(input, items) == Restrict(input, {n \in DOMAIN input : input[n] \in items})

HasType(body, type) == \E i \in ItemsOf(body) : i.type = type

\* analyzeProviderState
hasProviderOwnedState(body) ==
    HasType(body, "reasoning") \/ HasType(body, "compaction") \/ body.previous

MapItems(body, Clean(_)) ==
    [body EXCEPT !.input = [n \in DOMAIN @ |-> Clean(@[n])]]

\* isValidGptReasoningEncryptedContent judges the envelope, not the cipher.
isValidEnvelope(item) == item.enc = "valid"

applyCpaCleanup(body) ==
    MapItems(body, LAMBDA i :
        IF i.type # "reasoning" \/ isValidEnvelope(i) THEN i
        ELSE [i EXCEPT !.enc = "none", !.id = @ /\ body.store])

\* removeOrphanToolItems: one pass over both sides of every pair.
removeOrphanToolItems(input) ==
    LET called == {i.call : i \in {i \in ToSet(input) : i.type = "call"}}
        answered == {i.call : i \in {i \in ToSet(input) : i.type = "output"}}
    IN  Keeping(input, {i \in ToSet(input) :
            /\ i.type = "call" => i.call \in answered
            /\ i.type = "output" => i.call \in called})

\* synthesizeAssistantMessage reads a summary back, or cannot.
Portable(item) ==
    CASE item.type = "compaction" -> Message(FALSE)
      [] OTHER -> [item EXCEPT !.id = FALSE]

applyCrossDomainCleanup(body) ==
    LET kept == Keeping(body.input, {i \in ItemsOf(body) :
                    /\ i.type # "reasoning"
                    /\ i.type = "compaction" => i.enc = "readable"})
    IN  [body EXCEPT
            !.previous = FALSE, !.meta = FALSE,
            !.cacheKey = IF @ = "none" THEN @ ELSE "target",
            !.input = removeOrphanToolItems([n \in DOMAIN kept |-> Portable(kept[n])])]

applyErrorRecovery(body, code) ==
    CASE code = "invalid_encrypted_content" ->
            MapItems(body, LAMBDA i : IF i.type # "reasoning" THEN i
                                      ELSE [i EXCEPT !.enc = "none", !.id = FALSE])
      [] code = "previous_response_not_found" -> [body EXCEPT !.previous = FALSE]
      [] code = "invalid_responses_request" ->
            [body EXCEPT !.input = Keeping(@, {i \in ItemsOf(body) : i.type # "compaction"})]

BaseBody(canonical, strategy) ==
    CASE strategy = "cpa" -> applyCpaCleanup(canonical)
      [] strategy = "cross_domain" -> applyCrossDomainCleanup(canonical)
      [] OTHER -> canonical

\* Every attempt is derived from the canonical body, never from an attempt.
compileProviderStateAttempt(canonical, try) ==
    IF try.strategy = "error_400"
    THEN applyErrorRecovery(BaseBody(canonical, try.prior), try.code)
    ELSE BaseBody(canonical, try.strategy)

\* recoverAgentrouterCompactionIds, for stateless history without references.
RepairableIds(body) ==
    /\ ~body.store /\ ~body.previous
    /\ \E i \in ItemsOf(body) : i.type = "compaction" /\ i.id

WithoutCompactionIds(body) ==
    MapItems(body, LAMBDA i : IF i.type = "compaction" THEN [i EXCEPT !.id = FALSE] ELSE i)

--------------------------------------------------------------------------
\* External: what a provider refuses of a body that carries state of another
\* one, out of the kinds it checks, and what it may answer then.

ForeignKinds(body) ==
    {i.type : i \in {i \in ItemsOf(body) :
                        \/ i.type = "compaction"
                        \/ i.type = "reasoning" /\ (i.enc # "none" \/ i.id)}}
    \cup (IF body.previous THEN {"previous"} ELSE {})

CodesFor(kind) ==
    CASE kind = "reasoning" -> {"invalid_encrypted_content"}
      [] kind = "compaction" -> {"invalid_encrypted_content", "invalid_responses_request"}
      [] kind = "previous" -> {"previous_response_not_found"}
==========================================================================
