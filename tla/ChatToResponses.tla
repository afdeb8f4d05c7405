------------------------- MODULE ChatToResponses --------------------------
(***************************************************************************)
(* createChatToResponsesStream: Chat Completions chunks, re-told as a      *)
(* Responses stream.                                                       *)
(*                                                                         *)
(* A chunk is [text, calls, finish, usage]; each of its `calls` is         *)
(* [index, id, name, n] where index may be None, and id and name may be    *)
(* absent: only the first chunk of a call is sure to carry them.  A name   *)
(* is the sequence of the names concatenated into it.                      *)
(***************************************************************************)
EXTENDS StreamStage, UsageMetrics

C2R == [created |-> FALSE, completed |-> FALSE, finishReason |-> "none",
        textStarted |-> FALSE, text |-> 0, textOutputIndex |-> 0,
        nextOutputIndex |-> 0, toolCalls |-> << >>, slotsById |-> << >>,
        lastToolCallSlot |-> 0, usage |-> NoUsage, torn |-> FALSE, out |-> << >>]

ChatEnvelope(s, type, output) ==
    [type |-> type, output |-> output, usage |-> s.usage,
     reason |-> CASE type # "incomplete" -> "none"
                  [] s.finishReason = "content_filter" -> "content_filter"
                  [] OTHER -> "max_output_tokens"]

ensureCreated(s) ==
    IF s.created THEN s
    ELSE Emit([s EXCEPT !.created = TRUE], ChatEnvelope(s, "created", << >>))

startText(s) ==
    IF s.textStarted THEN s
    ELSE Emit(Emit([s EXCEPT !.textStarted = TRUE,
                             !.textOutputIndex = s.nextOutputIndex,
                             !.nextOutputIndex = @ + 1],
                   [type |-> "item_added", i |-> s.nextOutputIndex,
                    item |-> Item("message", 0, NoState)]),
              [type |-> "part_added", i |-> s.nextOutputIndex, kind |-> "message", n |-> 0])

TextDelta(s, n) ==
    IF n = 0 THEN s
    ELSE LET t == startText(s)
         IN  Emit([t EXCEPT !.text = @ + n],
                  [type |-> "delta", i |-> t.textOutputIndex, kind |-> "message", n |-> n])

--------------------------------------------------------------------------
\* Tool calls are kept by slot: the upstream's index, bound to the first id
\* that came with it, or a slot of its own above every index.
UnindexedSlot == 1000

toolCallSlotForId(s, id, index) ==
    IF id \in DOMAIN s.slotsById THEN s.slotsById[id]
    ELSE IF index # None /\ \A x \in DOMAIN s.slotsById : s.slotsById[x] # index
    THEN index
    ELSE UnindexedSlot + Cardinality(DOMAIN s.slotsById)

SlotOf(s, call) ==
    IF call.id # None THEN toolCallSlotForId(s, call.id, call.index)
    ELSE IF call.index # None THEN call.index ELSE s.lastToolCallSlot

CallAt(s, slot) == CHOOSE k \in DOMAIN s.toolCalls : s.toolCalls[k].slot = slot

startToolCallIfReady(s, k) ==
    LET c == s.toolCalls[k]
    IN  IF c.started \/ c.id = None \/ c.name = << >> THEN s
        ELSE Emit([s EXCEPT !.toolCalls[k].started = TRUE],
                  [type |-> "item_added", i |-> c.i,
                   item |-> Item("function_call", 0, NoState)])

ensureToolCall(s, slot, call) ==
    IF \E k \in DOMAIN s.toolCalls : s.toolCalls[k].slot = slot
    THEN IF call.id = None THEN s
         ELSE [s EXCEPT !.toolCalls[CallAt(s, slot)].id = call.id]
    ELSE LET t == [s EXCEPT
                     !.toolCalls = Append(@,
                        [slot |-> slot, i |-> s.nextOutputIndex, id |-> call.id,
                         name |-> IF call.name = None THEN << >> ELSE << call.name >>,
                         n |-> 0, emitted |-> 0, started |-> FALSE]),
                     !.nextOutputIndex = @ + 1]
         IN  startToolCallIfReady(t, Len(t.toolCalls))

\* Arguments that came before the call could start go out when it does.
ArgumentsOut(s, k) ==
    LET c == s.toolCalls[k]
    IN  IF c.started /\ c.n > c.emitted
        THEN Emit([s EXCEPT !.toolCalls[k].emitted = c.n],
                  [type |-> "delta", i |-> c.i, kind |-> "function_call",
                   n |-> c.n - c.emitted])
        ELSE s

CallGrows(s, k, call) ==
    startToolCallIfReady(
        [s EXCEPT !.toolCalls[k].name = IF call.name = None \/ @ = << call.name >> THEN @
                                        ELSE Append(@, call.name),
                  !.toolCalls[k].n = @ + call.n], k)

CallOfSlot(s, slot, call) ==
    ensureToolCall([s EXCEPT !.lastToolCallSlot = slot,
                             !.slotsById = IF call.id = None THEN @ ELSE Put(@, call.id, slot)],
                   slot, call)

InCall(s, slot, Do(_, _)) == Do(s, CallAt(s, slot))

ToolCallDelta(s, call) ==
    InCall(CallOfSlot(s, SlotOf(s, call), call), SlotOf(s, call),
           LAMBDA t, k : ArgumentsOut(CallGrows(t, k, call), k))

--------------------------------------------------------------------------
finish(s) ==
    IF s.completed THEN s
    ELSE LET begun == ensureCreated([s EXCEPT !.completed = TRUE])
             message == Item("message", s.text, NoState)
             call(c) == Item("function_call", c.n, NoState)
             texted == IF ~s.textStarted THEN begun
                       ELSE Emit(Emit(begun,
                              [type |-> "part_done", i |-> s.textOutputIndex,
                               kind |-> "message", n |-> s.text]),
                              [type |-> "item_done", i |-> s.textOutputIndex,
                               item |-> message])
             CloseCall(t, k) ==
                 LET r == startToolCallIfReady(t, k)
                     c == r.toolCalls[k]
                 IN  IF ~c.started THEN Throw(r)
                     ELSE Emit(Emit(r,
                            [type |-> "part_done", i |-> c.i, kind |-> "function_call",
                             n |-> c.n]),
                            [type |-> "item_done", i |-> c.i, item |-> call(c)])
             told == Then(texted, CloseCall, [k \in DOMAIN s.toolCalls |-> k])
             output == Dense([i \in {s.toolCalls[k].i : k \in DOMAIN s.toolCalls}
                                    \union (IF s.textStarted THEN {s.textOutputIndex} ELSE {})
                              |-> IF s.textStarted /\ i = s.textOutputIndex THEN message
                                  ELSE call(s.toolCalls[CHOOSE k \in DOMAIN s.toolCalls :
                                                          s.toolCalls[k].i = i])])
         IN  IF told.torn THEN told
             ELSE Emit(told, ChatEnvelope(told,
                    IF s.finishReason \in {"length", "content_filter"}
                    THEN "incomplete" ELSE "completed", output))

fail(s) ==
    IF s.completed THEN s
    ELSE LET t == ensureCreated([s EXCEPT !.completed = TRUE])
         IN  Emit(t, ChatEnvelope(t, "failed", << >>))

\* A refusal, several choices or a tool that is no function cannot be told.
ChatChunk(s, f) ==
    LET begun == ensureCreated(s)
        used == IF f.usage = NoUsage THEN begun ELSE [begun EXCEPT !.usage = f.usage]
        ended == IF f.finish = "none" THEN used
                 ELSE [used EXCEPT !.finishReason = f.finish]
        texted == TextDelta(ended, f.text)
    IN  CASE f.choices > 1 -> Throw(used)
          [] f.choices = 0 -> used
          [] f.refusal -> Throw(texted)
          [] OTHER -> Then(texted, ToolCallDelta, f.calls)

C2RFrame(s, f) ==
    CASE f.type = "[DONE]" -> finish(s)
      [] f.type = "error" -> fail(s)
      [] f.type = "chunk" -> ChatChunk(s, f)

\* Mutant: whatever was told when the upstream fell silent is the answer.
SilenceFinishes(s) == finish(s)

C2RFlush(s) == IF s.finishReason # "none" THEN finish(s) ELSE fail(s)
==========================================================================
