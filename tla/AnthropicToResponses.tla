----------------------- MODULE AnthropicToResponses -----------------------
(***************************************************************************)
(* createAnthropicToResponsesStream and its compaction variant: a Claude   *)
(* message stream, re-told to Codex as a Responses stream.                 *)
(***************************************************************************)
EXTENDS StreamStage, UsageMetrics

Kind == [text |-> "message", thinking |-> "reasoning",
         redacted_thinking |-> "reasoning", tool_use |-> "function_call"]

--------------------------------------------------------------------------
\* createAnthropicToResponsesStream

A2R == [completed |-> FALSE, stopReason |-> "none", nextOutputIndex |-> 0,
        blocks |-> << >>, outputItems |-> << >>,
        usage |-> OpenAiUsage(0, Null, Null, 0), torn |-> FALSE, out |-> << >>]

\* The split of the cache, where the report has one.
Split(u, old) == IF u.cached = Null THEN old ELSE u

responseEnvelope(s, type) ==
    [type |-> type, output |-> Dense(s.outputItems), usage |-> s.usage]

MessageStart(s, f) ==
    LET u == anthropicUsageToResponses(f.usage)
        t == IF f.usage = NoUsage THEN s
             ELSE [s EXCEPT !.usage = OpenAiUsage(u.input, Split(u, @).cached,
                                                  Split(u, @).written, u.output)]
    IN  Emit(t, responseEnvelope(t, "created"))

\* A block of an unknown kind has no state: everything about it is ignored.
\* The text a block starts with goes out with its item, and once more as a
\* delta of the part that is announced as empty.
ContentBlockStart(s, f) ==
    IF f.block \notin DOMAIN Kind THEN s
    ELSE LET i == s.nextOutputIndex
             kind == Kind[f.block]
             added == Emit([s EXCEPT !.nextOutputIndex = i + 1,
                                     !.blocks = Put(@, f.index,
                                        [outputIndex |-> i, type |-> f.block, n |-> f.n,
                                         signed |-> FALSE])],
                           [type |-> "item_added", i |-> i,
                            item |-> Item(kind, IF f.block = "text" THEN f.n ELSE 0, NoState)])
             parted == Emit(added, [type |-> "part_added", i |-> i, kind |-> kind, n |-> 0])
         IN  CASE f.block = "text" /\ f.n > 0 ->
                      Emit(parted, [type |-> "delta", i |-> i, kind |-> kind, n |-> f.n])
               [] f.block = "text" -> parted
               [] f.block = "thinking" -> Emit(added, [type |-> "summary_part_added", i |-> i])
               [] OTHER -> added

\* Mutant: the signature is taken for one more delta of no consequence.
SignatureDropped(s, f) ==
    IF f.index \notin DOMAIN s.blocks \/ f.delta # s.blocks[f.index].type THEN s
    ELSE LET b == s.blocks[f.index]
         IN  Emit([s EXCEPT !.blocks[f.index].n = @ + f.n],
                  [type |-> "delta", i |-> b.outputIndex,
                   kind |-> Kind[b.type], n |-> f.n])

\* A thinking block's signature is kept for the item, never streamed.
ContentBlockDelta(s, f) ==
    IF f.index \notin DOMAIN s.blocks THEN s
    ELSE LET b == s.blocks[f.index]
         IN  IF f.delta = "signature" /\ b.type = "thinking"
             THEN [s EXCEPT !.blocks[f.index].signed = TRUE]
             ELSE IF f.delta # b.type THEN s
             ELSE Emit([s EXCEPT !.blocks[f.index].n = @ + f.n],
                       [type |-> "delta", i |-> b.outputIndex,
                        kind |-> Kind[b.type], n |-> f.n])

ContentBlockStop(s, f) ==
    IF f.index \notin DOMAIN s.blocks THEN s
    ELSE LET b == s.blocks[f.index]
             i == b.outputIndex
             kind == Kind[b.type]
             item == Item(kind, IF b.type = "redacted_thinking" THEN 0 ELSE b.n,
                          CASE b.type = "thinking" ->
                                   encodeCompactGateState("anthropic_thinking", b.n, b.signed)
                            [] b.type = "redacted_thinking" ->
                                   encodeCompactGateState("anthropic_redacted_thinking", b.n, TRUE)
                            [] OTHER -> NoState)
             t == [s EXCEPT !.outputItems = Put(@, i, item),
                            !.blocks = Without(@, f.index)]
             told == IF b.type = "redacted_thinking" THEN t
                     ELSE Emit(t, [type |-> "part_done", i |-> i, kind |-> kind,
                                   n |-> b.n])
         IN  Emit(told, [type |-> "item_done", i |-> i, item |-> item])

\* Mutant: the last count wins, a trailer of zeros too.
LastCountWins(s, f) ==
    LET u == anthropicUsageToResponses(f.usage)
        t == [s EXCEPT !.stopReason = IF f.stop = "none" THEN @ ELSE f.stop]
    IN  IF f.usage = NoUsage THEN t
        ELSE [t EXCEPT !.usage = OpenAiUsage(u.input, Split(u, @).cached,
                                             Split(u, @).written, u.output)]

\* The counts are cumulative: one that shrank is a relay's zero-filled trailer.
MessageDelta(s, f) ==
    LET u == anthropicUsageToResponses(f.usage)
        t == [s EXCEPT !.stopReason = IF f.stop = "none" THEN @ ELSE f.stop]
    IN  IF f.usage = NoUsage THEN t
        ELSE [t EXCEPT !.usage =
                 OpenAiUsage(Larger(u.input, @.input), Split(u, @).cached,
                             Split(u, @).written, Larger(u.output, @.output))]

ErrorEvent(s) ==
    LET t == [s EXCEPT !.completed = TRUE]
    IN  Emit(t, responseEnvelope(t, "failed"))

MessageStop(s) ==
    LET t == [s EXCEPT !.completed = TRUE]
    IN  Emit(t, responseEnvelope(t, IF s.stopReason = "max_tokens"
                                    THEN "incomplete" ELSE "completed"))

A2RFrame(s, f) ==
    CASE f.type = "message_start" -> MessageStart(s, f)
      [] f.type = "content_block_start" -> ContentBlockStart(s, f)
      [] f.type = "content_block_delta" -> ContentBlockDelta(s, f)
      [] f.type = "content_block_stop" -> ContentBlockStop(s, f)
      [] f.type = "message_delta" -> MessageDelta(s, f)
      [] f.type = "error" -> ErrorEvent(s)
      [] f.type = "message_stop" -> MessageStop(s)

A2RFlush(s) ==
    IF s.completed THEN s ELSE Emit(s, responseEnvelope(s, "failed"))

--------------------------------------------------------------------------
\* createAnthropicToResponsesCompactionStream: only the summary matters.

A2RC == [completed |-> FALSE, summary |-> 0,
         usage |-> OpenAiUsage(0, Null, Null, 0), torn |-> FALSE, out |-> << >>]

CompactionEnvelope(s, type) ==
    [type |-> type, usage |-> s.usage,
     output |-> IF type = "completed"
                THEN << Item("compaction", 0,
                             encodeCompactGateState("compaction_summary", s.summary, TRUE)) >>
                ELSE << >>]

\* updateUsage: the last word wins here, and the cache split is not kept.
updateUsage(s, u) ==
    IF u = NoUsage THEN s
    ELSE [s EXCEPT !.usage.input = IF u.fresh = Null THEN @ ELSE u.fresh,
                   !.usage.output = IF u.output = Null THEN @ ELSE u.output]

CompactionStop(s) ==
    LET t == [s EXCEPT !.completed = TRUE]
        done == CompactionEnvelope(t, "completed")
    IN  IF s.summary = 0 THEN Emit(t, CompactionEnvelope(t, "failed"))
        ELSE Emit(Emit(t, [type |-> "item_done", i |-> 0, item |-> done.output[1]]),
                  done)

A2RCFrame(s, f) ==
    CASE f.type = "message_start" ->
             LET t == updateUsage(s, f.usage)
             IN  Emit(t, CompactionEnvelope(t, "created"))
      [] f.type = "content_block_start" ->
             IF f.block = "compaction" /\ f.n > 0
             THEN [s EXCEPT !.summary = f.n] ELSE s
      [] f.type = "content_block_delta" ->
             IF f.delta = "compaction" THEN [s EXCEPT !.summary = @ + f.n] ELSE s
      [] f.type = "message_delta" -> updateUsage(s, f.usage)
      [] f.type = "error" ->
             Emit([s EXCEPT !.completed = TRUE], CompactionEnvelope(s, "failed"))
      [] f.type = "message_stop" -> CompactionStop(s)
      [] OTHER -> s

A2RCFlush(s) ==
    IF s.completed THEN s
    ELSE Emit([s EXCEPT !.completed = TRUE], CompactionEnvelope(s, "failed"))
==========================================================================
