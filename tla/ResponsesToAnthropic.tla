----------------------- MODULE ResponsesToAnthropic -----------------------
(***************************************************************************)
(* createResponsesToAnthropicStream: a Responses stream, re-told to Claude *)
(* Code as an Anthropic message stream.  `blocks` is the insertion-ordered *)
(* map of the code; a block takes its place in the message only when it    *)
(* starts.                                                                 *)
(*                                                                         *)
(* The state of a block is the signature or the data it was given.         *)
(***************************************************************************)
EXTENDS ProtocolConversion, UsageMetrics

R2A == [started |-> FALSE, completed |-> FALSE, nextBlockIndex |-> 0,
        sawToolUse |-> FALSE, blocks |-> << >>,
        usage |-> AnthropicUsage(Null, Null, Null, 0),
        torn |-> FALSE, out |-> << >>]

--------------------------------------------------------------------------
updateResponse(s, r) ==
    IF r.usage = NoUsage THEN s ELSE [s EXCEPT !.usage = openAiUsageToAnthropic(r.usage)]

MessageStarted(s, usage) ==
    IF s.started THEN s
    ELSE Emit([s EXCEPT !.started = TRUE],
              [type |-> "message_start",
               usage |-> [openAiUsageToAnthropic(usage) EXCEPT !.output = 0]])

ensureMessageStart(s) == MessageStarted(s, NoUsage)

At(s, i, type) ==
    CHOOSE k \in DOMAIN s.blocks : s.blocks[k].i = i /\ s.blocks[k].type = type

ensureBlock(s, i, type) ==
    IF \E k \in DOMAIN s.blocks : s.blocks[k].i = i /\ s.blocks[k].type = type THEN s
    ELSE [s EXCEPT !.blocks = Append(@,
            [i |-> i, type |-> type, index |-> 0, started |-> FALSE, stopped |-> FALSE,
             n |-> 0, named |-> FALSE, custom |-> FALSE, inputEmitted |-> FALSE])]

startBlock(s, k, block, state) ==
    Emit([s EXCEPT !.blocks[k].started = TRUE,
                   !.blocks[k].index = s.nextBlockIndex,
                   !.nextBlockIndex = @ + 1],
         [type |-> "content_block_start", index |-> s.nextBlockIndex, block |-> block, n |-> 0,
          state |-> state])

\* Mutant: a block that is finished again is closed again.
StopsTwice(s, k) ==
    IF ~s.blocks[k].started THEN s
    ELSE Emit([s EXCEPT !.blocks[k].stopped = TRUE],
              [type |-> "content_block_stop", index |-> s.blocks[k].index])

stopBlock(s, k) ==
    IF ~s.blocks[k].started \/ s.blocks[k].stopped THEN s
    ELSE Emit([s EXCEPT !.blocks[k].stopped = TRUE],
              [type |-> "content_block_stop", index |-> s.blocks[k].index])

EmitDelta(s, k, delta, n) ==
    Emit(s, [type |-> "content_block_delta", index |-> s.blocks[k].index,
             delta |-> delta, n |-> n])

EmitSignature(s, k, state) ==
    Emit(s, [type |-> "content_block_delta", index |-> s.blocks[k].index,
             delta |-> "signature", n |-> 0, state |-> state])

\* What is done in the block of an item, which is there.
InBlock(s, i, type, Do(_, _)) == Do(s, At(s, i, type))

ensureOpenBlock(s, i, type, block, state) ==
    InBlock(ensureMessageStart(ensureBlock(s, i, type)), i, type,
            LAMBDA t, k : IF t.blocks[k].started THEN t ELSE startBlock(t, k, block, state))

ensureTextBlock(s, i) == ensureOpenBlock(s, i, "text", "text", NoState)

ensureReasoningBlock(s, i) == ensureOpenBlock(s, i, "reasoning", "thinking", NoState)

emitTextDelta(s, k, n) == EmitDelta([s EXCEPT !.blocks[k].n = @ + n], k, "text", n)

\* A tool block starts once both its id and its name are known.
startToolBlock(s, k) ==
    IF s.blocks[k].started \/ ~s.blocks[k].named THEN s
    ELSE startBlock([ensureMessageStart(s) EXCEPT !.sawToolUse = TRUE], k, "tool_use", NoState)

ensureToolBlock(s, i, named, custom) ==
    InBlock(ensureBlock(s, i, "tool_use"), i, "tool_use",
            LAMBDA t, k : startToolBlock([t EXCEPT !.blocks[k].custom = @ \/ custom,
                                                   !.blocks[k].named = @ \/ named], k))

emitToolInput(s, k, n) ==
    IF ~s.blocks[k].started \/ s.blocks[k].inputEmitted \/ n = 0 THEN s
    ELSE EmitDelta([s EXCEPT !.blocks[k].inputEmitted = TRUE], k, "tool_use", n)

--------------------------------------------------------------------------
OutputItemAdded(s, f) ==
    CASE f.item.kind \in {"function_call", "custom_tool_call"} ->
             ensureToolBlock(s, f.i, f.item.named, f.item.kind = "custom_tool_call")
      [] f.item.kind = "reasoning" -> ensureBlock(s, f.i, "reasoning")
      [] OTHER -> s

\* A part may be announced with text in it, which is then streamed.
ContentPartAdded(s, f) ==
    InBlock(ensureTextBlock(s, f.i), f.i, "text",
            LAMBDA t, k : IF f.n > 0 THEN emitTextDelta(t, k, f.n) ELSE t)

OutputTextDelta(s, f) ==
    InBlock(ensureTextBlock(s, f.i), f.i, "text", LAMBDA t, k : emitTextDelta(t, k, f.n))

\* A text that was never streamed is told whole.
CloseText(s, i, n) ==
    InBlock(ensureTextBlock(s, i), i, "text",
            LAMBDA t, k : stopBlock(IF t.blocks[k].n = 0 /\ n > 0 THEN emitTextDelta(t, k, n) ELSE t, k))

ReasoningDelta(s, f) ==
    InBlock(ensureReasoningBlock(s, f.i), f.i, "reasoning",
            LAMBDA t, k : EmitDelta([t EXCEPT !.blocks[k].n = @ + f.n], k, "thinking", f.n))

FunctionCallArgumentsDelta(s, f) ==
    InBlock(ensureToolBlock(s, f.i, FALSE, FALSE), f.i, "tool_use",
            LAMBDA t, k : LET u == [t EXCEPT !.blocks[k].n = @ + f.n]
                          IN  IF t.blocks[k].started THEN EmitDelta(u, k, "tool_use", f.n) ELSE u)

\* Arguments that were never streamed are told whole.
FunctionCallArgumentsDone(s, f) ==
    InBlock(ensureToolBlock(s, f.i, FALSE, FALSE), f.i, "tool_use",
            LAMBDA t, k :
                stopBlock(IF t.blocks[k].n > 0 \/ f.n = 0 THEN t
                          ELSE LET u == [t EXCEPT !.blocks[k].n = f.n]
                               IN  IF t.blocks[k].started THEN EmitDelta(u, k, "tool_use", f.n) ELSE u,
                          k))

\* A custom tool's text cannot go out in pieces: it is kept until it is whole.
CustomToolInputDelta(s, f) ==
    InBlock(ensureToolBlock(s, f.i, FALSE, TRUE), f.i, "tool_use",
            LAMBDA t, k : [t EXCEPT !.blocks[k].n = @ + f.n])

CustomToolInputDone(s, f) ==
    InBlock(ensureToolBlock(s, f.i, FALSE, TRUE), f.i, "tool_use",
            LAMBDA t, k : IF f.n > 0
                          THEN stopBlock(emitToolInput([t EXCEPT !.blocks[k].n = f.n], k, f.n), k)
                          ELSE stopBlock(emitToolInput(t, k, t.blocks[k].n), k))

FinishTool(s, i, item) ==
    InBlock(ensureToolBlock(s, i, item.named, item.kind = "custom_tool_call"), i, "tool_use",
            LAMBDA t, k :
                IF ~t.blocks[k].started THEN Throw(t)
                ELSE stopBlock(IF t.blocks[k].n = 0 /\ item.n > 0
                               THEN emitToolInput([t EXCEPT !.blocks[k].n = item.n], k, item.n)
                               ELSE IF item.kind = "custom_tool_call"
                               THEN emitToolInput(t, k, t.blocks[k].n) ELSE t,
                               k))

\* The signature is sent whenever the item is finished, first or again.
FinishReasoning(s, i, block) ==
    InBlock(ensureReasoningBlock(s, i), i, "reasoning",
            LAMBDA t, k :
                stopBlock(EmitSignature(IF t.blocks[k].n = 0
                                        THEN EmitDelta([t EXCEPT !.blocks[k].n = block.n], k,
                                                       "thinking", block.n)
                                        ELSE t,
                                        k, block.state),
                          k))

FinishRedacted(s, i, block) ==
    InBlock(ensureOpenBlock(s, i, "reasoning", "redacted_thinking", block.state), i, "reasoning",
            stopBlock)

finishOutputItem(s, i, item) ==
    CASE item.kind = "message" -> CloseText(s, i, item.n)
      [] item.kind \in {"function_call", "custom_tool_call"} -> FinishTool(s, i, item)
      [] item.kind = "reasoning" ->
             LET blocks == openAiReasoningToAnthropic(item)
             IN  IF blocks = << >> THEN s
                 ELSE IF blocks[1].kind = "thinking" THEN FinishReasoning(s, i, blocks[1])
                 ELSE FinishRedacted(s, i, blocks[1])
      [] OTHER -> Throw(s)

MessageEnds(s, reason) ==
    Emit(Emit([s EXCEPT !.completed = TRUE],
              [type |-> "message_delta", usage |-> s.usage,
               stop |-> IF reason = "max_tokens" \/ ~s.sawToolUse THEN reason ELSE "tool_use"]),
         [type |-> "message_stop"])

AllStopped(s) == Then(s, stopBlock, [k \in DOMAIN s.blocks |-> k])

\* The final response repeats every item, finished or not, by its position.
\* Truncation outranks the tool call.
ItemsFinished(s, r) ==
    Then(MessageStarted(updateResponse(s, r), r.usage),
         LAMBDA t, p : finishOutputItem(t, p - 1, r.output[p]), [p \in DOMAIN r.output |-> p])

Concluded(s, reason) == IF s.torn THEN s ELSE MessageEnds(AllStopped(s), reason)

finishMessage(s, r) ==
    IF s.completed THEN s ELSE Concluded(ItemsFinished(s, r), openAiStopReason(r))

FailMessage(s) == Emit([s EXCEPT !.completed = TRUE], [type |-> "error"])

DeltaFrame(s, f) ==
    CASE f.kind = "message" -> OutputTextDelta(s, f)
      [] f.kind = "reasoning" -> ReasoningDelta(s, f)
      [] f.kind = "function_call" -> FunctionCallArgumentsDelta(s, f)
      [] f.kind = "custom_tool_call" -> CustomToolInputDelta(s, f)

PartDoneFrame(s, f) ==
    CASE f.kind = "message" -> CloseText(s, f.i, f.n)
      [] f.kind = "function_call" -> FunctionCallArgumentsDone(s, f)
      [] f.kind = "custom_tool_call" -> CustomToolInputDone(s, f)
      [] OTHER -> s

R2AFrame(s, f) ==
    CASE f.type = "created" -> MessageStarted(updateResponse(s, f), f.usage)
      [] f.type = "item_added" -> OutputItemAdded(s, f)
      [] f.type = "part_added" -> ContentPartAdded(s, f)
      [] f.type = "summary_part_added" -> s
      [] f.type = "delta" -> DeltaFrame(s, f)
      [] f.type = "part_done" -> PartDoneFrame(s, f)
      [] f.type = "item_done" -> finishOutputItem(s, f.i, f.item)
      [] f.type \in {"completed", "incomplete"} -> finishMessage(s, f)
      [] f.type \in {"failed", "error"} -> FailMessage(s)

R2AFlush(s) == IF s.completed THEN s ELSE FailMessage(s)
==========================================================================
