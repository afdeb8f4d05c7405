-------------------------- MODULE StreamObserver ---------------------------
(***************************************************************************)
(* src/server/upstream-openai-stream.ts: the observer that listens to an   *)
(* SSE stream and decides how it ended, what it cost and how fast it was   *)
(* generated.  An event too large to keep is known by its name only.  Time *)
(* is left out: a generation sample is there or it is not.                 *)
(***************************************************************************)
EXTENDS UsageMetrics, StreamStage

Observer == [terminal |-> FALSE, completed |-> FALSE, failed |-> FALSE,
             incomplete |-> FALSE, output |-> FALSE, usage |-> NoMetrics,
             spoilt |-> FALSE, timed |-> FALSE, finalUsage |-> NoMetrics,
             sample |-> FALSE]

UsageOf(f) == IF "usage" \in DOMAIN f THEN f.usage ELSE NoUsage

\* extractUsageFromJsonText finds either dialect wherever it is in the event.
extractUsage(f) ==
    CASE UsageOf(f) = NoUsage -> NoMetrics
      [] "fresh" \in DOMAIN UsageOf(f) -> normalizeAnthropic(f.usage)
      [] OTHER -> normalizeOpenAi(f.usage)

Counted(old, f) ==
    IF extractUsage(f) = NoMetrics THEN old ELSE mergeUsage(old, extractUsage(f))

\* recordEvent, by the protocol the stream speaks.
recordEvent(o, protocol, f) ==
    LET Ends(types) == f.type \in types
        completed == Ends(IF protocol = "anthropic" THEN {"message_stop"} ELSE {"completed"})
        failed == Ends(IF protocol = "anthropic" THEN {"error"} ELSE {"failed"})
        incomplete == protocol # "anthropic" /\ Ends({"incomplete"})
        output == IF protocol = "anthropic"
                  THEN Ends({"content_block_start", "content_block_delta"})
                  ELSE Ends({"delta", "item_done", "summary_part_added"}) \/
                       ("output" \in DOMAIN f /\ f.output # << >>)
    IN  [o EXCEPT !.usage = Counted(@, f),
                  !.terminal = @ \/ completed \/ failed \/ incomplete \/ Ends({"[DONE]"}),
                  !.completed = @ \/ completed,
                  !.failed = @ \/ failed,
                  !.incomplete = @ \/ incomplete,
                  !.output = @ \/ output]

\* hasGenerationOutput: a delta that carries something, or a named call.
hasGenerationOutput(f) ==
    \/ f.type \in {"content_block_delta", "delta", "content_block_start"} /\ f.n > 0
    \/ f.type = "content_block_start" /\ f.block = "tool_use"
    \/ f.type = "item_added" /\ f.item.kind \in {"function_call", "custom_tool_call"}
    \/ f.type = "chunk" /\ (f.text > 0 \/ f.calls # << >>)

\* A sample needs the whole stream: an output that was timed, the final usage
\* and a terminal that is no failure.
Sampled(o) ==
    IF o.terminal /\ ~o.failed /\ ~o.incomplete /\ o.timed
    THEN [o EXCEPT !.sample = o.finalUsage # NoMetrics /\ o.finalUsage.output # Null] ELSE o

recordGeneration(o, f) ==
    Sampled([o EXCEPT !.timed = @ \/ hasGenerationOutput(f),
                      !.finalUsage =
                          IF f.type \in {"message_delta", "message_stop", "completed", "chunk"}
                          THEN Counted(@, f) ELSE @])

\* flushEvent: what comes after the terminal no longer counts as generation.
flushEvent(o, protocol, f) ==
    IF f = Junk THEN [o EXCEPT !.spoilt = @ \/ ~o.terminal]
    ELSE IF o.terminal \/ o.spoilt THEN recordEvent(o, protocol, f)
    ELSE recordGeneration(recordEvent(o, protocol, f), f)

\* markEventOversized: the lost payload may have held newer counts.
oversizedEvent(o, protocol, f) ==
    LET dropped == IF o.terminal THEN o
                   ELSE [o EXCEPT !.usage = NoMetrics, !.spoilt = TRUE]
    IN  recordEvent(dropped, protocol, [type |-> f.type])

\* markDecodeError: the compressed copy broke.
markDecodeError(o) == [o EXCEPT !.sample = FALSE, !.spoilt = TRUE]
==========================================================================
