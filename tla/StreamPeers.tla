--------------------------- MODULE StreamPeers ---------------------------
(***************************************************************************)
(* The two ends of a translated stream, neither of them in this            *)
(* repository.  An upstream is a set of offers: the frames it may send     *)
(* next, each with what it then becomes.  A reader folds the frames it     *)
(* gets into the answer it has, and notes the first frame that has no      *)
(* place in its protocol.                                                  *)
(***************************************************************************)
EXTENDS StreamStage, UsageMetrics

CONSTANTS MaxBlocks, \* blocks or items of one answer
          MaxN,      \* fragments of one block
          Dialect    \* how a Chat upstream labels the chunks of a tool call

Part(kind, n, state) == [kind |-> kind, n |-> n, state |-> state]

Offer(frame, up) == [frame |-> frame, up |-> up]

--------------------------------------------------------------------------
\* An Anthropic upstream, or a relay of one.  Counts are cumulative; the
\* relay may leave them out, or restate them with zeros in a last frame.

\* What the last frame says of the usage: nothing, the output alone, the fresh
\* input again without the cache, everything, or the input as if all of it had
\* been read from the cache.
LastUsage == {NoUsage, AnthropicUsage(Null, Null, Null, 2), AnthropicUsage(1, Null, Null, 2),
              AnthropicUsage(1, 1, 0, 2), AnthropicUsage(0, 2, Null, 2)}

Messages == [phase |-> "idle", content |-> << >>, stop |-> "none"]

MessagesOffers(up, kinds) ==
    LET Start == {Offer([type |-> "message_start", usage |-> u],
                        [up EXCEPT !.phase = "between"]) :
                     u \in {NoUsage, AnthropicUsage(1, 1, Null, 0)}}
        Open == {Offer([type |-> "content_block_start", index |-> Len(up.content),
                        block |-> kind, n |-> n,
                        state |-> IF kind = "redacted_thinking" THEN ProviderState ELSE NoState],
                       [up EXCEPT !.phase = "open",
                                  !.content = Append(@, Part(kind, n,
                                      IF kind = "redacted_thinking" THEN ProviderState
                                      ELSE NoState))]) :
                    kind \in kinds, n \in {0, 1}}
        k == Len(up.content)
        last == up.content[k]
        Grow == {Offer([type |-> "content_block_delta", index |-> k - 1,
                        delta |-> last.kind, n |-> 1],
                       [up EXCEPT !.content[k].n = @ + 1])}
        Sign == {Offer([type |-> "content_block_delta", index |-> k - 1,
                        delta |-> "signature", n |-> 0, state |-> ProviderState],
                       [up EXCEPT !.content[k].state = ProviderState])}
        Stop == {Offer([type |-> "content_block_stop", index |-> k - 1],
                       [up EXCEPT !.phase = "between"])}
        Totals == {Offer([type |-> "message_delta", stop |-> reason, usage |-> u],
                         [up EXCEPT !.phase = "stopping", !.stop = reason]) :
                      reason \in {"end_turn", "max_tokens"}, u \in LastUsage}
        Trailer == {Offer([type |-> "message_delta", stop |-> "none",
                           usage |-> AnthropicUsage(0, 0, 0, 0)],
                          [up EXCEPT !.phase = "trailed"])}
        End == {Offer([type |-> "message_stop"], [up EXCEPT !.phase = "ended"])}
        Error == {Offer([type |-> "error"], [up EXCEPT !.phase = "failed"])}
    IN  CASE up.phase = "idle" -> Start \union Error
          [] up.phase = "between" ->
                 (IF k < MaxBlocks
                  THEN {o \in Open : /\ o.frame.block = "thinking" => o.frame.n = 0
                                     /\ o.frame.block = "compaction" =>
                                           \A j \in 1..k : up.content[j].kind # "compaction"}
                  ELSE {}) \union Totals \union Error
          [] up.phase = "open" ->
                 (IF last.n < MaxN /\ last.kind \notin {"redacted_thinking", "other"}
                  THEN Grow ELSE {})
                 \union (IF last.kind = "thinking" /\ last.state = NoState /\ last.n > 0
                         THEN Sign ELSE {})
                 \union Stop
          [] up.phase = "stopping" -> Trailer \union End
          [] up.phase = "trailed" -> End
          [] OTHER -> {}

--------------------------------------------------------------------------
\* A Responses upstream.  It may stream an item, tell it whole when it is
\* done, or only repeat the last one in the final response.

Responses == [phase |-> "idle", items |-> << >>, reason |-> "none"]

ResponsesOffers(up) ==
    LET k == Len(up.items)
        last == up.items[k]
        Start == {Offer([type |-> "created", usage |-> NoUsage], [up EXCEPT !.phase = "between"])}
        Open == {Offer([type |-> "item_added", i |-> k, item |-> Item(kind, 0, NoState)],
                       [up EXCEPT !.phase = "open",
                                  !.items = Append(@, Item(kind, 0, NoState))]) :
                    kind \in {"message", "reasoning", "function_call",
                              "custom_tool_call", "unknown"}}
        NewPart ==
            CASE last.kind = "message" ->
                     {Offer([type |-> "part_added", i |-> k - 1, kind |-> "message", n |-> n],
                            [up EXCEPT !.phase = "parted", !.items[k].n = n]) : n \in {0, 1}}
              [] last.kind = "reasoning" ->
                     {Offer([type |-> "summary_part_added", i |-> k - 1],
                            [up EXCEPT !.phase = "parted"])}
              [] OTHER -> {}
        Grow == {Offer([type |-> "delta", i |-> k - 1, kind |-> last.kind, n |-> 1],
                       [up EXCEPT !.items[k].n = @ + 1])}
        Whole(n, state) == [last EXCEPT !.n = n, !.state = state]
        Ends == {Whole(n, state) : n \in (IF last.n = 0 THEN {0, 1} ELSE {last.n}),
                                   state \in (IF last.kind = "reasoning"
                                              THEN {NoState, ProviderState} ELSE {NoState})}
        Closing == {item \in Ends : item.kind = "message" => item.n > 0}
        PartDone == {Offer([type |-> "part_done", i |-> k - 1, kind |-> last.kind,
                            n |-> item.n],
                           [up EXCEPT !.phase = "whole", !.items[k] = item]) : item \in Closing}
        Unsaid == {Offer(Junk, [up EXCEPT !.phase = "last", !.items[k] = item]) :
                      item \in Closing}
        Done(item) == Offer([type |-> "item_done", i |-> k - 1, item |-> item],
                            [up EXCEPT !.phase = "between", !.items[k] = item])
        Final(type, reason) ==
            Offer([type |-> type, output |-> up.items, usage |-> OpenAiUsage(3, 1, 1, 2),
                   reason |-> reason],
                  [up EXCEPT !.phase = "ended", !.reason = reason])
    IN  CASE up.phase = "idle" -> Start
          [] up.phase \in {"between", "last"} ->
                 (IF k < MaxBlocks /\ up.phase = "between" THEN Open ELSE {})
                 \union {Final("completed", "none"), Final("incomplete", "max_output_tokens"),
                         Final("incomplete", "content_filter"),
                         Offer([type |-> "failed"], [up EXCEPT !.phase = "failed"])}
          [] up.phase \in {"open", "parted"} ->
                 (IF up.phase = "open" /\ last.n = 0 THEN NewPart ELSE {})
                 \union (IF last.n < MaxN /\ last.kind # "unknown" THEN Grow ELSE {})
                 \union PartDone \union Unsaid \union {Done(item) : item \in Closing}
          [] up.phase = "whole" -> {Done(last)}
          [] OTHER -> {}

--------------------------------------------------------------------------
\* A Chat upstream.  Its tool calls are told one after the other or, where
\* every chunk says which call it is about, at the same time.

ChatOf(dialect) == [phase |-> "between", dialect |-> dialect, text |-> 0,
                    calls |-> << >>, finish |-> "none"]

\* How the chunk of call j is labelled: its first, or a later one.
Label(dialect, j, first) ==
    CASE dialect = "indexed" ->
             [index |-> j - 1, id |-> IF first THEN j ELSE None, name |-> IF first THEN j ELSE None]
      [] dialect = "unindexed" ->
             [index |-> None, id |-> IF first THEN j ELSE None, name |-> IF first THEN j ELSE None]
      [] dialect = "ids" -> [index |-> None, id |-> j, name |-> j]
      [] dialect = "restarting" -> [index |-> 0, id |-> j, name |-> IF first THEN j ELSE None]
      [] dialect = "named late" ->
             [index |-> j - 1, id |-> IF first THEN j ELSE None, name |-> IF first THEN None ELSE j]
      [] dialect = "restarting unlabelled" ->
             [index |-> 0, id |-> IF first THEN j ELSE None, name |-> IF first THEN j ELSE None]

Chunk == [type |-> "chunk", choices |-> 1, text |-> 0, calls |-> << >>,
          finish |-> "none", usage |-> NoUsage, refusal |-> FALSE]

CallChunk(dialect, j, first, n) ==
    LET l == Label(dialect, j, first)
    IN  [Chunk EXCEPT !.calls = << [index |-> l.index, id |-> l.id, name |-> l.name, n |-> n] >>]

ChatOffers(up) ==
    LET k == Len(up.calls)
        Together == up.dialect \in {"indexed", "ids", "restarting"}
        Text == {Offer([Chunk EXCEPT !.text = 1], [up EXCEPT !.text = @ + 1])}
        NewCall == {Offer(CallChunk(up.dialect, k + 1, TRUE, n),
                          [up EXCEPT !.calls = Append(@, n)]) : n \in {0, 1}}
        More == {Offer(CallChunk(up.dialect, j, FALSE, 1), [up EXCEPT !.calls[j] = @ + 1]) :
                    j \in {j \in 1..k : (Together \/ j = k) /\ up.calls[j] < MaxN}}
        Finish == {Offer([Chunk EXCEPT !.finish = reason,
                                         !.usage = OpenAiUsage(2, 1, Null, 2)],
                         [up EXCEPT !.phase = "finished", !.finish = reason]) :
                      reason \in {"stop", "length", "content_filter"}}
        Untellable == {Offer([Chunk EXCEPT !.choices = 2], [up EXCEPT !.phase = "failed"]),
                       Offer([Chunk EXCEPT !.refusal = TRUE], [up EXCEPT !.phase = "failed"]),
                       Offer([type |-> "error"], [up EXCEPT !.phase = "failed"])}
    IN  CASE up.phase = "between" ->
                 (IF up.text < MaxN THEN Text ELSE {})
                 \union (IF k < MaxBlocks THEN NewCall ELSE {})
                 \union More \union Finish \union Untellable
          [] up.phase = "finished" ->
                 {Offer([type |-> "[DONE]"], [up EXCEPT !.phase = "ended"]),
                  Offer([Chunk EXCEPT !.choices = 0], [up EXCEPT !.phase = "ended"])}
          [] OTHER -> {}

--------------------------------------------------------------------------
\* The reader of an Anthropic stream.  It stops listening at an error, and a
\* signature it gets again replaces the one it had.

MessageReader == [started |-> FALSE, content |-> << >>, open |-> {}, stop |-> "none",
                  terminal |-> "none", sound |-> TRUE]

Wrong(c) == [c EXCEPT !.sound = FALSE]

ReadMessage(c, f) ==
    LET k == f.index + 1
    IN  CASE c.terminal = "error" -> c
          [] c.terminal = "complete" -> Wrong(c)
          [] f.type = "message_start" -> IF c.started THEN Wrong(c) ELSE [c EXCEPT !.started = TRUE]
          [] f.type = "content_block_start" ->
                 IF ~c.started \/ k # Len(c.content) + 1 THEN Wrong(c)
                 ELSE [c EXCEPT !.content = Append(@, Part(f.block, f.n, f.state)),
                                !.open = @ \union {k}]
          [] f.type = "content_block_delta" ->
                 IF k \notin DOMAIN c.content THEN Wrong(c)
                 ELSE IF f.delta = "signature" /\ c.content[k].kind = "thinking"
                 THEN [c EXCEPT !.content[k].state = f.state]
                 ELSE IF k \notin c.open \/ f.delta # c.content[k].kind THEN Wrong(c)
                 ELSE [c EXCEPT !.content[k].n = @ + f.n]
          [] f.type = "content_block_stop" ->
                 IF k \notin c.open THEN Wrong(c) ELSE [c EXCEPT !.open = @ \ {k}]
          [] f.type = "message_delta" ->
                 IF ~c.started THEN Wrong(c)
                 ELSE [c EXCEPT !.stop = IF f.stop = "none" THEN @ ELSE f.stop]
          [] f.type = "message_stop" ->
                 IF ~c.started \/ c.open # {} THEN Wrong(c)
                 ELSE [c EXCEPT !.terminal = "complete"]
          [] f.type = "error" -> [c EXCEPT !.terminal = "error"]

--------------------------------------------------------------------------
\* The reader of a Responses stream.  The answer it keeps is the final
\* response; what it was told of an item before must agree with it.  It adds
\* every fragment to the text the item came with, and an item whose text it
\* was told twice, with the item and then in fragments, is one of `twice`.

ResponseReader == [started |-> FALSE, items |-> << >>, answer |-> << >>, stop |-> "none",
                   twice |-> {}, terminal |-> "none", sound |-> TRUE]

\* What the item came with is what the fragments have too much of.
ToldTwice(entry, n) == entry.announced > 0 /\ entry.item.n = n + entry.announced

ReadResponse(c, f) ==
    CASE c.terminal # "none" -> Wrong(c)
      [] f.type = "created" -> IF c.started THEN Wrong(c) ELSE [c EXCEPT !.started = TRUE]
      [] f.type = "item_added" ->
             IF f.i \in DOMAIN c.items THEN Wrong(c)
             ELSE [c EXCEPT !.items = Put(@, f.i, [item |-> f.item, announced |-> f.item.n,
                                                   done |-> FALSE])]
      [] f.type \in {"part_added", "delta"} ->
             IF f.i \notin DOMAIN c.items \/ c.items[f.i].done
                \/ c.items[f.i].item.kind # f.kind THEN Wrong(c)
             ELSE [c EXCEPT !.items[f.i].item.n = @ + f.n]
      [] f.type = "summary_part_added" ->
             IF f.i \notin DOMAIN c.items \/ c.items[f.i].done
                \/ c.items[f.i].item.kind # "reasoning" THEN Wrong(c)
             ELSE c
      [] f.type = "part_done" ->
             IF f.i \notin DOMAIN c.items THEN Wrong(c)
             ELSE IF c.items[f.i].item.n > f.n /\ ~ToldTwice(c.items[f.i], f.n) THEN Wrong(c)
             ELSE [c EXCEPT !.items[f.i].item.n = f.n,
                            !.twice = IF ToldTwice(c.items[f.i], f.n) THEN @ \union {f.i} ELSE @]
      [] f.type = "item_done" ->
             IF f.i \in DOMAIN c.items /\ (c.items[f.i].done \/ c.items[f.i].item.n > f.item.n)
             THEN Wrong(c)
             ELSE [c EXCEPT !.items = Put(@, f.i, [item |-> f.item, announced |-> 0,
                                                   done |-> TRUE])]
      [] f.type \in {"completed", "incomplete"} ->
             [c EXCEPT !.terminal = "complete", !.stop = f.type,
                       !.answer = f.output,
                       !.sound = @ /\ f.output = Dense([i \in {i \in DOMAIN c.items :
                                                            c.items[i].done}
                                                         |-> c.items[i].item])]
      [] f.type = "failed" -> [c EXCEPT !.terminal = "error"]
==========================================================================
