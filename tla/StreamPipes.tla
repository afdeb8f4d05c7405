--------------------------- MODULE StreamPipes ---------------------------
(***************************************************************************)
(* A streamed answer on its way from an upstream to a client of another    *)
(* dialect: the translators of src/server/protocol-stream.ts as the        *)
(* transforms compose them, with one observer on the upstream's stream and *)
(* one on the client's.  The upstream may fall silent after any frame, and *)
(* a relay may garble some frames or send one too large to be observed.    *)
(***************************************************************************)
EXTENDS AnthropicToResponses, ResponsesToAnthropic, ChatToResponses,
        StreamObserver, StreamPeers

CONSTANTS Pipe,    \* the transforms to follow
          MaxLost  \* frames a relay may garble

VARIABLES pipe,    \* which transform this answer goes through
          up,      \* the upstream, and all it has said
          first,   \* the translator
          second,  \* the second translator of a composed transform
          client,  \* what the client has read
          source,  \* the observer of the upstream's stream
          sink,    \* the observer of the client's stream
          lost,    \* how many frames were garbled
          ended    \* the upstream's stream is over

vars == << pipe, up, first, second, client, source, sink, lost, ended >>

Anthropic == {"messages to responses", "messages to compaction", "messages repaired"}
FromChat == {"chat to responses", "chat to messages"}
ToMessages == {"messages repaired", "responses to messages", "chat to messages"}

SourceProtocol == IF pipe \in Anthropic THEN "anthropic" ELSE "openai"
SinkProtocol == IF pipe \in ToMessages THEN "anthropic" ELSE "openai"

--------------------------------------------------------------------------
\* createAnthropicTerminatorRepairStream: an Anthropic stream is forwarded untouched,
\* and one that ends without message_stop gets its open blocks closed and the missing
\* terminator appended.

Repair == [openBlocks |-> {}, sawMessageStop |-> FALSE, sawMessageDelta |-> FALSE,
           usage |-> NoUsage, torn |-> FALSE, out |-> << >>]

\* observeFrame
Observed(s, f) ==
    CASE f.type = "content_block_start" -> [s EXCEPT !.openBlocks = @ \union {f.index}]
      [] f.type = "content_block_stop" -> [s EXCEPT !.openBlocks = @ \ {f.index}]
      [] f.type = "message_start" -> [s EXCEPT !.usage = IF f.usage = NoUsage THEN @ ELSE f.usage]
      [] f.type = "message_delta" ->
             [s EXCEPT !.sawMessageDelta = TRUE,
                       !.usage = IF f.usage = NoUsage THEN @ ELSE f.usage]
      [] f.type = "message_stop" -> [s EXCEPT !.sawMessageStop = TRUE]
      [] OTHER -> s

RepairFrame(s, f) == Emit(Observed(s, f), f)

RepairFlush(s) ==
    LET CloseBlock(t, i) == Emit(t, [type |-> "content_block_stop", index |-> i])
        closed == Then(s, CloseBlock, SetToSortSeq(s.openBlocks, LAMBDA a, b : a < b))
        done == IF s.sawMessageDelta THEN closed
                 ELSE Emit(closed, [type |-> "message_delta", stop |-> "end_turn",
                                   usage |-> s.usage])
    IN  IF s.sawMessageStop THEN s ELSE Emit(done, [type |-> "message_stop"])

--------------------------------------------------------------------------
First(p) == CASE p = "messages to responses" -> A2R
              [] p = "messages to compaction" -> A2RC
              [] p = "messages repaired" -> Repair
              [] p = "responses to messages" -> R2A
              [] p \in FromChat -> C2R

ConvertFirst(s, f) == CASE pipe = "messages to responses" -> A2RFrame(s, f)
                        [] pipe = "messages to compaction" -> A2RCFrame(s, f)
                        [] pipe = "messages repaired" -> RepairFrame(s, f)
                        [] pipe = "responses to messages" -> R2AFrame(s, f)
                        [] pipe \in FromChat -> C2RFrame(s, f)

FlushFirst(s) == CASE pipe = "messages to responses" -> A2RFlush(s)
                   [] pipe = "messages to compaction" -> A2RCFlush(s)
                   [] pipe = "messages repaired" -> RepairFlush(s)
                   [] pipe = "responses to messages" -> R2AFlush(s)
                   [] pipe \in FromChat -> C2RFlush(s)

Kinds == IF pipe = "messages to compaction" THEN {"compaction", "text"}
         ELSE {"text", "thinking", "redacted_thinking", "tool_use", "other"}

Offers == IF pipe \in Anthropic THEN MessagesOffers(up, Kinds)
          ELSE IF pipe \in FromChat THEN ChatOffers(up) ELSE ResponsesOffers(up)

Init ==
    /\ pipe \in Pipe
    /\ up \in CASE pipe \in Anthropic -> {Messages}
                [] pipe \in FromChat -> {ChatOf(d) : d \in Dialect}
                [] OTHER -> {Responses}
    /\ first = First(pipe)
    /\ second = R2A
    /\ client = IF pipe \in ToMessages THEN MessageReader ELSE ResponseReader
    /\ source = Observer
    /\ sink = Observer
    /\ lost = 0
    /\ ended = FALSE

\* What the second translator makes of the first one's frames, and of its end.
Retold(s, closing) ==
    IF closing /\ ~s.torn THEN Close(FeedAll(second, R2AFrame, s.out), R2AFlush)
    ELSE FeedAll(second, R2AFrame, s.out)

\* The client and the observer of its stream read what comes out.
Arrives(told) ==
    /\ client' = FoldLeft(LAMBDA c, f : IF pipe \in ToMessages THEN ReadMessage(c, f)
                                        ELSE ReadResponse(c, f), client, told)
    /\ sink' = FoldLeft(LAMBDA o, f : flushEvent(o, SinkProtocol, f), sink, told)

Passes(s, again) ==
    /\ first' = Taken(s)
    /\ second' = Taken(again)
    /\ Arrives(IF pipe = "chat to messages" THEN again.out ELSE s.out)

\* The frames reach the client: told by one translator, or re-told by a second.
Carry(s, closing) == Passes(s, IF pipe = "chat to messages" THEN Retold(s, closing) ELSE second)

Converted(frame) == Feed(first, ConvertFirst, frame)

\* The upstream sends its next frame.
Frame ==
    /\ ~ended /\ ~first.torn /\ ~second.torn
    /\ \E o \in Offers :
          /\ up' = o.up
          /\ source' = IF o.frame = Junk THEN source
                       ELSE flushEvent(source, SourceProtocol, o.frame)
          /\ Carry(Converted(o.frame), FALSE)
    /\ UNCHANGED << pipe, lost, ended >>

\* The frame is sent and arrives as something that cannot be parsed.
GarbledFrame ==
    /\ ~ended /\ ~first.torn /\ ~second.torn /\ lost < MaxLost
    /\ \E o \in Offers :
          /\ o.frame # Junk
          /\ up' = o.up
          /\ source' = flushEvent(source, SourceProtocol, Junk)
    /\ lost' = lost + 1
    /\ UNCHANGED << pipe, first, second, client, sink, ended >>

\* The frame is translated, but too large for the observer to keep.
LargeFrame ==
    /\ ~ended /\ ~first.torn /\ ~second.torn /\ lost < MaxLost
    /\ \E o \in Offers :
          /\ o.frame # Junk
          /\ up' = o.up
          /\ source' = oversizedEvent(source, SourceProtocol, o.frame)
          /\ Carry(Converted(o.frame), FALSE)
    /\ lost' = lost + 1
    /\ UNCHANGED << pipe, ended >>

\* The upstream's stream ends, complete or not, and the transforms flush.
EndOfStream ==
    /\ ~ended /\ ~first.torn /\ ~second.torn
    /\ ended' = TRUE
    /\ Carry(Close(first, FlushFirst), TRUE)
    /\ UNCHANGED << pipe, up, source, lost >>

Next == Frame \/ GarbledFrame \/ LargeFrame \/ EndOfStream

Spec == Init /\ [][Next]_vars

--------------------------------------------------------------------------
Torn == first.torn \/ second.torn
Over == ended \/ Torn

\* The upstream finished its answer: a Chat upstream has once it gives a
\* reason.
Finished == up.phase = "ended" \/ (pipe \in FromChat /\ up.finish # "none")

\* A compaction without a summary cannot be told as one.
Tellable == pipe = "messages to compaction" =>
                anthropicMessageToResponsesCompaction(up.content) > 0

\* Every frame the client gets has its place in the client's protocol: blocks
\* open in order and close once, nothing is said of a closed block or after
\* the end, a final response repeats what was told of its items, and a text
\* told in fragments is the text its part ends with.  There are two exceptions.
\* A repaired stream whose start or one of whose frames never arrived is not in
\* order.  And Codex is told the text a Claude block starts with twice, with
\* the item and as its first fragment (protocol-stream.ts:140 and 150): a reader that adds up
\* what it is told shows it double until the part is done.
ClientCanRead ==
    /\ client.sound \/ (pipe = "messages repaired" /\ (~client.started \/ lost > 0))
    /\ pipe \notin ToMessages /\ client.twice # {} => pipe = "messages to responses"

\* A client never takes a cut answer for a whole one, and is never left
\* without an end; the one exception is the repair, which closes what the
\* upstream left open.  The observer of the client's stream agrees.
TruncationShows ==
    /\ client.terminal = "complete" => Finished \/ pipe = "messages repaired"
    /\ ended /\ ~Torn => client.terminal # "none" \/ ~client.sound
    /\ ended /\ Finished /\ Tellable /\ ~Torn /\ lost = 0 => client.terminal = "complete"
    /\ client.terminal = "complete" /\ client.sound =>
           (sink.completed \/ sink.incomplete) /\ ~sink.failed
    /\ client.terminal = "error" => sink.failed
    /\ source.sample => Finished

--------------------------------------------------------------------------
\* What the same answer would be, had it come whole instead of streamed.

Calls == {"function_call", "custom_tool_call", "tool_use"}

\* A stream may tell calls before the text; a whole answer never does.
TextFirst(list) == SelectSeq(list, LAMBDA x : x.kind \notin Calls)
                   \o SelectSeq(list, LAMBDA x : x.kind \in Calls)

WholeCompaction ==
    LET summary == anthropicMessageToResponsesCompaction(up.content)
    IN  [output |-> << Item("compaction", 0,
                            encodeCompactGateState("compaction_summary", summary, TRUE)) >>,
         status |-> "completed"]

WholeChat == chatCompletionToResponses(up.text, up.calls, up.finish)

WholeMessage ==
    openAiResponseToAnthropic(IF pipe = "chat to messages" THEN WholeChat
                              ELSE [output |-> up.items, reason |-> up.reason])

SameAnswer(whole) == /\ TextFirst(client.answer) = TextFirst(whole.output)
                     /\ pipe \in Anthropic => client.answer = whole.output
                     /\ client.stop = whole.status

\* The stop reason of a stream puts a tool call before a filtered answer, and
\* knows custom tools; that of a whole answer does neither.
SameMessage(whole) ==
    /\ TextFirst(client.content) = TextFirst(whole.content)
    /\ pipe = "responses to messages" => client.content = whole.content
    /\ client.stop # whole.stop =>
           /\ client.stop = "tool_use"
           /\ \/ whole.stop = "refusal"
              \/ \E k \in DOMAIN up.items : up.items[k].kind = "custom_tool_call"

Complete == client.terminal = "complete" /\ Finished /\ lost = 0

\* Streaming loses nothing: a client that got the whole stream holds exactly
\* the answer, stop reason and token counts that the conversion of the whole
\* answer gives, and both observers count the same prompt and the same output.
\* The compaction stream alone counts its prompt in its own way.
StreamedAsWhole ==
    Complete =>
        /\ CASE pipe = "messages repaired" ->
                     client.content = up.content /\ client.stop = up.stop
             [] pipe = "messages to responses" ->
                     SameAnswer(anthropicMessageToResponses(up.content, up.stop))
             [] pipe = "messages to compaction" -> SameAnswer(WholeCompaction)
             [] pipe = "chat to responses" -> SameAnswer(WholeChat)
             [] OTHER -> SameMessage(WholeMessage)
        /\ source.usage # NoMetrics /\ pipe # "messages to compaction" =>
               /\ Prompt(sink.usage) = Prompt(source.usage)
               /\ sink.usage.output = source.usage.output

--------------------------------------------------------------------------
\* The next request of the same conversation: the client sends back what it
\* holds, with the results of the calls in it.

RepliedItems ==
    LET told == [k \in DOMAIN client.answer |->
                    Said(client.answer[k].kind, "assistant", << client.answer[k].n >>,
                         client.answer[k].state)]
        called == SelectSeq(told, LAMBDA x : x.kind \in Calls)
    IN  told \o [k \in DOMAIN called |->
                    Said("function_call_output", "user", << 0 >>, NoState)]

RepliedMessages ==
    LET called == SelectSeq(client.content, LAMBDA b : b.kind \in Calls)
        results == [k \in DOMAIN called |-> Block("tool_result", 0, NoState)]
    IN  << [role |-> "assistant", content |-> client.content] >>
        \o (IF called = << >> THEN << >>
            ELSE << [role |-> "user", content |-> results] >>)

\* Texts that share a message, apart again; the name of a custom call, lost.
Apart(items) ==
    FlatMap(LAMBDA x : IF x.kind = "message"
                       THEN [k \in DOMAIN x.content |-> Said("message", x.role, << x.content[k] >>, NoState)]
                       ELSE << [x EXCEPT !.kind = IF @ = "custom_tool_call" THEN "function_call"
                                                  ELSE @] >>,
            items)

OwnItems == Apart(FlatMap(LAMBDA x : IF x.kind = "reasoning" /\ x.n = 0 /\ x.state = NoState
                                     THEN << >>
                                     ELSE << Said(x.kind, "assistant", << x.n >>, x.state) >>,
                          up.items))

OwnBlocks == SelectSeq(up.content, LAMBDA b : b.kind # "other")

Assistant(list) == SelectSeq(list, LAMBDA m : m.role = "assistant")

\* The Chat messages a history becomes.
BackInChat ==
    responsesInputToChatMessages(
        IF pipe = "chat to responses" THEN RepliedItems
        ELSE anthropicMessagesToResponsesInput(RepliedMessages, FALSE))

\* Each upstream is sent back its own turn: the blocks or items it produced,
\* in its order, with the signatures and the encrypted content only it can
\* read.  A Chat turn is one message again, unless its calls came first.
HistoryComesBack ==
    Complete =>
        CASE pipe = "messages to responses" ->
                 LET back == responsesInputToAnthropicMessages(RepliedItems)
                 IN  OwnBlocks # << >> => back # Refused /\ back[1].role = "assistant"
                                          /\ back[1].content = OwnBlocks
          [] pipe = "messages to compaction" ->
                 responsesInputToAnthropicMessages(RepliedItems) =
                     << [role |-> "assistant",
                         content |-> SelectSeq(up.content, LAMBDA b : b.kind = "compaction")] >>
          [] pipe = "messages repaired" -> TRUE
          [] pipe = "responses to messages" ->
                 LET back == anthropicMessagesToResponsesInput(RepliedMessages, FALSE)
                 IN  back # Refused /\ Assistant(Apart(back)) = OwnItems
          [] OTHER ->
                 LET turns == Assistant(BackInChat)
                     called == FlatMap(LAMBDA m : m.calls, turns)
                 IN  /\ called = up.calls
                     /\ up.text > 0 => \E k \in DOMAIN turns : turns[k].text = up.text
                     /\ Len(turns) > 1 => turns[1].text = 0
==========================================================================
