------------------------ MODULE ProtocolConversion ------------------------
(***************************************************************************)
(* src/server/protocol-conversion.ts: whole answers, translated without a  *)
(* stream, and the history a client sends back in its next request.        *)
(*                                                                         *)
(* An Anthropic block is [kind, n, state]; `state` is a thinking block's   *)
(* signature or a redacted block's data.  A message is [role, content].    *)
(* A Responses input item is [kind, role, content, state]; the content of  *)
(* anything but a message has one part.                                    *)
(***************************************************************************)
EXTENDS StreamStage

Block(kind, n, state) == [kind |-> kind, n |-> n, state |-> state]

FlatMap(Op(_), list) == FlattenSeq([k \in DOMAIN list |-> Op(list[k])])

--------------------------------------------------------------------------
\* Answers

\* What anthropicMessageToResponses makes of one block; an unknown block is
\* left out.
BlockToItem(b) ==
    CASE b.kind = "text" -> << Item("message", b.n, NoState) >>
      [] b.kind = "thinking" ->
             << Item("reasoning", b.n,
                     encodeCompactGateState("anthropic_thinking", b.n, b.state # NoState)) >>
      [] b.kind = "redacted_thinking" ->
             << Item("reasoning", 0,
                     encodeCompactGateState("anthropic_redacted_thinking", b.n, TRUE)) >>
      [] b.kind = "tool_use" -> << Item("function_call", b.n, NoState) >>
      [] OTHER -> << >>

anthropicMessageToResponses(content, stop) ==
    [output |-> FlatMap(BlockToItem, content),
     status |-> IF stop = "max_tokens" THEN "incomplete" ELSE "completed"]

\* The last readable compaction block is the summary; 0 is the failure.
anthropicMessageToResponsesCompaction(content) ==
    FoldLeft(LAMBDA current, b : IF b.kind = "compaction" /\ b.n > 0 THEN b.n ELSE current,
             0, content)

\* chatCompletionToResponses: the text comes first, then the calls.
chatCompletionToResponses(text, calls, finish) ==
    [output |-> (IF text > 0 THEN << Item("message", text, NoState) >> ELSE << >>)
                \o [k \in DOMAIN calls |-> Item("function_call", calls[k], NoState)],
     status |-> IF finish \in {"length", "content_filter"} THEN "incomplete" ELSE "completed",
     reason |-> CASE finish = "length" -> "max_output_tokens"
                  [] finish = "content_filter" -> "content_filter"
                  [] OTHER -> "none"]

\* A summary becomes a thinking block signed with the whole item, encrypted
\* content alone a redacted block, neither of them nothing.
openAiReasoningToAnthropic(item) ==
    LET state == encodeCompactGateState("openai_reasoning", item.n, item.state # NoState)
    IN  CASE item.n > 0 -> << Block("thinking", item.n, state) >>
          [] item.n = 0 /\ item.state # NoState -> << Block("redacted_thinking", 0, state) >>
          [] OTHER -> << >>

openAiOutputItemToAnthropic(item) ==
    CASE item.kind = "message" -> << Block("text", item.n, NoState) >>
      [] item.kind \in {"function_call", "custom_tool_call"} ->
             << Block("tool_use", item.n, NoState) >>
      [] item.kind = "reasoning" -> openAiReasoningToAnthropic(item)

\* A filtered answer is a refusal even when it calls a tool.
openAiStopReason(r) ==
    CASE r.reason = "max_output_tokens" -> "max_tokens"
      [] r.reason = "content_filter" -> "refusal"
      [] OTHER -> IF \E k \in DOMAIN r.output : r.output[k].kind = "function_call"
                  THEN "tool_use" ELSE "end_turn"

openAiResponseToAnthropic(r) ==
    [content |-> FlatMap(openAiOutputItemToAnthropic, r.output),
     stop |-> openAiStopReason(r)]

--------------------------------------------------------------------------
\* The next request.  Refused stands for the ProtocolConversionError.

Refused == << [refused |-> TRUE] >>

Said(kind, role, content, state) ==
    [kind |-> kind, role |-> role, content |-> content, state |-> state]

\* pushAnthropicMessage: neighbours of one role become one message.
pushAnthropicMessage(messages, role, content) ==
    IF content = << >> THEN messages
    ELSE IF messages # << >> /\ messages[Len(messages)].role = role
    THEN [messages EXCEPT ![Len(messages)].content = @ \o content]
    ELSE Append(messages, [role |-> role, content |-> content])

\* A reasoning item has to carry back the state CompactGate gave it.
reasoningItemToAnthropic(item) ==
    CASE item.state.kind = "anthropic_thinking" ->
             << Block("thinking", item.state.n,
                      IF item.state.sealed THEN ProviderState ELSE NoState) >>
      [] item.state.kind = "anthropic_redacted_thinking" ->
             << Block("redacted_thinking", item.state.n, ProviderState) >>
      [] OTHER -> Refused

responsesInputToAnthropicMessages(items) ==
    LET Push(messages, item) ==
            CASE item.kind = "message" ->
                     pushAnthropicMessage(messages,
                         IF item.role = "assistant" THEN "assistant" ELSE "user",
                         [k \in DOMAIN item.content |-> Block("text", item.content[k], NoState)])
              [] item.kind \in {"function_call", "custom_tool_call"} ->
                     pushAnthropicMessage(messages, "assistant",
                         << Block("tool_use", item.content[1], NoState) >>)
              [] item.kind = "function_call_output" ->
                     pushAnthropicMessage(messages, "user",
                         << Block("tool_result", item.content[1], NoState) >>)
              [] item.kind = "reasoning" ->
                     IF reasoningItemToAnthropic(item) = Refused THEN Refused
                     ELSE pushAnthropicMessage(messages, "assistant",
                                               reasoningItemToAnthropic(item))
              [] item.kind = "compaction" ->
                     IF item.state.kind # "compaction_summary" THEN Refused
                     ELSE pushAnthropicMessage(messages, "assistant",
                              << Block("compaction", item.state.n, NoState) >>)
              [] OTHER -> Refused
    IN  FoldLeft(LAMBDA m, item : IF m = Refused THEN m ELSE Push(m, item), << >>, items)

\* anthropicThinkingBlockToResponses: only reasoning packed by CompactGate.
anthropicThinkingBlockToResponses(b) ==
    IF b.state.kind # "openai_reasoning" THEN Refused
    ELSE << Said("reasoning", "assistant",
                 << IF b.kind = "thinking" /\ b.n > 0 THEN b.n ELSE b.state.n >>,
                 IF b.state.sealed THEN ProviderState ELSE NoState) >>

\* Consecutive texts of a message become one item; anything else ends it.
\* A compaction block is one again only for an upstream that compacts.
appendAnthropicMessageToResponses(input, message, includeCompaction) ==
    LET Flush(s) == IF s.texts = << >> THEN s
                    ELSE [s EXCEPT !.input = Append(@,
                             Said("message", message.role, s.texts, NoState)),
                                   !.texts = << >>]
        Push(s, b) ==
            IF s.input = Refused THEN s
            ELSE IF b.kind = "text" THEN [s EXCEPT !.texts = Append(@, b.n)]
            ELSE LET told == CASE b.kind = "tool_use" ->
                                      << Said("function_call", "assistant", << b.n >>, NoState) >>
                               [] b.kind = "tool_result" ->
                                      << Said("function_call_output", "user", << b.n >>, NoState) >>
                               [] b.kind \in {"thinking", "redacted_thinking"} ->
                                      anthropicThinkingBlockToResponses(b)
                               [] b.kind = "compaction" ->
                                      << IF includeCompaction
                                         THEN Said("compaction", "assistant", << 0 >>,
                                                encodeCompactGateState("compaction_summary",
                                                                       b.n, TRUE))
                                         ELSE Said("message", "assistant", << b.n >>, NoState) >>
                               [] OTHER -> Refused
                     t == Flush(s)
                 IN  [t EXCEPT !.input = IF told = Refused THEN Refused ELSE @ \o told]
        ended == FoldLeft(Push, [input |-> input, texts |-> << >>], message.content)
    IN  IF ended.input = Refused THEN Refused ELSE Flush(ended).input

anthropicMessagesToResponsesInput(messages, includeCompaction) ==
    FoldLeft(LAMBDA input, m : IF input = Refused THEN input
                               ELSE appendAnthropicMessageToResponses(input, m, includeCompaction),
             << >>, messages)

\* appendChatToolCall: a call joins the assistant message before it.
appendChatToolCall(messages, n) ==
    IF messages # << >> /\ messages[Len(messages)].role = "assistant"
    THEN [messages EXCEPT ![Len(messages)].calls = Append(@, n)]
    ELSE Append(messages, [role |-> "assistant", text |-> 0, calls |-> << n >>])

SumOf(list) == FoldLeft(LAMBDA a, b : a + b, 0, list)

\* Reasoning and compaction have no place in Chat: they are dropped.
responsesInputToChatMessages(items) ==
    LET Push(messages, item) ==
            CASE item.kind = "message" ->
                     Append(messages, [role |-> item.role, text |-> SumOf(item.content),
                                       calls |-> << >>])
              [] item.kind \in {"function_call", "custom_tool_call"} ->
                     appendChatToolCall(messages, item.content[1])
              [] item.kind = "function_call_output" ->
                     Append(messages, [role |-> "tool", text |-> item.content[1],
                                       calls |-> << >>])
              [] OTHER -> messages
    IN  FoldLeft(Push, << >>, items)
==========================================================================
