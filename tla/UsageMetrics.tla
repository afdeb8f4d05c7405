--------------------------- MODULE UsageMetrics ---------------------------
(***************************************************************************)
(* Token usage: the two dialects it is reported in, the translation of one *)
(* into the other (src/server/protocol-conversion.ts), the metrics the log *)
(* keeps (usage-record.ts) and how the reports of one stream are merged    *)
(* (usage-merge.ts).                                                       *)
(*                                                                         *)
(* OpenAI counts what was cached inside `input`; Anthropic's `fresh` input *)
(* does not include what was read from or written to the cache.  Null is a *)
(* counter the report leaves out.  Cached output and reasoning tokens, for *)
(* which the code repeats the same rules, are left out.                    *)
(***************************************************************************)
EXTENDS Integers, Sequences, SequencesExt

Null == -1
OrZero(x) == IF x = Null THEN 0 ELSE x

NoUsage == [given |-> FALSE]
AnthropicUsage(f, r, w, o) == [fresh |-> f, read |-> r, written |-> w, output |-> o]
OpenAiUsage(i, c, w, o) == [input |-> i, cached |-> c, written |-> w, output |-> o]

anthropicUsageToResponses(u) ==
    LET read == OrZero(u.read)
        written == OrZero(u.written)
    IN  OpenAiUsage(OrZero(u.fresh) + read + written,
                    IF read + written > 0 THEN read ELSE Null,
                    IF written > 0 THEN written ELSE Null,
                    OrZero(u.output))

openAiUsageToAnthropic(u) ==
    IF u = NoUsage THEN AnthropicUsage(0, Null, Null, 0)
    ELSE LET fresh == OrZero(u.input) - OrZero(u.cached) - OrZero(u.written)
         IN  AnthropicUsage(IF fresh > 0 THEN fresh ELSE 0, u.cached, u.written,
                            OrZero(u.output))

--------------------------------------------------------------------------
NoMetrics == [measured |-> FALSE]

sumNullable(list) ==
    IF \A k \in DOMAIN list : list[k] = Null THEN Null
    ELSE FoldLeft(LAMBDA sum, x : sum + OrZero(x), 0, list)

\* What the counters add up to at least: an additive cache is on top.
usageTotalFloor(m) ==
    IF m.input = Null /\ m.output = Null /\ m.cached = Null THEN Null
    ELSE OrZero(m.input) + OrZero(m.output) + (IF m.additive THEN OrZero(m.cached) ELSE 0)

Totalled(m) == [m EXCEPT !.total = usageTotalFloor(m)]

\* normalizeUsageRecord: only the Anthropic cache counters are additive.
normalizeAnthropic(u) ==
    LET cached == sumNullable(<< u.read, u.written >>)
    IN  Totalled([input |-> u.fresh, output |-> u.output, cached |-> cached, read |-> u.read,
                  creation |-> u.written, additive |-> cached # Null, total |-> Null])

normalizeOpenAi(u) ==
    Totalled([input |-> u.input, output |-> u.output, cached |-> u.cached, read |-> Null,
              creation |-> u.written, additive |-> FALSE, total |-> Null])

--------------------------------------------------------------------------
\* The counters are cumulative: the newest wins, unless it is a zero.
mergeRequestScopedTokens(old, new) ==
    IF new = Null THEN old
    ELSE IF old # Null /\ new = 0 /\ old > 0 THEN old ELSE new

\* A relay may report the rest of the prompt as if it had been cached, too.
Collapsed(old, new, was, is, rest) ==
    rest > 0 /\ new.input = 0 /\ old.additive /\ new.additive /\ is = was + rest

mergeCacheReadInputTokens(old, new) ==
    IF old.read # Null /\ new.read # Null
       /\ Collapsed(old, new, old.read, new.read, OrZero(old.input) + OrZero(old.creation))
    THEN old.read ELSE mergeRequestScopedTokens(old.read, new.read)

mergeCachedInputTokens(old, new) ==
    IF old.cached # Null /\ new.cached # Null
       /\ Collapsed(old, new, old.cached, new.cached, OrZero(old.input))
    THEN old.cached ELSE mergeRequestScopedTokens(old.cached, new.cached)

pickUsableTotal(new, old, floor) ==
    CASE floor = Null -> IF new # Null THEN new ELSE old
      [] new # Null /\ new >= floor -> new
      [] old # Null /\ old >= floor -> old
      [] OTHER -> Null

mergeUsage(old, new) ==
    IF old = NoMetrics THEN new
    ELSE LET read == mergeCacheReadInputTokens(old, new)
             creation == mergeRequestScopedTokens(old.creation, new.creation)
             additive == new.additive \/ old.additive
             summed == sumNullable(<< read, creation >>)
             merged == [input |-> mergeRequestScopedTokens(old.input, new.input),
                        output |-> mergeRequestScopedTokens(old.output, new.output),
                        cached |-> IF additive /\ summed # Null THEN summed
                                   ELSE mergeCachedInputTokens(old, new),
                        read |-> read, creation |-> creation, additive |-> additive,
                        total |-> Null]
             total == pickUsableTotal(new.total, old.total, usageTotalFloor(merged))
         IN  [merged EXCEPT !.total = IF total = Null THEN usageTotalFloor(merged) ELSE total]

\* The prompt the metrics amount to, whichever dialect they came in.
Prompt(m) == OrZero(m.input) + (IF m.additive THEN OrZero(m.cached) ELSE 0)
==========================================================================
