--------------------------- MODULE StreamStage ---------------------------
(***************************************************************************)
(* What the SSE translators of src/server/protocol-stream.ts share.  A     *)
(* translator is a record that changes as frames are fed to it; `out` is   *)
(* what it has pushed and the next stage has not read, `torn` says that it *)
(* threw: the Transform is destroyed and nothing more comes out of it.     *)
(*                                                                         *)
(* A frame is a record with a `type`.  Text, arguments and summaries are   *)
(* counted in fragments: `n` fragments, never the characters.              *)
(***************************************************************************)
EXTENDS Naturals, Sequences, FiniteSets, SequencesExt

CONSTANT None \* an index, id or name that a chunk does not carry

\* An opaque payload: a provider's own encrypted content or signature, or the
\* state CompactGate packs into one (encodeCompactGateState) to have it back in
\* the next request: whose reasoning it was, its length, and whether it was
\* itself sealed.
NoState == [kind |-> "none", n |-> 0, sealed |-> FALSE]
ProviderState == [kind |-> "provider", n |-> 0, sealed |-> TRUE]
encodeCompactGateState(kind, n, sealed) == [kind |-> kind, n |-> n, sealed |-> sealed]

\* An item of a Responses answer; a tool call may lack its call_id or its name.
Item(kind, n, state) == [kind |-> kind, n |-> n, state |-> state, named |-> TRUE]

Emit(s, frame) == [s EXCEPT !.out = Append(@, frame)]

Throw(s) == [s EXCEPT !.torn = TRUE]

\* The frames a list of steps emits, one step after the other.
Then(s, Op(_, _), list) ==
    FoldLeft(LAMBDA t, x : IF t.torn THEN t ELSE Op(t, x), s, list)

\* convertFrame of createSseTransform: a frame whose payload is not a JSON
\* object is skipped by every translator.
Junk == [type |-> "junk"]

Feed(s, Convert(_, _), frame) ==
    IF s.torn \/ frame = Junk THEN s ELSE Convert(s, frame)

\* Every frame waiting in `frames`, in order.
FeedAll(s, Convert(_, _), frames) ==
    FoldLeft(LAMBDA t, f : Feed(t, Convert, f), s, frames)

\* The end of the input: the translator's own closing event, unless it threw.
Close(s, Flush(_)) == IF s.torn THEN s ELSE Flush(s)

Taken(s) == [s EXCEPT !.out = << >>]

\* The values of a sparse array in the order of its indices.
Dense(f) == [k \in 1..Cardinality(DOMAIN f) |->
                f[SetToSortSeq(DOMAIN f, LAMBDA a, b : a < b)[k]]]

\* An entry of a map, set.
Put(f, k, v) == [x \in DOMAIN f \union {k} |-> IF x = k THEN v ELSE f[x]]

Without(f, k) == [x \in DOMAIN f \ {k} |-> f[x]]

Larger(a, b) == IF a > b THEN a ELSE b
==========================================================================
