--------------------------- MODULE UpstreamAnswer ---------------------------
(***************************************************************************)
(* What a client is promised of the answer to its request: one head at the *)
(* most, then a body that is completed or visibly broken off; and that the *)
(* upstream is not asked again once anything was sent.                     *)
(***************************************************************************)
EXTENDS Integers

VARIABLES
    answer,     \* what the client has got
    asked       \* how often the upstream was asked

answerVars == <<answer, asked>>

Init == answer = "none" /\ asked = 0

Ask ==
    /\ answer = "none"
    /\ asked' = asked + 1 /\ UNCHANGED answer

\* A head, for a body to follow or together with all of it.
Head ==
    /\ answer = "none" /\ answer' \in {"streaming", "complete"}
    /\ UNCHANGED asked

Complete ==
    /\ answer = "streaming" /\ answer' = "complete"
    /\ UNCHANGED asked

\* The connection ends early: by the client, or by the proxy giving up.
Break ==
    /\ answer # "broken" /\ answer' = "broken"
    /\ UNCHANGED asked

Next == Ask \/ Head \/ Complete \/ Break

Spec == Init /\ [][Next]_answerVars
=============================================================================
