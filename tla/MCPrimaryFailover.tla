------------------------ MODULE MCPrimaryFailover ------------------------
(***************************************************************************)
(* Instances of PrimaryFailover: profile A with two keys a1 and a2, and    *)
(* profile B with the single key b.                                        *)
(***************************************************************************)
EXTENDS PrimaryFailover, TLC

CONSTANTS a1, a2, b, A, B, s1, s2, m1, k1

MCCandidate == {a1, a2, b}
MCProfile == {A, B}
MCProfileOf == (a1 :> A) @@ (a2 :> A) @@ (b :> B)
MCProfileIndex == (A :> 0) @@ (B :> 1)
MCKeyIndex == (a1 :> 0) @@ (a2 :> 1) @@ (b :> 0)
MCSignature == {s1, s2}

Base ==
    [sig |-> (a1 :> s1) @@ (a2 :> Absent) @@ (b :> s1),
     active |-> A, auto |-> TRUE, optOut |-> {}, spread |-> {},
     priority |-> [c \in MCCandidate |-> 0]]

\* a1's credential is rotated.
Rotated == [Base EXCEPT !.sig[a1] = s2]

\* a1 is disabled; only B is left to serve.
Disabled == [Base EXCEPT !.sig[a1] = Absent]

\* Nothing but a1 to turn to.
Alone(c) == [c EXCEPT !.sig[b] = Absent]

Applied == [Base EXCEPT !.active = B]

\* A pools two keys that share its slot, a2 with the lower priority.
Pool == [Base EXCEPT !.sig[a2] = s1, !.spread = {A}, !.priority[a1] = 1]

\* The same, and B opts out of rotation; with B applied; with rotation off.
Bound == [Pool EXCEPT !.optOut = {B}]
BoundApplied == [Bound EXCEPT !.active = B]
Manual == [Bound EXCEPT !.auto = FALSE]

\* The last codex profile is gone.
Empty == [Base EXCEPT !.active = NoProfile]

EditConfigs == {Alone(Base), Alone(Rotated), Disabled, Empty}
ApplyConfigs == {Base, Applied}
PoolConfigs == {Pool, Bound, BoundApplied, Manual}

NoAffinity == [k \in Kind |-> NoKey]
InSession == [NoAffinity EXCEPT !["session"] = k1]
Continuing == [NoAffinity EXCEPT !["continuation"] = k1]
Compacted == [InSession EXCEPT !["compaction"] = k1]

EditContexts == {InSession}
PoolContexts == {InSession}

Slots == Permutations(Request)
==========================================================================
