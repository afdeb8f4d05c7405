---------------------------- MODULE StudioProofs ----------------------------
(***************************************************************************)
(* Proofs about the parts of Studio, for any number of pages, requests,    *)
(* configurations and client families.  Each part has an inductive         *)
(* invariant of its own (see GatewayProofs).                               *)
(***************************************************************************)
EXTENDS Studio, LogFeedProofs

-----------------------------------------------------------------------------
(* ClientIdentity *)

Agent == UserAgent \cup {FactoryAgent, Blank}
Moment == Nat \cup {Absent}
Release == PublishedRelease \cup {Absent}
SourceState == [agent : Agent, manual : BOOLEAN, success : Moment, attempt : Moment,
                rewritten : Nat]
KindState == [extracted : SourceState, version_tracked : SourceState, preferred : Source,
              release : Release, releaseAt : Moment]
IdentityState == [enabled : BOOLEAN, of : [Kind -> KindState]]

ObserveWrite == [op : {"observe"}, kind : Kind, agent : UserAgent, day : Nat, at : Nat]
UpdateWrite == [op : {"update"}, kind : Kind, patch : Patch]
RefreshWrite == [op : {"refresh"}, kind : Kind, source : SourceState, at : Nat, day : Nat,
                 release : Release]
IdentityWrite == ObserveWrite \cup UpdateWrite \cup RefreshWrite

\* Nobody refreshes a source the operator typed.
OfTheBackground(w) == w.op = "refresh" => ~w.source.manual

\* What the operator typed is in a state, and marked as his.
HoldsTyped(state, typed) ==
  \A kind \in Kind, source \in Source :
    typed[kind][source] # Automatic =>
      /\ state.of[kind][source].manual
      /\ state.of[kind][source].agent = typed[kind][source]

\* One source of a state is replaced, and nothing else.
Replaces(after, state, kind, source, next) ==
  /\ after \in IdentityState
  /\ after.enabled = state.enabled
  /\ \A k \in Kind, s \in Source :
       (k # kind \/ s # source) => after.of[k][s] = state.of[k][s]
  /\ after.of[kind][source].manual = next.manual
  /\ after.of[kind][source].agent = next.agent

LEMMA SourceReplaced ==
  ASSUME NEW state \in IdentityState, NEW kind \in Kind, NEW source \in Source,
         NEW next \in SourceState
  PROVE  Replaces(withSource(state, kind, source, next), state, kind, source, next)
<1> DEFINE put == [next EXCEPT !.rewritten = @ + 1]
           kindState == [state.of[kind] EXCEPT ![source] = put]
           after == withSource(state, kind, source, next)
<1>1. put \in SourceState /\ put.manual = next.manual /\ put.agent = next.agent
  BY DEF SourceState
<1>2. state.of \in [Kind -> KindState] /\ state.of[kind] \in KindState
  BY DEF IdentityState
<1>3. /\ kindState \in KindState /\ kindState[source] = put
      /\ \A s \in Source : s # source => kindState[s] = state.of[kind][s]
  <2> HIDE DEF put
  <2>1. CASE source = "extracted" BY <1>1, <1>2, <2>1 DEF KindState, Source
  <2>2. CASE source = "version_tracked" BY <1>1, <1>2, <2>2 DEF KindState, Source
  <2> QED BY <2>1, <2>2 DEF Source
<1>4. after = [state EXCEPT !.of = [state.of EXCEPT ![kind] = kindState]]
  BY <1>2 DEF withSource, IdentityState
<1> HIDE DEF put, kindState, after
<1>5. /\ after \in IdentityState /\ after.enabled = state.enabled
      /\ after.of = [state.of EXCEPT ![kind] = kindState]
  BY <1>2, <1>3, <1>4 DEF IdentityState
<1> QED BY <1>1, <1>2, <1>3, <1>5 DEF after, Replaces

LEMMA PatchHeld ==
  ASSUME NEW state \in IdentityState, NEW kind \in Kind, NEW source \in Source,
         NEW typed \in [Kind -> [Source -> UserAgent \cup {Absent, Automatic, Blank}]],
         NEW value \in UserAgent \cup {Absent, Automatic, Blank},
         HoldsTyped(state, typed)
  PROVE  LET after == applyManualPatch(state, kind, source, value)
         IN /\ after \in IdentityState
            /\ HoldsTyped(after, [typed EXCEPT ![kind][source] =
                                    IF value = Absent THEN @ ELSE value])
<1> DEFINE after == applyManualPatch(state, kind, source, value)
           next == [typed EXCEPT ![kind][source] = IF value = Absent THEN @ ELSE value]
           old == state.of[kind][source]
<1> HIDE DEF after, next
<1>1. old \in SourceState
  BY DEF IdentityState, KindState, Source
<1>2. /\ \A k \in Kind, s \in Source : (k # kind \/ s # source) => next[k][s] = typed[k][s]
      /\ next[kind][source] = IF value = Absent THEN typed[kind][source] ELSE value
  BY DEF next
<1>3. CASE value = Absent
  <2>1. after = state BY <1>3, AbsentAssumption DEF after, applyManualPatch
  <2>2. \A k \in Kind, s \in Source : next[k][s] = typed[k][s] BY <1>2, <1>3
  <2> QED BY <2>1, <2>2 DEF HoldsTyped, after, next
<1>4. CASE value = Automatic
  <2> DEFINE background == [old EXCEPT !.manual = FALSE]
  <2>1. background \in SourceState BY <1>1 DEF SourceState
  <2>2. after = withSource(state, kind, source, background)
    BY <1>4, AbsentAssumption DEF after, applyManualPatch
  <2> HIDE DEF background
  <2>3. /\ after \in IdentityState
        /\ \A k \in Kind, s \in Source :
             (k # kind \/ s # source) => after.of[k][s] = state.of[k][s]
    BY <2>1, <2>2, SourceReplaced DEF Replaces
  <2>4. next[kind][source] = Automatic BY <1>2, <1>4, AbsentAssumption
  <2> QED BY <1>2, <2>3, <2>4 DEF HoldsTyped, after, next
<1>5. CASE value \notin {Absent, Automatic}
  <2> DEFINE given == Sourced(value, TRUE, old.success, old.attempt, old.rewritten)
  <2>1. given \in SourceState /\ given.manual /\ given.agent = value
    BY <1>1, <1>5 DEF SourceState, Sourced, Agent
  <2>2. after = withSource(state, kind, source, given)
    BY <1>5 DEF after, applyManualPatch
  <2> HIDE DEF given
  <2>3. /\ after \in IdentityState
        /\ \A k \in Kind, s \in Source :
             (k # kind \/ s # source) => after.of[k][s] = state.of[k][s]
        /\ after.of[kind][source].manual = given.manual
        /\ after.of[kind][source].agent = given.agent
    <3>1. Replaces(after, state, kind, source, given) BY <2>1, <2>2, SourceReplaced
    <3> QED BY <3>1 DEF Replaces
  <2>4. next[kind][source] = value BY <1>2, <1>5
  <2>5. ASSUME NEW k \in Kind, NEW s \in Source, next[k][s] # Automatic
        PROVE  after.of[k][s].manual /\ after.of[k][s].agent = next[k][s]
    <3>1. CASE k = kind /\ s = source BY <2>1, <2>3, <2>4, <3>1
    <3>2. CASE k # kind \/ s # source
      <4>1. next[k][s] = typed[k][s] /\ after.of[k][s] = state.of[k][s] BY <1>2, <2>3, <3>2
      <4> QED BY <2>5, <4>1 DEF HoldsTyped
    <3> QED BY <3>1, <3>2
  <2> QED BY <2>3, <2>5 DEF HoldsTyped, after, next
<1> QED BY <1>3, <1>4, <1>5

\* What a write does to the state it is applied to: what the operator typed before
\* stays, and what he types now is there.
LEMMA AppliedHolds ==
  ASSUME NEW state \in IdentityState, NEW w \in IdentityWrite, OfTheBackground(w),
         ~LeavesAlone(w, state),
         wanted \in [Kind -> [Source -> UserAgent \cup {Absent, Automatic, Blank}]],
         HoldsTyped(state, wanted)
  PROVE  /\ Applied(w, state) \in IdentityState
         /\ HoldsTyped(Applied(w, state), WantedBy(w))
<1>1. CASE w \in ObserveWrite
  <2> DEFINE current == state.of[w.kind].extracted
             seen == AsObserved(current, w.agent, w.day, w.at)
  <2>1. w.op = "observe" /\ w.kind \in Kind /\ w.agent \in UserAgent /\ w.day \in Nat /\ w.at \in Nat
    BY <1>1 DEF ObserveWrite
  <2>2. current \in SourceState BY <2>1 DEF IdentityState, KindState
  <2>3. seen \in SourceState
    BY <2>1, <2>2 DEF SourceState, AsObserved, Sourced, Agent, Moment
  <2>4. ~state.of[w.kind]["extracted"].manual
    BY <2>1 DEF LeavesAlone, OwesObservation
  <2>5. Applied(w, state) = withSource(state, w.kind, "extracted", seen)
    BY <2>1 DEF Applied, Recorded
  <2> HIDE DEF current, seen
  <2>6. /\ Applied(w, state) \in IdentityState
        /\ \A k \in Kind, s \in Source :
             (k # w.kind \/ s # "extracted") => Applied(w, state).of[k][s] = state.of[k][s]
    BY <2>1, <2>3, <2>5, SourceReplaced DEF Source, Replaces
  <2>7. WantedBy(w) = wanted BY <2>1 DEF WantedBy
  <2> QED BY <2>4, <2>6, <2>7 DEF HoldsTyped
<1>2. CASE w \in UpdateWrite
  <2> DEFINE patch == w.patch
             turned == [state EXCEPT !.enabled = IF patch.enabled = Absent THEN @ ELSE patch.enabled]
             prefers == [turned EXCEPT !.of[w.kind].preferred =
                           IF patch.preferred = Absent THEN @ ELSE patch.preferred]
             first == applyManualPatch(prefers, w.kind, "extracted", patch.extracted)
             typed == [wanted EXCEPT ![w.kind]["extracted"] =
                         IF patch.extracted = Absent THEN @ ELSE patch.extracted]
             last == applyManualPatch(first, w.kind, "version_tracked", patch.version_tracked)
             all == [typed EXCEPT ![w.kind]["version_tracked"] =
                         IF patch.version_tracked = Absent THEN @ ELSE patch.version_tracked]
  <2>1. w.op = "update" /\ w.kind \in Kind /\ patch \in Patch BY <1>2 DEF UpdateWrite
  <2>2. turned \in IdentityState /\ turned.of = state.of
    BY <2>1 DEF Patch, IdentityState
  <2>3. /\ prefers \in IdentityState
        /\ \A k \in Kind, s \in Source : prefers.of[k][s] = state.of[k][s]
    <3> DEFINE kindState == [turned.of[w.kind] EXCEPT !.preferred =
                               IF patch.preferred = Absent THEN @ ELSE patch.preferred]
    <3>1. turned.of \in [Kind -> KindState] /\ turned.of[w.kind] \in KindState
      BY <2>1, <2>2 DEF IdentityState
    <3>2. kindState \in KindState /\ \A s \in Source : kindState[s] = turned.of[w.kind][s]
      <4> HIDE DEF turned
      <4> QED BY <2>1, <3>1 DEF KindState, Patch, Source
    <3>3. prefers = [turned EXCEPT !.of = [turned.of EXCEPT ![w.kind] = kindState]]
      BY <2>1, <3>1
    <3> HIDE DEF turned, kindState, prefers
    <3>4. prefers \in IdentityState /\ prefers.of = [turned.of EXCEPT ![w.kind] = kindState]
      BY <2>2, <3>1, <3>2, <3>3 DEF IdentityState
    <3> QED BY <2>1, <2>2, <3>1, <3>2, <3>4
  <2>4. /\ patch.extracted \in UserAgent \cup {Absent, Automatic, Blank}
        /\ patch.version_tracked \in UserAgent \cup {Absent, Automatic, Blank}
    BY <2>1 DEF Patch
  <2> HIDE DEF turned, prefers
  <2>5. HoldsTyped(prefers, wanted) BY <2>3 DEF HoldsTyped
  <2>6. first \in IdentityState /\ HoldsTyped(first, typed)
    BY <2>1, <2>3, <2>4, <2>5, PatchHeld DEF Source
  <2>7. typed \in [Kind -> [Source -> UserAgent \cup {Absent, Automatic, Blank}]]
    BY <2>1, <2>4 DEF Source
  <2>8. last \in IdentityState /\ HoldsTyped(last, all)
    <3> HIDE DEF first, typed
    <3> QED BY <2>1, <2>4, <2>6, <2>7, PatchHeld DEF Source
  <2>9. Applied(w, state) = last
    BY <2>1 DEF Applied, Patched, turned, prefers
  <2>10. WantedBy(w) = all
    <3>1. WantedBy(w) = [wanted EXCEPT ![w.kind] =
             [s \in Source |-> IF patch[s] = Absent THEN @[s] ELSE patch[s]]]
      BY <2>1 DEF WantedBy
    <3>2. /\ patch["extracted"] = patch.extracted
          /\ patch["version_tracked"] = patch.version_tracked
      OBVIOUS
    <3>3. WantedBy(w) \in [Kind -> [Source -> UserAgent \cup {Absent, Automatic, Blank}]]
      BY <2>1, <2>4, <3>1, <3>2 DEF Source
    <3>4. all \in [Kind -> [Source -> UserAgent \cup {Absent, Automatic, Blank}]]
      <4> HIDE DEF typed
      <4> QED BY <2>1, <2>4, <2>7 DEF Source
    <3>5. ASSUME NEW k \in Kind, NEW s \in Source PROVE WantedBy(w)[k][s] = all[k][s]
      <4>1. CASE k # w.kind BY <2>1, <3>1, <4>1
      <4>2. CASE k = w.kind /\ s = "extracted" BY <2>1, <3>1, <3>2, <4>2 DEF Source
      <4>3. CASE k = w.kind /\ s = "version_tracked" BY <2>1, <3>1, <3>2, <4>3 DEF Source
      <4> QED BY <4>1, <4>2, <4>3 DEF Source
    <3> HIDE DEF all
    <3>6. ASSUME NEW k \in Kind PROVE WantedBy(w)[k] = all[k] BY <3>3, <3>4, <3>5
    <3> QED BY <3>3, <3>4, <3>6
  <2> QED BY <2>8, <2>9, <2>10
<1>3. CASE w \in RefreshWrite
  <2> DEFINE mark == w.source
             failed == [mark EXCEPT !.attempt = w.at]
             served == [mark EXCEPT !.attempt = w.at, !.success = w.day]
             lost == withSource(state, w.kind, "version_tracked", failed)
             renewed == withSource(state, w.kind, "version_tracked", served)
             released == [renewed EXCEPT !.of[w.kind].release = w.release,
                                       !.of[w.kind].releaseAt = w.at]
  <2>1. /\ w.op = "refresh" /\ w.kind \in Kind /\ mark \in SourceState
        /\ w.at \in Nat /\ w.day \in Nat /\ w.release \in Release
    BY <1>3 DEF RefreshWrite
  <2>2. failed \in SourceState /\ served \in SourceState
    BY <2>1 DEF SourceState, Moment
  <2>3. mark = state.of[w.kind]["version_tracked"] /\ ~mark.manual
    BY <2>1 DEF LeavesAlone, OfTheBackground
  <2>4. wanted[w.kind]["version_tracked"] = Automatic
    BY <2>1, <2>3 DEF HoldsTyped, Source
  <2>5. WantedBy(w) = wanted BY <2>1 DEF WantedBy
  <2> HIDE DEF failed, served, mark
  <2>6. /\ lost \in IdentityState /\ renewed \in IdentityState
        /\ \A k \in Kind, s \in Source : (k # w.kind \/ s # "version_tracked") =>
             lost.of[k][s] = state.of[k][s] /\ renewed.of[k][s] = state.of[k][s]
    <3>1. Replaces(lost, state, w.kind, "version_tracked", failed)
      BY <2>1, <2>2, SourceReplaced DEF Source
    <3>2. Replaces(renewed, state, w.kind, "version_tracked", served)
      BY <2>1, <2>2, SourceReplaced DEF Source
    <3> HIDE DEF lost, renewed
    <3> QED BY <3>1, <3>2 DEF Replaces
  <2> HIDE DEF lost, renewed
  <2>7. /\ released \in IdentityState
        /\ \A k \in Kind, s \in Source : released.of[k][s] = renewed.of[k][s]
    <3> DEFINE kindState == [renewed.of[w.kind] EXCEPT !.release = w.release, !.releaseAt = w.at]
    <3>1. renewed.of \in [Kind -> KindState] /\ renewed.of[w.kind] \in KindState
      BY <2>1, <2>6 DEF IdentityState
    <3>2. kindState \in KindState /\ \A s \in Source : kindState[s] = renewed.of[w.kind][s]
      BY <2>1, <3>1 DEF KindState, Source, Moment
    <3>3. released = [renewed EXCEPT !.of = [renewed.of EXCEPT ![w.kind] = kindState]]
      BY <2>1, <2>6, <3>1 DEF IdentityState
    <3> HIDE DEF kindState, released
    <3>4. released \in IdentityState /\ released.of = [renewed.of EXCEPT ![w.kind] = kindState]
      BY <2>6, <3>1, <3>2, <3>3 DEF IdentityState
    <3> QED BY <2>1, <3>1, <3>2, <3>4
  <2>8. Applied(w, state) = IF w.release = Absent THEN lost ELSE released
    BY <2>1 DEF Applied, AfterRefresh, lost, renewed, failed, served, mark
  <2> HIDE DEF released
  <2> QED BY <2>4, <2>5, <2>6, <2>7, <2>8 DEF HoldsTyped
<1> QED BY <1>1, <1>2, <1>3 DEF IdentityWrite

LEMMA WantedTyped ==
  ASSUME NEW w \in IdentityWrite,
         wanted \in [Kind -> [Source -> UserAgent \cup {Absent, Automatic, Blank}]]
  PROVE  WantedBy(w) \in [Kind -> [Source -> UserAgent \cup {Absent, Automatic, Blank}]]
<1>1. CASE w.op # "update" BY <1>1 DEF WantedBy
<1>2. CASE w.op = "update"
  <2>1. w \in UpdateWrite BY <1>2 DEF IdentityWrite, ObserveWrite, RefreshWrite
  <2>2. w.kind \in Kind /\ \A s \in Source : w.patch[s] \in UserAgent \cup {Absent, Automatic, Blank}
    BY <2>1 DEF UpdateWrite, Patch, Source
  <2> QED BY <1>2, <2>2 DEF WantedBy
<1> QED BY <1>1, <1>2

\* Memory goes ahead of the file only by observations whose write is still due:
\* while there is one, the last write applied to it will bring the two together.
StillOwed(state, queue) ==
  \E i \in 1..Len(queue) :
    /\ queue[i].op = "observe"
    /\ OwesObservation(state.of[queue[i].kind].extracted, queue[i].day)

IdentityTypeOK ==
  /\ identity \in IdentityState /\ committed \in IdentityState
  /\ writes \in Seq(IdentityWrite)
  /\ refreshes \subseteq [kind : Kind, source : SourceState, at : Nat, force : BOOLEAN]
  /\ wanted \in [Kind -> [Source -> UserAgent \cup {Absent, Automatic, Blank}]]
  /\ clock \in Nat

\* The head of the queue writes what it makes of the file; nothing in the queue
\* refreshes a source that was typed when it was asked for.
IdentityInv ==
  /\ IdentityTypeOK
  /\ \A i \in 1..Len(writes) : OfTheBackground(writes[i])
  /\ \A r \in refreshes : ~r.source.manual
  /\ writing # Absent =>
       /\ writes # <<>> /\ ~LeavesAlone(Head(writes), committed)
       /\ writing = Applied(Head(writes), committed)
  /\ HoldsTyped(committed, wanted)
  /\ \A kind \in Kind, source \in Source :
       wanted[kind][source] # Automatic =>
         identity.of[kind][source] = committed.of[kind][source]
  /\ ~storeClosed => identity = committed \/ StillOwed(committed, writes)

LEMMA IdentityStarts == IdentityInit => IdentityInv
<1> SUFFICES ASSUME IdentityInit PROVE IdentityInv
  OBVIOUS
<1>1. factoryKindState \in KindState
  BY DEF factoryKindState, Sourced, KindState, SourceState, Source, Agent, Moment, Release
<1>2. factoryState \in IdentityState
  BY <1>1 DEF factoryState, IdentityState
<1> QED BY <1>2 DEF IdentityInit, IdentityInv, IdentityTypeOK, HoldsTyped

LEMMA QueueGrows ==
  ASSUME NEW w \in IdentityWrite, OfTheBackground(w), IdentityInv, Enqueue(w)
  PROVE  /\ writes' \in Seq(IdentityWrite)
         /\ Len(writes') = Len(writes) + 1 /\ writes'[Len(writes) + 1] = w
         /\ \A i \in 1..Len(writes) : writes'[i] = writes[i]
         /\ \A i \in 1..Len(writes') : OfTheBackground(writes'[i])
         /\ writes # <<>> => writes' # <<>> /\ Head(writes') = Head(writes)
         /\ \A state : StillOwed(state, writes) => StillOwed(state, writes')
<1> USE DEF Enqueue, IdentityInv, IdentityTypeOK
<1>1. /\ writes' \in Seq(IdentityWrite)
      /\ Len(writes') = Len(writes) + 1 /\ writes'[Len(writes) + 1] = w
      /\ \A i \in 1..Len(writes) : writes'[i] = writes[i]
  OBVIOUS
<1>2. \A i \in 1..Len(writes') : i \in 1..Len(writes) \/ i = Len(writes) + 1
  BY <1>1
<1>3. writes # <<>> => writes' # <<>> /\ Head(writes') = Head(writes)
  BY <1>1
<1>4. \A i \in 1..Len(writes) : i \in 1..Len(writes') BY <1>1
<1>5. ASSUME NEW state, StillOwed(state, writes) PROVE StillOwed(state, writes')
  BY <1>1, <1>4, <1>5 DEF StillOwed
<1> QED BY <1>1, <1>2, <1>3, <1>5

LEMMA QueueShrinks ==
  ASSUME IdentityInv, writes # <<>>, writes' = Tail(writes)
  PROVE  /\ Head(writes) \in IdentityWrite /\ OfTheBackground(Head(writes))
         /\ writes' \in Seq(IdentityWrite)
         /\ \A i \in 1..Len(writes') : OfTheBackground(writes'[i])
         /\ \A state : StillOwed(state, writes) =>
              \/ StillOwed(state, writes')
              \/ /\ Head(writes).op = "observe"
                 /\ OwesObservation(state.of[Head(writes).kind].extracted, Head(writes).day)
<1> USE DEF IdentityInv, IdentityTypeOK
<1>1. /\ Head(writes) = writes[1] /\ 1 \in 1..Len(writes) /\ writes[1] \in IdentityWrite
      /\ writes' \in Seq(IdentityWrite) /\ Len(writes') = Len(writes) - 1
      /\ \A i \in 1..Len(writes') : writes'[i] = writes[i + 1] /\ i + 1 \in 1..Len(writes)
  OBVIOUS
<1>2. ASSUME NEW state, StillOwed(state, writes), ~StillOwed(state, writes')
      PROVE  /\ Head(writes).op = "observe"
             /\ OwesObservation(state.of[Head(writes).kind].extracted, Head(writes).day)
  <2>1. PICK i \in 1..Len(writes) :
          /\ writes[i].op = "observe"
          /\ OwesObservation(state.of[writes[i].kind].extracted, writes[i].day)
    BY <1>2 DEF StillOwed
  <2>2. i = 1
    <3> SUFFICES ASSUME i # 1 PROVE FALSE
      OBVIOUS
    <3>1. i - 1 \in 1..Len(writes') /\ writes'[i - 1] = writes[i] BY <1>1
    <3> QED BY <1>2, <2>1, <3>1 DEF StillOwed
  <2> QED BY <1>1, <2>1, <2>2
<1> QED BY <1>1, <1>2

LEMMA IdentitySteps == IdentityInv /\ [IdentityNext]_identityVars => IdentityInv'
<1> SUFFICES ASSUME IdentityInv, [IdentityNext]_identityVars PROVE IdentityInv'
  OBVIOUS
<1>0. IdentityTypeOK BY DEF IdentityInv
<1>today. today \in Nat
  <2>1. \A n \in Nat, d \in Nat \ {0} : n \div d \in Nat
    OBVIOUS
  <2>2. clock \in Nat BY <1>0 DEF IdentityTypeOK
  <2> QED BY <2>1, <2>2, ClockAssumption DEF today
<1>1. ASSUME NEW kind \in Kind, NEW agent \in UserAgent, observeCliUserAgent(kind, agent)
      PROVE  IdentityInv'
  <2> DEFINE current == identity.of[kind].extracted
             seen == AsObserved(current, agent, today, clock)
             w == [op |-> "observe", kind |-> kind, agent |-> agent, day |-> today, at |-> clock]
  <2>2. current \in SourceState BY <1>0 DEF IdentityTypeOK, IdentityState, KindState
  <2>3. seen \in SourceState
    BY <1>0, <1>today, <2>2 DEF IdentityTypeOK, SourceState, AsObserved, Sourced, Agent, Moment
  <2>4. w \in IdentityWrite /\ OfTheBackground(w) /\ w.op = "observe" /\ w.kind = kind /\ w.day = today
    BY <1>0, <1>today DEF IdentityTypeOK, IdentityWrite, ObserveWrite, OfTheBackground
  <2>5. /\ identity' = withSource(identity, kind, "extracted", seen)
        /\ IF storeClosed THEN UNCHANGED writes ELSE Enqueue(w)
        /\ UNCHANGED <<committed, writing, refreshes, wanted, clock, storeClosed>>
        /\ OwesObservation(current, today)
    BY <1>1 DEF observeCliUserAgent, Persists
  <2> HIDE DEF seen, w
  <2>6. Replaces(identity', identity, kind, "extracted", seen)
    BY <1>0, <2>3, <2>5, SourceReplaced DEF IdentityTypeOK, Source
  <2>7. wanted[kind]["extracted"] = Automatic
    BY <2>5 DEF OwesObservation, IdentityInv, HoldsTyped, Source
  <2>8. \A k \in Kind, s \in Source :
          wanted'[k][s] # Automatic => identity'.of[k][s] = committed'.of[k][s]
    BY <2>5, <2>6, <2>7 DEF Replaces, IdentityInv
  <2>9. CASE storeClosed
    <3>1. UNCHANGED <<writes, committed, writing, refreshes, wanted, clock, storeClosed>>
      BY <2>5, <2>9
    <3>2. IdentityTypeOK' BY <1>0, <2>6, <3>1 DEF IdentityTypeOK, Replaces
    <3> QED BY <2>8, <2>9, <3>1, <3>2 DEF IdentityInv, HoldsTyped
  <2>10. CASE ~storeClosed
    <3>1. Enqueue(w) BY <2>5, <2>10
    <3>2. /\ writes' \in Seq(IdentityWrite)
          /\ Len(writes') = Len(writes) + 1 /\ writes'[Len(writes) + 1] = w
          /\ \A i \in 1..Len(writes') : OfTheBackground(writes'[i])
          /\ writes # <<>> => writes' # <<>> /\ Head(writes') = Head(writes)
          /\ \A state : StillOwed(state, writes) => StillOwed(state, writes')
      BY <2>4, <3>1, QueueGrows
    <3>3. IdentityTypeOK' BY <1>0, <2>5, <2>6, <3>2 DEF IdentityTypeOK, Replaces
    <3>4. StillOwed(committed, writes')
      <4>1. CASE identity = committed
        <5>1. Len(writes') \in 1..Len(writes') BY <1>0, <3>2 DEF IdentityTypeOK
        <5> QED BY <2>4, <2>5, <3>2, <4>1, <5>1 DEF StillOwed
      <4>2. CASE StillOwed(committed, writes) BY <3>2, <4>2
      <4> QED BY <2>10, <4>1, <4>2 DEF IdentityInv
    <3> QED BY <2>5, <2>8, <3>2, <3>3, <3>4 DEF IdentityInv, HoldsTyped
  <2> QED BY <2>9, <2>10
<1>2. ASSUME NEW kind \in Kind, update(kind) PROVE IdentityInv'
  <2>1. PICK patch \in Patch : Enqueue([op |-> "update", kind |-> kind, patch |-> patch])
    BY <1>2 DEF update
  <2> DEFINE w == [op |-> "update", kind |-> kind, patch |-> patch]
  <2>2. w \in IdentityWrite /\ OfTheBackground(w)
    BY DEF IdentityWrite, UpdateWrite, OfTheBackground
  <2>3. UNCHANGED <<identity, committed, writing, refreshes, wanted, clock, storeClosed>>
    BY <1>2 DEF update
  <2> HIDE DEF w
  <2>4. /\ writes' \in Seq(IdentityWrite)
        /\ \A i \in 1..Len(writes') : OfTheBackground(writes'[i])
        /\ writes # <<>> => writes' # <<>> /\ Head(writes') = Head(writes)
        /\ \A state : StillOwed(state, writes) => StillOwed(state, writes')
    BY <2>1, <2>2, QueueGrows DEF w
  <2> QED BY <2>3, <2>4 DEF IdentityInv, IdentityTypeOK, HoldsTyped
<1>3. ASSUME NEW kind \in Kind, NEW force \in BOOLEAN, refreshVersionTracked(kind, force)
      PROVE  IdentityInv'
  <2> DEFINE asking == [kind |-> kind, source |-> identity.of[kind].version_tracked,
                        at |-> clock, force |-> force]
  <2>1. /\ refreshes' = refreshes \cup {asking} /\ ~identity.of[kind].version_tracked.manual
        /\ UNCHANGED <<identity, committed, writes, writing, wanted, clock, storeClosed>>
    BY <1>3 DEF refreshVersionTracked
  <2>2. /\ asking \in [kind : Kind, source : SourceState, at : Nat, force : BOOLEAN]
        /\ asking.source = identity.of[kind].version_tracked
    BY <1>0 DEF IdentityTypeOK, IdentityState, KindState
  <2> HIDE DEF asking
  <2>3. IdentityTypeOK' BY <1>0, <2>1, <2>2 DEF IdentityTypeOK
  <2> QED BY <2>1, <2>2, <2>3 DEF IdentityInv, HoldsTyped
<1>4. ASSUME NEW r \in refreshes, RegistryAnswers(r) PROVE IdentityInv'
  <2>1. PICK release \in PublishedRelease \cup {Absent} :
          Persists([op |-> "refresh", kind |-> r.kind, source |-> r.source,
                    at |-> r.at, day |-> today, release |-> release])
    BY <1>4 DEF RegistryAnswers
  <2> DEFINE w == [op |-> "refresh", kind |-> r.kind, source |-> r.source,
                   at |-> r.at, day |-> today, release |-> release]
  <2>2. /\ r \in [kind : Kind, source : SourceState, at : Nat, force : BOOLEAN]
        /\ ~r.source.manual
    BY <1>0 DEF IdentityTypeOK, IdentityInv
  <2>3. w \in IdentityWrite /\ OfTheBackground(w)
    BY <1>today, <2>2 DEF IdentityWrite, RefreshWrite, Release, OfTheBackground
  <2>4. /\ refreshes' \subseteq refreshes
        /\ UNCHANGED <<identity, committed, writing, wanted, clock, storeClosed>>
    BY <1>4 DEF RegistryAnswers
  <2> HIDE DEF w
  <2>5. CASE storeClosed
    <3>1. writes' = writes BY <2>1, <2>5 DEF Persists
    <3> QED BY <2>4, <2>5, <3>1 DEF IdentityInv, IdentityTypeOK, HoldsTyped
  <2>6. CASE ~storeClosed
    <3>1. Enqueue(w) BY <2>1, <2>6 DEF Persists, w
    <3>2. /\ writes' \in Seq(IdentityWrite)
          /\ \A i \in 1..Len(writes') : OfTheBackground(writes'[i])
          /\ writes # <<>> => writes' # <<>> /\ Head(writes') = Head(writes)
          /\ \A state : StillOwed(state, writes) => StillOwed(state, writes')
      BY <2>3, <3>1, QueueGrows
    <3> QED BY <2>4, <3>2 DEF IdentityInv, IdentityTypeOK, HoldsTyped
  <2> QED BY <2>5, <2>6
<1>5. CASE WriteStarts
  <2>1. CASE storeClosed \/ LeavesAlone(Head(writes), committed)
    <3>1. /\ writes # <<>> /\ writes' = Tail(writes) /\ writing = Absent
          /\ UNCHANGED <<identity, committed, writing, refreshes, wanted, clock, storeClosed>>
      BY <1>5, <2>1 DEF WriteStarts
    <3>2. /\ Head(writes) \in IdentityWrite /\ writes' \in Seq(IdentityWrite)
          /\ \A i \in 1..Len(writes') : OfTheBackground(writes'[i])
          /\ StillOwed(committed, writes) =>
               \/ StillOwed(committed, writes')
               \/ /\ Head(writes).op = "observe"
                  /\ OwesObservation(committed.of[Head(writes).kind].extracted, Head(writes).day)
      BY <3>1, QueueShrinks
    <3>3. ~storeClosed' => identity' = committed' \/ StillOwed(committed', writes')
      BY <2>1, <3>1, <3>2 DEF IdentityInv, LeavesAlone
    <3>4. IdentityTypeOK' BY <1>0, <3>1, <3>2 DEF IdentityTypeOK
    <3> QED BY <3>1, <3>2, <3>3, <3>4 DEF IdentityInv, HoldsTyped
  <2>2. CASE ~(storeClosed \/ LeavesAlone(Head(writes), committed))
    <3>1. /\ writes # <<>> /\ writing' = Applied(Head(writes), committed)
          /\ UNCHANGED <<writes, identity, committed, refreshes, wanted, clock, storeClosed>>
      BY <1>5, <2>2 DEF WriteStarts
    <3>2. Applied(Head(writes), committed)' = Applied(Head(writes), committed)
      BY <3>1 DEF Applied, Recorded, Patched, AfterRefresh
    <3>3. ~LeavesAlone(Head(writes), committed)'
      BY <2>2, <3>1 DEF LeavesAlone
    <3>4. IdentityTypeOK' BY <1>0, <3>1 DEF IdentityTypeOK
    <3> QED BY <3>1, <3>2, <3>3, <3>4 DEF IdentityInv, HoldsTyped
  <2> QED BY <2>1, <2>2
<1>6. CASE WriteCommits
  <2>1. /\ writing # Absent /\ committed' = writing /\ identity' = writing
        /\ wanted' = WantedBy(Head(writes)) /\ writes' = Tail(writes) /\ writing' = Absent
        /\ UNCHANGED <<refreshes, clock, storeClosed>>
    BY <1>6 DEF WriteCommits
  <2>2. /\ writes # <<>> /\ ~LeavesAlone(Head(writes), committed)
        /\ writing = Applied(Head(writes), committed)
    BY <2>1 DEF IdentityInv
  <2>3. /\ Head(writes) \in IdentityWrite /\ OfTheBackground(Head(writes))
        /\ writes' \in Seq(IdentityWrite)
        /\ \A i \in 1..Len(writes') : OfTheBackground(writes'[i])
    BY <2>1, <2>2, QueueShrinks
  <2>4. writing \in IdentityState /\ HoldsTyped(writing, WantedBy(Head(writes)))
    BY <1>0, <2>2, <2>3, AppliedHolds DEF IdentityTypeOK, IdentityInv
  <2>5. WantedBy(Head(writes)) \in [Kind -> [Source -> UserAgent \cup {Absent, Automatic, Blank}]]
    BY <1>0, <2>3, WantedTyped DEF IdentityTypeOK
  <2>6. IdentityTypeOK' BY <1>0, <2>1, <2>3, <2>4, <2>5 DEF IdentityTypeOK
  <2> QED BY <2>1, <2>3, <2>4, <2>6 DEF IdentityInv, HoldsTyped
<1>7. CASE WriteFails
  <2>1. /\ writing # Absent /\ identity' = AfterFailure(Head(writes))
        /\ writes' = Tail(writes) /\ writing' = Absent
        /\ UNCHANGED <<committed, refreshes, wanted, clock, storeClosed>>
    BY <1>7 DEF WriteFails
  <2>2. writes # <<>> BY <2>1 DEF IdentityInv
  <2>3. /\ writes' \in Seq(IdentityWrite)
        /\ \A i \in 1..Len(writes') : OfTheBackground(writes'[i])
        /\ StillOwed(committed, writes) =>
             StillOwed(committed, writes') \/ Head(writes).op = "observe"
    BY <2>1, <2>2, QueueShrinks
  <2>4. identity' = committed \/ (identity' = identity /\ Head(writes).op # "observe")
    BY <2>1 DEF AfterFailure
  <2>5. IdentityTypeOK' BY <1>0, <2>1, <2>3, <2>4 DEF IdentityTypeOK
  <2>6. \A k \in Kind, s \in Source :
          wanted'[k][s] # Automatic => identity'.of[k][s] = committed'.of[k][s]
    BY <2>1, <2>4 DEF IdentityInv
  <2>7. ~storeClosed' => identity' = committed' \/ StillOwed(committed', writes')
    BY <2>1, <2>3, <2>4 DEF IdentityInv
  <2> QED BY <2>1, <2>3, <2>5, <2>6, <2>7 DEF IdentityInv, HoldsTyped
<1>8. CASE Ticks
  BY <1>8 DEF Ticks, IdentityInv, IdentityTypeOK, HoldsTyped
<1>9. CASE Closes
  BY <1>9 DEF Closes, IdentityInv, IdentityTypeOK, HoldsTyped
<1>10. CASE Restarts
  <2>1. /\ identity' = committed' /\ writes' = <<>> /\ writing' = Absent /\ refreshes' = {}
        /\ UNCHANGED clock
    BY <1>10 DEF Restarts
  <2>2. /\ committed' \in IdentityState
        /\ wanted' \in [Kind -> [Source -> UserAgent \cup {Absent, Automatic, Blank}]]
        /\ HoldsTyped(committed', wanted')
    <3>1. CASE committed' = committed /\ wanted' = wanted
      BY <1>0, <3>1 DEF IdentityInv, IdentityTypeOK, HoldsTyped
    <3>2. CASE /\ writing # Absent /\ committed' = writing
               /\ wanted' = WantedBy(Head(writes))
      <4>1. /\ writes # <<>> /\ ~LeavesAlone(Head(writes), committed)
            /\ writing = Applied(Head(writes), committed)
        BY <3>2 DEF IdentityInv
      <4>2. Head(writes) = writes[1] /\ 1 \in 1..Len(writes) /\ Head(writes) \in IdentityWrite
        BY <1>0, <4>1 DEF IdentityTypeOK
      <4>3. OfTheBackground(Head(writes)) BY <4>2 DEF IdentityInv
      <4> QED BY <1>0, <3>2, <4>1, <4>2, <4>3, AppliedHolds, WantedTyped
              DEF IdentityTypeOK, IdentityInv
    <3> QED BY <1>10, <3>1, <3>2 DEF Restarts
  <2> QED BY <1>0, <2>1, <2>2 DEF IdentityInv, IdentityTypeOK, HoldsTyped
<1>11. CASE UNCHANGED identityVars
  BY <1>11 DEF identityVars, IdentityInv, IdentityTypeOK, HoldsTyped
<1> QED
  BY <1>1, <1>2, <1>3, <1>4, <1>5, <1>6, <1>7, <1>8, <1>9, <1>10, <1>11 DEF IdentityNext

LEMMA TypedAreInUse == IdentityInv => TypedIdentitiesStay
<1> SUFFICES ASSUME IdentityInv PROVE TypedIdentitiesStay
  OBVIOUS
<1>1. ASSUME NEW kind \in Kind, NEW source \in Source, wanted[kind][source] # Automatic,
             identity.enabled, identity.of[kind].preferred = source,
             wanted[kind][source] # Blank
      PROVE  userAgentFor(kind) = <<wanted[kind][source], Absent>>
  <2>1. /\ identity.of[kind][source].manual
        /\ identity.of[kind][source].agent = wanted[kind][source]
    BY <1>1 DEF IdentityInv, HoldsTyped
  <2>2. userAgentForSource(identity.of[kind], source) = <<wanted[kind][source], Absent>>
    BY <1>1, <2>1 DEF userAgentForSource
  <2>3. <<wanted[kind][source], Absent>> # Absent
    <3>1. wanted[kind][source] \in UserAgent \cup {Absent, Automatic, Blank}
      BY DEF IdentityInv, IdentityTypeOK
    <3>2. wanted[kind][source] \in Agent
      BY <2>1 DEF IdentityInv, IdentityTypeOK, IdentityState, KindState, SourceState, Source
    <3> QED BY <1>1, <3>1, <3>2, AbsentAssumption DEF Agent
  <2> QED BY <1>1, <2>2, <2>3 DEF userAgentFor, resolve
<1>2. writes = <<>> /\ ~storeClosed => identity = committed
  BY DEF IdentityInv, StillOwed
<1> QED BY <1>1, <1>2 DEF TypedIdentitiesStay, IdentityInv, HoldsTyped

\* Whatever observation, registry answer, failed write or restart comes between, a
\* value the operator typed is on disk, in use and sent; and once the queue is
\* empty, what is in use is what a restart loads (client-identity-store.ts,
\* enqueue, update, observeCliUserAgent).
THEOREM TypedValuesStay == StudioSpec => []TypedIdentitiesStay
<1>1. StudioInit => IdentityInv BY IdentityStarts DEF StudioInit
<1>2. IdentityInv /\ [StudioNext]_studioVars => IdentityInv'
  <2> SUFFICES ASSUME IdentityInv, [StudioNext]_studioVars PROVE IdentityInv'
    OBVIOUS
  <2>1. [IdentityNext]_identityVars
    BY DEF StudioNext, studioVars
  <2> QED BY <2>1, IdentitySteps
<1> QED BY <1>1, <1>2, TypedAreInUse, PTL DEF StudioSpec

-----------------------------------------------------------------------------
(* ConfigProfiles *)

UniqueIds(list) ==
  \A i \in 1..Len(list), j \in 1..Len(list) : list[i].id = list[j].id => i = j

LEMMA ValidIdsAreUnique ==
  ASSUME NEW config \in Configs, validateConfig(config), NEW scope \in ConfigScope
  PROVE  UniqueIds(config.profiles[scope])
<1> DEFINE list == config.profiles[scope]
           ids == ProfileIds(list)
           f == [i \in 1..Len(list) |-> list[i].id]
<1>1. list \in Seq(StoredProfiles) BY DEF Configs
<1>2. DOMAIN list = 1..Len(list) /\ Len(list) \in Nat BY <1>1
<1>3. Cardinality(ids) = Len(list) BY DEF validateConfig
<1> HIDE DEF list
<1>4. f \in Surjection(1..Len(list), ids)
  BY <1>2 DEF Surjection, ProfileIds
<1>5. IsFiniteSet(1..Len(list)) /\ Cardinality(1..Len(list)) = Len(list)
  <2> DEFINE n == Len(list)
  <2>1. n \in Int /\ 1 \in Int BY <1>2
  <2> HIDE DEF n
  <2>2. /\ IsFiniteSet(1..n)
        /\ Cardinality(1..n) = IF 1 > n THEN 0 ELSE n - 1 + 1
    BY <2>1, FS_Interval
  <2>3. n \in Nat BY <1>2 DEF n
  <2>4. (IF 1 > n THEN 0 ELSE n - 1 + 1) = n BY <2>3
  <2> QED BY <2>2, <2>4 DEF n
<1>6. f \in Injection(1..Len(list), ids)
  BY <1>3, <1>4, <1>5, FS_Surjection
<1> QED BY <1>6 DEF Injection, IsInjective, UniqueIds, list

LEMMA ProfileFound ==
  ASSUME NEW config, NEW scope, NEW i \in 1..Len(config.profiles[scope]),
         config.profiles[scope] \in Seq(StoredProfiles), UniqueIds(config.profiles[scope])
  PROVE  /\ HasProfile(config, scope, config.profiles[scope][i].id)
         /\ ProfileOf(config, scope, config.profiles[scope][i].id) = config.profiles[scope][i]
<1> DEFINE list == config.profiles[scope]
<1>1. DOMAIN list = 1..Len(list) OBVIOUS
<1> HIDE DEF list
<1>2. list[i] \in ToSet(list) /\ \A p \in ToSet(list) : p.id = list[i].id => p = list[i]
  BY <1>1 DEF ToSet, UniqueIds, list
<1>3. ProfileOf(config, scope, list[i].id) = list[i]
  BY <1>2 DEF ProfileOf, list
<1>4. HasProfile(config, scope, list[i].id)
  BY <1>1 DEF HasProfile, ProfileIds, list
<1> QED BY <1>3, <1>4 DEF list

\* A profile of a scope is an entry of its list.
LEMMA ProfileListed ==
  ASSUME NEW config, NEW scope, NEW id, config.profiles[scope] \in Seq(StoredProfiles),
         UniqueIds(config.profiles[scope]), HasProfile(config, scope, id)
  PROVE  \E i \in 1..Len(config.profiles[scope]) :
           /\ config.profiles[scope][i].id = id
           /\ ProfileOf(config, scope, id) = config.profiles[scope][i]
<1>1. PICK i \in 1..Len(config.profiles[scope]) : config.profiles[scope][i].id = id
  BY DEF HasProfile, ProfileIds
<1> QED BY <1>1, ProfileFound

-----------------------------------------------------------------------------
(* Merging. *)

PatchPools == UNION {[ids -> Credential \cup {Unset}] : ids \in SUBSET PoolId}
RoutePatches ==
  [url : Url \cup {Unset}, key : Credential \cup {Unset}, preset : Url \cup {Unset},
   rest : Rest \cup {Unset}, pool : PatchPools \cup {Unset}]

\* What a merge reads of a patch; an exported route has no preset to pick.
RoutePatch(patch) ==
  /\ patch.url \in Url \cup {Unset} /\ patch.key \in Credential \cup {Unset}
  /\ patch.rest \in Rest \cup {Unset} /\ patch.pool \in PatchPools \cup {Unset}

LEMMA PoolsMerge ==
  ASSUME NEW entries \in PatchPools \cup {Unset}, NEW stored \in Pools
  PROVE  mergeApiKeys(entries, stored) \in Pools
<1>1. CASE entries = Unset BY <1>1 DEF mergeApiKeys
<1>2. CASE entries # Unset
  <2>1. PICK ids \in SUBSET PoolId : entries \in [ids -> Credential \cup {Unset}]
    BY <1>2 DEF PatchPools
  <2>2. PICK known \in SUBSET PoolId : stored \in [known -> Credential]
    BY DEF Pools
  <2>3. mergeApiKeys(entries, stored) =
          [id \in ids |-> IF entries[id] # Unset THEN entries[id]
                          ELSE IF id \in known THEN stored[id] ELSE NoSecret]
    BY <1>2, <2>1, <2>2 DEF mergeApiKeys
  <2>4. mergeApiKeys(entries, stored) \in [ids -> Credential]
    BY <2>1, <2>2, <2>3 DEF Credential
  <2> QED BY <2>4 DEF Pools
<1> QED BY <1>1, <1>2

LEMMA RouteMerges ==
  ASSUME NEW base \in Routes, NEW patch, RoutePatch(patch)
  PROVE  mergeUpstreamConfig(base, patch) \in Routes
<1>1. mergeApiKeys(patch.pool, base.pool) \in Pools
  BY PoolsMerge DEF Routes, RoutePatch
<1> QED BY <1>1 DEF mergeUpstreamConfig, Restated, Routes, RoutePatch

\* A pool restated without its secrets is the pool.
LEMMA PoolRestated ==
  ASSUME NEW stored \in Pools, NEW entries,
         entries = [id \in DOMAIN stored |-> Unset] \/ entries = Unset
  PROVE  mergeApiKeys(entries, stored) = stored
<1>1. PICK known \in SUBSET PoolId : stored \in [known -> Credential]
  BY DEF Pools
<1>2. stored = [id \in DOMAIN stored |-> stored[id]] BY <1>1
<1> QED BY <1>2 DEF mergeApiKeys

LEMMA UntouchedStays ==
  ASSUME NEW base \in Routes
  PROVE  mergeUpstreamConfig(base, Untouched) = base /\ Untouched \in RoutePatches
<1>1. mergeApiKeys(Unset, base.pool) = base.pool
  BY DEF mergeApiKeys
<1>2. Untouched \in RoutePatches BY DEF Untouched, RoutePatchOf, RoutePatches
<1> QED BY <1>1, <1>2 DEF mergeUpstreamConfig, Untouched, RoutePatchOf, Restated, Routes

RuntimePatch(patch) ==
  patch.route \in [ConfigScope -> RoutePatches] /\ patch.settings \in Setting \cup {Unset}

\* The patch of a scope, with the credential of its preset.
Resolved(config, scope, patch) ==
  applyCredentialPresetToRoutePatch(config, scope, patch.route[scope])

LEMMA ResolvedIsPatch ==
  ASSUME NEW config \in Configs, NEW patch, RuntimePatch(patch), PresetsFit(config, patch),
         NEW scope \in ConfigScope
  PROVE  Resolved(config, scope, patch) \in RoutePatches /\ RoutePatch(Resolved(config, scope, patch))
<1> SUFFICES Resolved(config, scope, patch) \in RoutePatches
  BY DEF RoutePatches, RoutePatch
<1> DEFINE p == patch.route[scope]
<1>1. p \in RoutePatches /\ CredentialPresetFits(config, scope, p)
  BY DEF RuntimePatch, PresetsFit
<1>2. config.presets[scope] \in PresetMaps BY DEF Configs
<1> HIDE DEF p
<1>3. CASE p.preset = Unset
  BY <1>1, <1>3 DEF Resolved, applyCredentialPresetToRoutePatch, p
<1>4. CASE p.preset # Unset
  <2>1. PICK urls \in SUBSET Url : config.presets[scope] \in [urls -> Credential]
    BY <1>2 DEF PresetMaps
  <2>2. p.preset \in urls /\ p.preset \in Url
    BY <1>1, <1>4, <2>1 DEF CredentialPresetFits
  <2>3. config.presets[scope][p.preset] \in Credential BY <2>1, <2>2
  <2> DEFINE key == config.presets[scope][p.preset]
  <2>4. Resolved(config, scope, patch) =
          [p EXCEPT !.url = p.preset, !.key = IF @ = Unset THEN key ELSE @]
    BY <1>4 DEF Resolved, applyCredentialPresetToRoutePatch, p
  <2> HIDE DEF key
  <2> QED BY <1>1, <2>2, <2>3, <2>4 DEF RoutePatches, key
<1> QED BY <1>3, <1>4

\* The runtime takes the patch; profiles, pointers and presets stay.
LEMMA RuntimeMerges ==
  ASSUME NEW config \in Configs, NEW patch, RuntimePatch(patch), PresetsFit(config, patch)
  PROVE  /\ mergeRuntimeConfig(config, patch) \in Configs
         /\ mergeRuntimeConfig(config, patch).profiles = config.profiles
         /\ mergeRuntimeConfig(config, patch).active = config.active
         /\ mergeRuntimeConfig(config, patch).presets = config.presets
         /\ mergeRuntimeConfig(config, patch).settings = Restated(patch.settings, config.settings)
         /\ \A scope \in ConfigScope :
              mergeRuntimeConfig(config, patch).route[scope] =
                mergeUpstreamConfig(config.route[scope], Resolved(config, scope, patch))
<1> DEFINE merged == mergeRuntimeConfig(config, patch)
           route == [scope \in ConfigScope |->
                       mergeUpstreamConfig(config.route[scope], Resolved(config, scope, patch))]
<1>1. merged = [config EXCEPT !.route = route, !.settings = Restated(patch.settings, @)]
  BY DEF mergeRuntimeConfig, Resolved, Configs
<1>2. route \in [ConfigScope -> Routes]
  BY ResolvedIsPatch, RouteMerges DEF Configs
<1>3. Restated(patch.settings, config.settings) \in Setting
  BY DEF Restated, RuntimePatch, Configs
<1>4. \A scope \in ConfigScope : route[scope] =
        mergeUpstreamConfig(config.route[scope], Resolved(config, scope, patch))
  OBVIOUS
<1> HIDE DEF merged, route
<1>5. /\ merged \in Configs /\ merged.route = route
      /\ merged.profiles = config.profiles /\ merged.active = config.active
      /\ merged.presets = config.presets
      /\ merged.settings = Restated(patch.settings, config.settings)
  BY <1>1, <1>2, <1>3 DEF Configs
<1> QED BY <1>4, <1>5 DEF merged


-----------------------------------------------------------------------------
(* What the store admits. *)

Admitted(next) == next = Refused \/ WellFormed(next)

MirrorsIn(config, scope) ==
  \A profile \in ToSet(config.profiles[scope]) :
    profile.id = config.active[scope] => profile.config.route = config.route[scope]

LEMMA ListOf ==
  ASSUME NEW S, NEW n \in Nat, NEW f \in [1..n -> S]
  PROVE  f \in Seq(S) /\ Len(f) = n /\ DOMAIN f = 1..n
OBVIOUS

LEMMA Entries ==
  ASSUME NEW S, NEW list \in Seq(S)
  PROVE  /\ ToSet(list) = {list[i] : i \in 1..Len(list)} /\ ToSet(list) \subseteq S
         /\ DOMAIN list = 1..Len(list) /\ Len(list) \in Nat
BY DEF ToSet

\* A list without its k-th entry.
LEMMA RemovedAt ==
  ASSUME NEW S, NEW list \in Seq(S), NEW k \in 1..Len(list)
  PROVE  /\ RemoveAt(list, k) \in Seq(S) /\ Len(RemoveAt(list, k)) = Len(list) - 1
         /\ \A i \in 1..(Len(list) - 1) :
              RemoveAt(list, k)[i] = IF i < k THEN list[i] ELSE list[i + 1]
<1>1. Len(list) \in Nat /\ \A i \in 1..Len(list) : list[i] \in S
  BY Entries
<1> DEFINE before == SubSeq(list, 1, k - 1)
           after == SubSeq(list, k + 1, Len(list))
           rest == RemoveAt(list, k)
<1>2. rest = before \o after BY DEF RemoveAt
<1>3. /\ before \in Seq(S) /\ Len(before) = k - 1
      /\ \A i \in 1..(k - 1) : before[i] = list[i]
  <2>1. 1 \in Int /\ k - 1 \in Int /\ \A i \in 1..(k - 1) : i \in 1..Len(list)
    BY <1>1
  <2>2. \A i \in 1..(k - 1) : list[i] \in S BY <1>1, <2>1
  <2>3. /\ before \in Seq(S)
        /\ Len(before) = IF 1 <= k - 1 THEN k - 1 - 1 + 1 ELSE 0
        /\ \A i \in 1..(k - 1 - 1 + 1) : before[i] = list[1 + i - 1]
    BY <2>1, <2>2, SubSeqProperties
  <2> HIDE DEF before
  <2>4. Len(before) = k - 1 BY <1>1, <2>3
  <2> QED BY <1>1, <2>3, <2>4
<1>4. /\ after \in Seq(S) /\ Len(after) = Len(list) - k
      /\ \A i \in 1..(Len(list) - k) : after[i] = list[k + i]
  <2>1. /\ k + 1 \in Int /\ Len(list) \in Int
        /\ \A i \in (k + 1)..Len(list) : i \in 1..Len(list)
    BY <1>1
  <2>2. \A i \in (k + 1)..Len(list) : list[i] \in S BY <1>1, <2>1
  <2>3. /\ after \in Seq(S)
        /\ Len(after) = IF k + 1 <= Len(list) THEN Len(list) - (k + 1) + 1 ELSE 0
        /\ \A i \in 1..(Len(list) - (k + 1) + 1) : after[i] = list[k + 1 + i - 1]
    BY <2>1, <2>2, SubSeqProperties
  <2> HIDE DEF after
  <2>4. Len(after) = Len(list) - k
    <3>1. k \in Int /\ Len(list) \in Int /\ k <= Len(list) BY <1>1
    <3>2. Len(after) = IF k + 1 <= Len(list) THEN Len(list) - (k + 1) + 1 ELSE 0 BY <2>3
    <3> QED BY <3>1, <3>2
  <2>5. ASSUME NEW i \in 1..(Len(list) - k) PROVE after[i] = list[k + i]
    <3>1. i \in 1..(Len(list) - (k + 1) + 1) /\ k + 1 + i - 1 = k + i
      BY <1>1
    <3> QED BY <2>3, <3>1
  <2> QED BY <2>3, <2>4, <2>5
<1> HIDE DEF before, after, rest
<1>5. /\ rest \in Seq(S) /\ Len(rest) = Len(before) + Len(after)
      /\ \A i \in 1..(Len(before) + Len(after)) :
           rest[i] = IF i <= Len(before) THEN before[i] ELSE after[i - Len(before)]
  BY <1>2, <1>3, <1>4, ConcatProperties
<1>6. Len(rest) = Len(list) - 1
  BY <1>1, <1>3, <1>4, <1>5
<1>7. ASSUME NEW i \in 1..(Len(list) - 1)
      PROVE  rest[i] = IF i < k THEN list[i] ELSE list[i + 1]
  <2>1. CASE i < k
    BY <1>1, <1>3, <1>5, <1>6, <2>1
  <2>2. CASE ~(i < k)
    <3>1. i - (k - 1) \in 1..(Len(list) - k) /\ k + (i - (k - 1)) = i + 1
      BY <1>1, <2>2
    <3>2. i \in 1..(Len(before) + Len(after)) /\ ~(i <= Len(before))
      BY <1>1, <1>3, <1>5, <1>6, <2>2
    <3>3. rest[i] = after[i - Len(before)]
      BY <1>5, <3>2
    <3> QED BY <1>3, <1>4, <2>2, <3>1, <3>3
  <2> QED BY <2>1, <2>2
<1> QED BY <1>5, <1>6, <1>7 DEF rest

LEMMA ValidIsAdmitted ==
  ASSUME NEW config \in Configs,
         \A scope \in ConfigScope :
           (\A s \in ConfigScope : UniqueIds(config.profiles[s])) => MirrorsIn(config, scope)
  PROVE  Admitted(Validated(config))
<1>1. CASE validateConfig(config)
  <2>1. \A s \in ConfigScope : UniqueIds(config.profiles[s])
    BY <1>1, ValidIdsAreUnique
  <2> QED BY <1>1, <2>1 DEF Validated, Admitted, WellFormed, Mirrors, MirrorsIn
<1>2. CASE ~validateConfig(config)
  BY <1>2 DEF Validated, Admitted
<1> QED BY <1>1, <1>2

SameButPresets(next, config) ==
  /\ next \in Configs
  /\ next.route = config.route /\ next.settings = config.settings
  /\ next.scene = config.scene /\ next.profiles = config.profiles
  /\ next.active = config.active

LEMMA PresetNoted ==
  ASSUME NEW map \in PresetMaps, NEW route \in Routes
  PROVE  [url \in DOMAIN map \cup {route.url} |->
            IF url = route.url THEN route.key ELSE map[url]] \in PresetMaps
<1>1. PICK urls \in SUBSET Url : map \in [urls -> Credential]
  BY DEF PresetMaps
<1>2. route.url \in Url /\ route.key \in Credential BY DEF Routes
<1> DEFINE noted == [url \in DOMAIN map \cup {route.url} |->
                       IF url = route.url THEN route.key ELSE map[url]]
<1>3. noted \in [urls \cup {route.url} -> Credential] BY <1>1, <1>2
<1> QED BY <1>2, <1>3 DEF PresetMaps

LEMMA PresetsRecorded ==
  ASSUME NEW config \in Configs, NEW scopes \in SUBSET ConfigScope
  PROVE  SameButPresets(withRecordedRouteUrlPresets(config, scopes), config)
<1> DEFINE noted(scope) ==
             [url \in DOMAIN config.presets[scope] \cup {config.route[scope].url} |->
                IF url = config.route[scope].url THEN config.route[scope].key
                ELSE config.presets[scope][url]]
           presets == [scope \in ConfigScope |->
                         IF scope \notin scopes THEN config.presets[scope] ELSE noted(scope)]
<1>1. withRecordedRouteUrlPresets(config, scopes) = [config EXCEPT !.presets = presets]
  BY DEF withRecordedRouteUrlPresets, Configs
<1>2. ASSUME NEW scope \in ConfigScope
      PROVE  config.presets[scope] \in PresetMaps /\ noted(scope) \in PresetMaps
  <2>1. config.presets[scope] \in PresetMaps /\ config.route[scope] \in Routes
    BY DEF Configs
  <2> QED BY <2>1, PresetNoted
<1> HIDE DEF noted
<1>3. presets \in [ConfigScope -> PresetMaps] BY <1>2
<1> HIDE DEF presets
<1> QED BY <1>1, <1>3 DEF SameButPresets, Configs

LEMMA RouteRecorded ==
  ASSUME NEW config \in Configs, NEW stored \in StoredConfigs, NEW scope \in ConfigScope
  PROVE  SameButPresets(recordProfileRouteUrls(config, stored, scope), config)
<1> DEFINE routed == [config EXCEPT !.route[scope] = stored.route]
           recorded == withRecordedRouteUrlPresets(routed, {scope})
<1>1. routed \in Configs BY DEF Configs, StoredConfigs
<1> HIDE DEF routed
<1>2. recorded \in Configs BY <1>1, PresetsRecorded DEF SameButPresets
<1>3. recordProfileRouteUrls(config, stored, scope) = [config EXCEPT !.presets = recorded.presets]
  BY DEF recordProfileRouteUrls, routed
<1> HIDE DEF recorded
<1> QED BY <1>2, <1>3 DEF SameButPresets, Configs

\* Presets are no part of what the gate reads.
LEMMA PresetsDoNotMatter ==
  ASSUME NEW config, NEW next, SameButPresets(next, config),
         \A scope \in ConfigScope :
           (\A s \in ConfigScope : UniqueIds(config.profiles[s])) => MirrorsIn(config, scope)
  PROVE  Admitted(Validated(next))
<1>1. \A scope \in ConfigScope :
        (\A s \in ConfigScope : UniqueIds(next.profiles[s])) => MirrorsIn(next, scope)
  BY DEF SameButPresets, MirrorsIn
<1>2. next \in Configs BY DEF SameButPresets
<1> QED BY <1>1, <1>2, ValidIsAdmitted


-----------------------------------------------------------------------------
(* An edit of the runtime reaches the active profile; a moved pointer applies it. *)

Synced(next, config, previous, scope) ==
  LET id == config.active[scope]
  IN /\ next \in Configs
     /\ next.active = config.active /\ next.settings = config.settings
     /\ \A other \in ConfigScope \ {scope} :
          /\ next.route[other] = config.route[other]
          /\ next.profiles[other] = config.profiles[other]
     /\ next.profiles[scope] \in
          {config.profiles[scope],
           [i \in DOMAIN config.profiles[scope] |->
              IF config.profiles[scope][i].id = id
              THEN [config.profiles[scope][i] EXCEPT
                      !.config = extractScopedProfileConfig(config, scope)]
              ELSE config.profiles[scope][i]]}
     /\ previous.active[scope] = id \/ id = Unset \/ ~HasProfile(config, scope, id)
          => next.route[scope] = config.route[scope]
     /\ previous.active[scope] # id => next.profiles[scope] = config.profiles[scope]
     /\ UniqueIds(next.profiles[scope]) => MirrorsIn(next, scope)

LEMMA ScopeSyncs ==
  ASSUME NEW config \in Configs, NEW previous, NEW scope \in ConfigScope
  PROVE  Synced(syncActiveProfileScopeFromRuntime(config, previous, scope),
                config, previous, scope)
<1> DEFINE id == config.active[scope]
           list == config.profiles[scope]
           next == syncActiveProfileScopeFromRuntime(config, previous, scope)
<1>1. list \in Seq(StoredProfiles) BY DEF Configs
<1> HIDE DEF list
<1>a. /\ ToSet(list) = {list[i] : i \in 1..Len(list)} /\ ToSet(list) \subseteq StoredProfiles
      /\ DOMAIN list = 1..Len(list) /\ Len(list) \in Nat
  BY <1>1, Entries
<1>b. list \in [1..Len(list) -> StoredProfiles] BY <1>1
<1>2. \A profile \in ToSet(list) : profile.id # Unset
  BY <1>a, UnsetAssumption DEF StoredProfiles
<1>c. HasProfile(config, scope, id) <=> \E profile \in ToSet(list) : profile.id = id
  BY <1>a DEF HasProfile, ProfileIds, list
<1>3. CASE id = Unset \/ ~HasProfile(config, scope, id)
  <2>1. next = config BY <1>3 DEF syncActiveProfileScopeFromRuntime
  <2>2. \A profile \in ToSet(list) : profile.id # id
    <3>1. CASE id = Unset BY <1>2, <3>1
    <3>2. CASE ~HasProfile(config, scope, id) BY <1>c, <3>2
    <3> QED BY <1>3, <3>1, <3>2
  <2> HIDE DEF next
  <2>3. MirrorsIn(config, scope) BY <2>2 DEF MirrorsIn, list
  <2> QED BY <1>3, <2>1, <2>3 DEF Synced, list, next
<1>4. CASE id # Unset /\ HasProfile(config, scope, id) /\ previous.active[scope] # id
  <2> DEFINE stored == ProfileOf(config, scope, id).config
  <2>1. next = mergeRuntimeForProfileScope(config, stored, scope)
    BY <1>4 DEF syncActiveProfileScopeFromRuntime
  <2>2. /\ ProfileOf(config, scope, id) \in ToSet(list)
        /\ ProfileOf(config, scope, id).id = id
    <3>1. \E profile \in ToSet(list) : profile.id = id BY <1>4, <1>c
    <3> QED BY <3>1 DEF ProfileOf, list
  <2>3. stored \in StoredConfigs
    BY <1>a, <2>2 DEF StoredProfiles
  <2> HIDE DEF next, stored
  <2>4. /\ next = [config EXCEPT !.route = [config.route EXCEPT ![scope] = stored.route],
                                 !.scene = IF scope = "claude" THEN stored.scene ELSE @]
    BY <2>1 DEF mergeRuntimeForProfileScope
  <2>5. next \in Configs /\ next.active = config.active /\ next.settings = config.settings
        /\ next.profiles = config.profiles /\ next.route[scope] = stored.route
        /\ \A other \in ConfigScope \ {scope} : next.route[other] = config.route[other]
    BY <2>3, <2>4 DEF Configs, StoredConfigs
  <2>6. UniqueIds(list) => \A profile \in ToSet(list) : profile.id = id => profile.config = stored
    BY <1>a, <2>2 DEF UniqueIds, stored
  <2>7. UniqueIds(next.profiles[scope]) => MirrorsIn(next, scope)
    BY <2>5, <2>6 DEF MirrorsIn, list
  <2> QED BY <1>4, <2>5, <2>7 DEF Synced, list, next
<1>5. CASE id # Unset /\ HasProfile(config, scope, id) /\ previous.active[scope] = id
  <2> DEFINE mirrored == [i \in DOMAIN list |->
                            IF list[i].id = id
                            THEN [list[i] EXCEPT !.config =
                                    extractScopedProfileConfig(config, scope)]
                            ELSE list[i]]
  <2>1. next = [config EXCEPT !.profiles = [config.profiles EXCEPT ![scope] = mirrored]]
    BY <1>5 DEF syncActiveProfileScopeFromRuntime, Configs, list
  <2>2. extractScopedProfileConfig(config, scope) \in StoredConfigs
    BY DEF extractScopedProfileConfig, StoredConfigs, Configs
  <2>3. mirrored \in [1..Len(list) -> StoredProfiles]
    BY <1>a, <1>b, <2>2 DEF StoredProfiles
  <2>4. mirrored \in Seq(StoredProfiles) /\ DOMAIN mirrored = 1..Len(list)
    BY <1>a, <2>3, ListOf
  <2>5. \A i \in DOMAIN mirrored :
          mirrored[i].id = id => mirrored[i].config = extractScopedProfileConfig(config, scope)
    BY <1>a, <1>b DEF StoredProfiles
  <2> HIDE DEF next, mirrored
  <2>6. next \in Configs /\ next.active = config.active /\ next.settings = config.settings
        /\ next.route = config.route /\ next.profiles[scope] = mirrored
        /\ \A other \in ConfigScope \ {scope} : next.profiles[other] = config.profiles[other]
    BY <2>1, <2>4 DEF Configs
  <2>7. MirrorsIn(next, scope)
    BY <2>4, <2>5, <2>6 DEF MirrorsIn, ToSet, extractScopedProfileConfig
  <2> QED BY <1>5, <2>6, <2>7 DEF Synced, mirrored, list, next
<1> QED BY <1>3, <1>4, <1>5

-----------------------------------------------------------------------------
(* A patch. *)

ProfileItem(item) ==
  /\ item.id \in ProfileIdentity /\ item.name \in Title
  /\ RoutePatch(item.route) /\ item.scene \in ProfileIdentity \cup {Unset}
ItemList(items) ==
  \E n \in Nat : DOMAIN items = 1..n /\ \A i \in 1..n : ProfileItem(items[i])

\* The lists and pointers of a patch or an imported document.
ListPatch(patch) ==
  \A scope \in ConfigScope :
    /\ patch.profiles[scope] = Unset \/ ItemList(patch.profiles[scope])
    /\ patch.active[scope] \in ProfileIdentity \cup {Unset, Kept}

LEMMA ProfileRead ==
  ASSUME NEW item, ProfileItem(item), NEW scope, NEW stored \in Seq(StoredProfiles)
  PROVE  readProfile(item, scope, stored) \in StoredProfiles
<1> DEFINE known == {profile \in ToSet(stored) : profile.id = item.id}
           base  == IF known = {} THEN [route |-> DefaultRoute, scene |-> Unset]
                    ELSE (CHOOSE profile \in known : TRUE).config
<1>1. DefaultRoute \in Routes
  <2>1. NoPool \in [{} -> Credential] BY DEF NoPool
  <2> QED BY <2>1, DefaultAssumption DEF DefaultRoute, Routes, Pools, Credential
<1>2. base \in StoredConfigs
  <2>1. CASE known = {} BY <1>1, <2>1 DEF StoredConfigs
  <2>2. CASE known # {}
    <3>1. (CHOOSE profile \in known : TRUE) \in StoredProfiles BY <2>2, Entries
    <3> QED BY <2>2, <3>1 DEF StoredProfiles
  <2> QED BY <2>1, <2>2
<1>3. readProfile(item, scope, stored) =
        [id |-> item.id, name |-> item.name,
         config |-> [route |-> mergeUpstreamConfig(base.route, item.route),
                     scene |-> Restated(item.scene, base.scene)]]
  BY DEF readProfile
<1> HIDE DEF base
<1>4. mergeUpstreamConfig(base.route, item.route) \in Routes
  BY <1>2, RouteMerges DEF ProfileItem, StoredConfigs
<1> QED BY <1>2, <1>3, <1>4 DEF StoredProfiles, StoredConfigs, ProfileItem, Restated

Listed(merged, scope, list, active, items, pointer) ==
  /\ merged.profiles \in Seq(StoredProfiles)
  /\ merged.profiles =
       IF items = Unset THEN list
       ELSE [i \in DOMAIN items |-> readProfile(items[i], scope, list)]
  /\ merged.active \in ProfileIdentity \cup {Unset}
  /\ merged.active = IF pointer = Kept THEN active ELSE pointer

LEMMA ListsMerge ==
  ASSUME NEW scope, NEW list \in Seq(StoredProfiles), NEW active \in ProfileIdentity \cup {Unset},
         NEW items, items = Unset \/ ItemList(items),
         NEW pointer \in ProfileIdentity \cup {Unset, Kept}
  PROVE  Listed(mergeProfileScopeState(scope, list, active, items, pointer, Unset),
                scope, list, active, items, pointer)
<1> DEFINE read == [i \in DOMAIN items |-> readProfile(items[i], scope, list)]
           merged == mergeProfileScopeState(scope, list, active, items, pointer, Unset)
<1>1. merged = [profiles |-> IF items = Unset THEN list ELSE read,
                active   |-> IF pointer = Kept THEN active ELSE pointer]
  BY DEF mergeProfileScopeState
<1>2. items # Unset => read \in Seq(StoredProfiles)
  <2> SUFFICES ASSUME items # Unset PROVE read \in Seq(StoredProfiles)
    OBVIOUS
  <2>1. PICK n \in Nat : DOMAIN items = 1..n /\ \A i \in 1..n : ProfileItem(items[i])
    BY DEF ItemList
  <2>2. read \in [1..n -> StoredProfiles] BY <2>1, ProfileRead
  <2> QED BY <2>1, <2>2, ListOf
<1> HIDE DEF merged, read
<1> QED BY <1>1, <1>2 DEF Listed, merged, read

ListedBy(config, patch, scope) ==
  mergeProfileScopeState(scope, config.profiles[scope], config.active[scope],
                         patch.profiles[scope], patch.active[scope], Unset)

\* Before the active profiles are synced.
ScopedBy(config, patch) ==
  [mergeRuntimeConfig(config, patch) EXCEPT
     !.profiles = [scope \in ConfigScope |-> ListedBy(config, patch, scope).profiles],
     !.active   = [scope \in ConfigScope |-> ListedBy(config, patch, scope).active]]

LEMMA PatchScoped ==
  ASSUME NEW config \in Configs, NEW patch, RuntimePatch(patch), PresetsFit(config, patch),
         ListPatch(patch)
  PROVE  /\ ScopedBy(config, patch) \in Configs
         /\ ScopedBy(config, patch).route = mergeRuntimeConfig(config, patch).route
         /\ ScopedBy(config, patch).settings = Restated(patch.settings, config.settings)
         /\ \A scope \in ConfigScope :
              /\ ScopedBy(config, patch).profiles[scope] =
                   IF patch.profiles[scope] = Unset THEN config.profiles[scope]
                   ELSE [i \in DOMAIN patch.profiles[scope] |->
                           readProfile(patch.profiles[scope][i], scope, config.profiles[scope])]
              /\ ScopedBy(config, patch).active[scope] =
                   IF patch.active[scope] = Kept THEN config.active[scope]
                   ELSE patch.active[scope]
<1> DEFINE merged == mergeRuntimeConfig(config, patch)
           profiles == [scope \in ConfigScope |-> ListedBy(config, patch, scope).profiles]
           active == [scope \in ConfigScope |-> ListedBy(config, patch, scope).active]
<1>1. merged \in Configs /\ merged.settings = Restated(patch.settings, config.settings)
  BY RuntimeMerges
<1>2. ASSUME NEW scope \in ConfigScope
      PROVE  /\ profiles[scope] \in Seq(StoredProfiles)
             /\ profiles[scope] =
                   IF patch.profiles[scope] = Unset THEN config.profiles[scope]
                   ELSE [i \in DOMAIN patch.profiles[scope] |->
                           readProfile(patch.profiles[scope][i], scope, config.profiles[scope])]
             /\ active[scope] \in ProfileIdentity \cup {Unset}
             /\ active[scope] = IF patch.active[scope] = Kept THEN config.active[scope]
                                ELSE patch.active[scope]
  <2>1. /\ config.profiles[scope] \in Seq(StoredProfiles)
        /\ config.active[scope] \in ProfileIdentity \cup {Unset}
    BY DEF Configs
  <2>2. /\ patch.profiles[scope] = Unset \/ ItemList(patch.profiles[scope])
        /\ patch.active[scope] \in ProfileIdentity \cup {Unset, Kept}
    BY DEF ListPatch
  <2>3. Listed(ListedBy(config, patch, scope), scope, config.profiles[scope],
               config.active[scope], patch.profiles[scope], patch.active[scope])
    BY <2>1, <2>2, ListsMerge DEF ListedBy
  <2> QED BY <2>3 DEF Listed
<1>3. ScopedBy(config, patch) = [merged EXCEPT !.profiles = profiles, !.active = active]
  BY DEF ScopedBy
<1>4. /\ profiles \in [ConfigScope -> Seq(StoredProfiles)]
      /\ active \in [ConfigScope -> ProfileIdentity \cup {Unset}]
  BY <1>2
<1> HIDE DEF merged, profiles, active
<1>5. /\ ScopedBy(config, patch) \in Configs /\ ScopedBy(config, patch).route = merged.route
      /\ ScopedBy(config, patch).settings = merged.settings
      /\ ScopedBy(config, patch).profiles = profiles /\ ScopedBy(config, patch).active = active
  BY <1>1, <1>3, <1>4 DEF Configs
<1> QED BY <1>1, <1>2, <1>5 DEF merged


\* The entries of a list keep their connections, but the active one may mirror
\* the route that runs.
RoutesMirrored(next, list, id, route) ==
  /\ DOMAIN next = DOMAIN list
  /\ \A i \in DOMAIN list :
       /\ next[i].id = list[i].id
       /\ \/ next[i].config.route = list[i].config.route
          \/ list[i].id = id /\ next[i].config.route = route

\* What a patch leads to, before the gate.
PatchedTo(next, config, patch) ==
  LET scoped == ScopedBy(config, patch)
  IN /\ next \in Configs
     /\ next.settings = Restated(patch.settings, config.settings)
     /\ next.active = scoped.active
     /\ \A scope \in ConfigScope :
          /\ scoped.active[scope] = config.active[scope]
               => next.route[scope] = scoped.route[scope]
          /\ scoped.active[scope] # config.active[scope]
               => next.profiles[scope] = scoped.profiles[scope]
          /\ RoutesMirrored(next.profiles[scope], scoped.profiles[scope],
                            scoped.active[scope], scoped.route[scope])
          /\ UniqueIds(next.profiles[scope]) => MirrorsIn(next, scope)

LEMMA SyncedMirrors ==
  ASSUME NEW config \in Configs, NEW previous, NEW scope \in ConfigScope, NEW next,
         Synced(next, config, previous, scope)
  PROVE  RoutesMirrored(next.profiles[scope], config.profiles[scope],
                        config.active[scope], config.route[scope])
<1> DEFINE list == config.profiles[scope]
           id == config.active[scope]
           mirrored == [i \in DOMAIN list |->
                          IF list[i].id = id
                          THEN [list[i] EXCEPT !.config =
                                  extractScopedProfileConfig(config, scope)]
                          ELSE list[i]]
<1>1. list \in [1..Len(list) -> StoredProfiles] /\ DOMAIN list = 1..Len(list)
  BY DEF Configs
<1>2. next.profiles[scope] \in {list, mirrored} BY DEF Synced
<1>3. \A i \in DOMAIN list :
        /\ mirrored[i].id = list[i].id
        /\ mirrored[i] = list[i] \/ (list[i].id = id /\ mirrored[i].config.route = config.route[scope])
  BY <1>1 DEF StoredProfiles, extractScopedProfileConfig
<1>4. DOMAIN mirrored = DOMAIN list OBVIOUS
<1> HIDE DEF list, mirrored, id
<1> QED BY <1>2, <1>3, <1>4 DEF RoutesMirrored, list, id

LEMMA PatchLands ==
  ASSUME NEW config \in Configs, NEW patch, RuntimePatch(patch), ListPatch(patch),
         NEW next, next = patchConfig(config, patch), next # Refused
  PROVE  PresetsFit(config, patch) /\ WellFormed(next) /\ PatchedTo(next, config, patch)
<1> DEFINE scoped == ScopedBy(config, patch)
           first == syncActiveProfileScopeFromRuntime(scoped, config, "codex")
           both == syncActiveProfileScopeFromRuntime(first, config, "claude")
           noted == withRecordedRouteUrlPresets(both, ConfigScope)
<1>1. PresetsFit(config, patch) BY DEF patchConfig
<1>2. next = Validated(noted)
  BY <1>1 DEF patchConfig, ScopedBy, ListedBy, syncActiveProfilesFromRuntime
<1>3. scoped \in Configs /\ scoped.settings = Restated(patch.settings, config.settings)
  BY <1>1, PatchScoped
<1> HIDE DEF scoped
<1>4. Synced(first, scoped, config, "codex")
  BY <1>3, ScopeSyncs DEF ConfigScope
<1>5. first \in Configs BY <1>4 DEF Synced
<1> HIDE DEF first
<1>6. Synced(both, first, config, "claude")
  BY <1>5, ScopeSyncs DEF ConfigScope
<1>7. both \in Configs BY <1>6 DEF Synced
<1> HIDE DEF both
<1>8. SameButPresets(noted, both)
  BY <1>7, PresetsRecorded
<1> HIDE DEF noted
<1>9. /\ both.active = scoped.active /\ both.settings = scoped.settings
      /\ first.active = scoped.active
      /\ both.route["codex"] = first.route["codex"] /\ both.profiles["codex"] = first.profiles["codex"]
      /\ first.route["claude"] = scoped.route["claude"]
      /\ first.profiles["claude"] = scoped.profiles["claude"]
  BY <1>4, <1>6 DEF Synced, ConfigScope
<1>10. /\ UniqueIds(both.profiles["codex"]) => MirrorsIn(both, "codex")
       /\ UniqueIds(both.profiles["claude"]) => MirrorsIn(both, "claude")
  <2>1. UniqueIds(first.profiles["codex"]) => MirrorsIn(first, "codex") BY <1>4 DEF Synced
  <2>2. UniqueIds(both.profiles["claude"]) => MirrorsIn(both, "claude") BY <1>6 DEF Synced
  <2> QED BY <1>9, <2>1, <2>2 DEF MirrorsIn
<1>11. Admitted(next)
  BY <1>2, <1>8, <1>10, PresetsDoNotMatter DEF ConfigScope
<1>12. WellFormed(next) /\ next = noted
  BY <1>2, <1>11 DEF Admitted, Validated
<1>13. /\ RoutesMirrored(both.profiles["codex"], scoped.profiles["codex"],
                         scoped.active["codex"], scoped.route["codex"])
       /\ RoutesMirrored(both.profiles["claude"], scoped.profiles["claude"],
                         scoped.active["claude"], scoped.route["claude"])
  BY <1>3, <1>4, <1>5, <1>6, <1>9, SyncedMirrors DEF ConfigScope
<1>14. ASSUME NEW scope \in ConfigScope
       PROVE  /\ scoped.active[scope] = config.active[scope]
                   => both.route[scope] = scoped.route[scope]
              /\ scoped.active[scope] # config.active[scope]
                   => both.profiles[scope] = scoped.profiles[scope]
  <2>1. CASE scope = "codex" BY <1>4, <1>9, <2>1 DEF Synced
  <2>2. CASE scope = "claude" BY <1>6, <1>9, <2>2 DEF Synced
  <2> QED BY <2>1, <2>2 DEF ConfigScope
<1>15. PatchedTo(next, config, patch)
  <2>1. /\ next \in Configs /\ next.settings = both.settings /\ next.active = both.active
        /\ next.route = both.route /\ next.profiles = both.profiles
    BY <1>8, <1>12 DEF SameButPresets
  <2>2. ASSUME NEW scope \in ConfigScope
        PROVE  /\ RoutesMirrored(next.profiles[scope], scoped.profiles[scope],
                                 scoped.active[scope], scoped.route[scope])
               /\ UniqueIds(next.profiles[scope]) => MirrorsIn(next, scope)
    BY <1>10, <1>13, <2>1 DEF ConfigScope, MirrorsIn
  <2> QED BY <1>3, <1>9, <1>14, <2>1, <2>2 DEF PatchedTo, scoped
<1> QED BY <1>1, <1>12, <1>15


-----------------------------------------------------------------------------
(* Profile mutations. *)

LEMMA OneEntryPerId ==
  ASSUME NEW list \in Seq(StoredProfiles), UniqueIds(list),
         NEW p \in ToSet(list), NEW q \in ToSet(list), p.id = q.id
  PROVE  p = q
BY Entries DEF UniqueIds

\* A draft stored in a profile, and in the runtime if that profile is active.
StoredTo(next, config, scope, list, id, stored) ==
  /\ next \in Configs
  /\ next.settings = config.settings /\ next.active = config.active
  /\ next.profiles = [config.profiles EXCEPT ![scope] = list]
  /\ next.route = IF config.active[scope] = id
                  THEN [config.route EXCEPT ![scope] = stored.route] ELSE config.route

LEMMA DraftStored ==
  ASSUME NEW config, WellFormed(config), NEW scope \in ConfigScope,
         NEW list \in Seq(StoredProfiles), NEW id, NEW stored \in StoredConfigs,
         \E p \in ToSet(list) : p.id = id /\ p.config = stored,
         \A p \in ToSet(list) :
           (p.id = id /\ p.config = stored) \/ p \in ToSet(config.profiles[scope]),
         NEW next, next = WithStored(config, scope, list, id, stored), next # Refused
  PROVE  WellFormed(next) /\ StoredTo(next, config, scope, list, id, stored)
<1> DEFINE listed == [config EXCEPT !.profiles[scope] = list]
           saved == IF config.active[scope] = id
                    THEN mergeRuntimeForProfileScope(listed, stored, scope) ELSE listed
           noted == recordProfileRouteUrls(saved, stored, scope)
<1>1. next = Validated(noted) BY DEF WithStored
<1>2. config \in Configs /\ Mirrors(config) BY DEF WellFormed
<1>3. /\ listed \in Configs /\ listed.settings = config.settings /\ listed.active = config.active
      /\ listed.profiles = [config.profiles EXCEPT ![scope] = list]
      /\ listed.route = config.route
  BY <1>2 DEF Configs
<1> HIDE DEF listed
<1>4. StoredTo(saved, config, scope, list, id, stored)
  <2>1. CASE config.active[scope] = id
    <3>1. saved = [listed EXCEPT !.route = [listed.route EXCEPT ![scope] = stored.route],
                                 !.scene = IF scope = "claude" THEN stored.scene ELSE @]
      BY <2>1 DEF mergeRuntimeForProfileScope
    <3> HIDE DEF saved
    <3> QED BY <1>3, <2>1, <3>1 DEF StoredTo, Configs, StoredConfigs
  <2>2. CASE config.active[scope] # id
    BY <1>3, <2>2 DEF StoredTo
  <2> QED BY <2>1, <2>2
<1> HIDE DEF saved
<1>5. saved \in Configs BY <1>4 DEF StoredTo
<1>6. SameButPresets(noted, saved) BY <1>5, RouteRecorded
<1> HIDE DEF noted
<1>7. ASSUME NEW s \in ConfigScope, \A t \in ConfigScope : UniqueIds(saved.profiles[t])
      PROVE  MirrorsIn(saved, s)
  <2>1. MirrorsIn(config, s) BY <1>2 DEF Mirrors, MirrorsIn
  <2>2. CASE s # scope
    <3>1. saved.profiles[s] = config.profiles[s] /\ saved.active = config.active
          /\ saved.route[s] = config.route[s]
      BY <1>2, <1>4, <2>2 DEF StoredTo, Configs
    <3> QED BY <2>1, <3>1 DEF MirrorsIn
  <2>3. CASE s = scope
    <3>1. saved.profiles[s] = list /\ saved.active = config.active
      BY <1>2, <1>4, <2>3 DEF StoredTo, Configs
    <3>2. UniqueIds(list) BY <1>7, <3>1
    <3>3. CASE config.active[s] = id
      <4>1. saved.route[s] = stored.route
        BY <1>2, <1>4, <2>3, <3>3 DEF StoredTo, Configs
      <4>2. \A p \in ToSet(list) : p.id = id => p.config = stored
        BY <3>2, OneEntryPerId
      <4> QED BY <3>1, <3>3, <4>1, <4>2 DEF MirrorsIn
    <3>4. CASE config.active[s] # id
      <4>1. saved.route[s] = config.route[s] BY <1>4, <2>3, <3>4 DEF StoredTo
      <4>2. \A p \in ToSet(list) : p.id # id => p \in ToSet(config.profiles[s])
        BY <2>3
      <4> QED BY <2>1, <3>1, <3>4, <4>1, <4>2 DEF MirrorsIn
    <3> QED BY <3>3, <3>4
  <2> QED BY <2>2, <2>3
<1>8. Admitted(next) BY <1>1, <1>6, <1>7, PresetsDoNotMatter
<1>9. WellFormed(next) /\ next = noted BY <1>1, <1>8 DEF Admitted, Validated
<1>10. StoredTo(next, config, scope, list, id, stored)
  BY <1>4, <1>6, <1>9 DEF StoredTo, SameButPresets
<1> QED BY <1>9, <1>10

ReplacedIn(list, id, entry) ==
  [i \in DOMAIN list |-> IF list[i].id = id THEN entry ELSE list[i]]

LEMMA ListReplaced ==
  ASSUME NEW list \in Seq(StoredProfiles), NEW id, NEW entry \in StoredProfiles
  PROVE  /\ ReplacedIn(list, id, entry) \in Seq(StoredProfiles)
         /\ \A p \in ToSet(ReplacedIn(list, id, entry)) :
              p = entry \/ (p \in ToSet(list) /\ p.id # id)
         /\ (\E p \in ToSet(list) : p.id = id) => entry \in ToSet(ReplacedIn(list, id, entry))
<1> DEFINE next == ReplacedIn(list, id, entry)
<1>1. list \in [1..Len(list) -> StoredProfiles] /\ DOMAIN list = 1..Len(list) /\ Len(list) \in Nat
  OBVIOUS
<1>2. next \in [1..Len(list) -> StoredProfiles] BY <1>1 DEF ReplacedIn
<1>3. next \in Seq(StoredProfiles) /\ Len(next) = Len(list) /\ DOMAIN next = 1..Len(list)
  BY <1>1, <1>2, ListOf
<1> QED BY <1>1, <1>3 DEF ToSet, ReplacedIn

\* What a draft would make of the runtime of a scope.
DraftOf(config, patch, scope) ==
  extractScopedProfileConfig(mergeRuntimeConfig(config, patch), scope)

LEMMA DraftTyped ==
  ASSUME NEW config \in Configs, NEW patch, RuntimePatch(patch), PresetsFit(config, patch),
         NEW scope \in ConfigScope
  PROVE  /\ DraftOf(config, patch, scope) \in StoredConfigs
         /\ DraftOf(config, patch, scope).route = mergeRuntimeConfig(config, patch).route[scope]
<1>1. mergeRuntimeConfig(config, patch) \in Configs BY RuntimeMerges
<1> QED BY <1>1 DEF DraftOf, extractScopedProfileConfig, StoredConfigs, Configs

LEMMA ProfileSaves ==
  ASSUME NEW config, WellFormed(config), NEW scope \in ConfigScope, NEW name \in Title,
         NEW patch, RuntimePatch(patch), NEW freshId \in ProfileIdentity,
         NEW next, next = saveProfile(config, scope, name, patch, freshId), next # Refused
  PROVE  /\ WellFormed(next) /\ PresetsFit(config, patch)
         /\ \E list, id : StoredTo(next, config, scope, list, id, DraftOf(config, patch, scope))
<1> DEFINE stored == DraftOf(config, patch, scope)
           list == config.profiles[scope]
           same == {p \in ToSet(list) : p.name = name}
           id == IF same = {} THEN freshId ELSE (CHOOSE p \in same : TRUE).id
           saved == [id |-> id, name |-> name, config |-> stored]
           stores == IF same = {} THEN Append(list, saved)
                     ELSE ReplacedIn(list, id, saved)
<1>1. PresetsFit(config, patch) BY DEF saveProfile
<1>2. next = WithStored(config, scope, stores, id, stored)
  BY <1>1 DEF saveProfile, DraftOf, ReplacedIn
<1>3. config \in Configs BY DEF WellFormed
<1>4. stored \in StoredConfigs BY <1>1, <1>3, DraftTyped
<1>5. list \in Seq(StoredProfiles) BY <1>3 DEF Configs
<1> HIDE DEF stored, list
<1>6. same # {} => (CHOOSE p \in same : TRUE) \in same OBVIOUS
<1>7. id \in ProfileIdentity
  <2>1. ToSet(list) \subseteq StoredProfiles BY <1>5, Entries
  <2>2. CASE same = {} BY <2>2
  <2>3. CASE same # {}
    <3> DEFINE picked == CHOOSE p \in same : TRUE
    <3>1. picked \in StoredProfiles BY <1>6, <2>1, <2>3
    <3>2. id = picked.id BY <2>3
    <3> HIDE DEF picked, id
    <3> QED BY <3>1, <3>2 DEF StoredProfiles
  <2> QED BY <2>2, <2>3
<1>8. same # {} => \E p \in ToSet(list) : p.id = id BY <1>6
<1> HIDE DEF id
<1>9. saved \in StoredProfiles BY <1>4, <1>7 DEF StoredProfiles
<1>10. saved.id = id /\ saved.config = stored OBVIOUS
<1> HIDE DEF saved
<1>11. /\ stores \in Seq(StoredProfiles) /\ saved \in ToSet(stores)
       /\ \A p \in ToSet(stores) : p = saved \/ p \in ToSet(list)
  <2>1. CASE same = {}
    <3>1. stores = Append(list, saved) BY <2>1
    <3>2. /\ stores \in Seq(StoredProfiles) /\ Len(stores) = Len(list) + 1
          /\ stores[Len(list) + 1] = saved
          /\ \A i \in 1..Len(list) : stores[i] = list[i]
      BY <1>5, <1>9, <3>1
    <3>3. /\ ToSet(list) = {list[i] : i \in 1..Len(list)} /\ Len(list) \in Nat
          /\ ToSet(stores) = {stores[i] : i \in 1..Len(stores)}
      <4> HIDE DEF stores
      <4> QED BY <1>5, <3>2, Entries
    <3> HIDE DEF stores
    <3>4. \A i \in 1..Len(stores) : i \in 1..Len(list) \/ i = Len(list) + 1
      BY <3>2, <3>3
    <3>5. Len(list) + 1 \in 1..Len(stores) BY <3>2, <3>3
    <3> QED BY <3>2, <3>3, <3>4, <3>5
  <2>2. CASE same # {}
    BY <1>5, <1>8, <1>9, <2>2, ListReplaced
  <2> QED BY <2>1, <2>2
<1> HIDE DEF stores
<1>12. \E p \in ToSet(stores) : p.id = id /\ p.config = stored
  BY <1>10, <1>11
<1>13. \A p \in ToSet(stores) :
         (p.id = id /\ p.config = stored) \/ p \in ToSet(config.profiles[scope])
  BY <1>10, <1>11 DEF list
<1>14. WellFormed(next) /\ StoredTo(next, config, scope, stores, id, stored)
  BY <1>2, <1>4, <1>11, <1>12, <1>13, DraftStored
<1> QED BY <1>1, <1>14 DEF stored


\* Entries that stay in a list keep their connection.
Preserved(next, config) ==
  \A scope \in ConfigScope :
    \A p \in ToSet(config.profiles[scope]), q \in ToSet(next.profiles[scope]) :
      q.id = p.id => q.config.route = p.config.route

LEMMA WellFormedParts ==
  ASSUME NEW config, WellFormed(config), NEW scope \in ConfigScope
  PROVE  /\ config \in Configs /\ config.profiles[scope] \in Seq(StoredProfiles)
         /\ config.route[scope] \in Routes
         /\ config.active[scope] \in ProfileIdentity \cup {Unset}
         /\ UniqueIds(config.profiles[scope]) /\ MirrorsIn(config, scope)
         /\ config.active[scope] # Unset => HasProfile(config, scope, config.active[scope])
<1>1. config \in Configs /\ validateConfig(config) /\ Mirrors(config)
  BY DEF WellFormed
<1>2. UniqueIds(config.profiles[scope]) BY <1>1, ValidIdsAreUnique
<1>3. MirrorsIn(config, scope) BY <1>1 DEF Mirrors, MirrorsIn
<1>4. config.active[scope] # Unset => HasProfile(config, scope, config.active[scope])
  BY <1>1 DEF validateConfig, HasProfile
<1> QED BY <1>1, <1>2, <1>3, <1>4 DEF Configs

LEMMA ListedProfile ==
  ASSUME NEW config, NEW scope, NEW id, config.profiles[scope] \in Seq(StoredProfiles),
         HasProfile(config, scope, id)
  PROVE  /\ ProfileOf(config, scope, id) \in ToSet(config.profiles[scope])
         /\ ProfileOf(config, scope, id).id = id
         /\ ProfileOf(config, scope, id) \in StoredProfiles
<1>1. \E p \in ToSet(config.profiles[scope]) : p.id = id
  BY Entries DEF HasProfile, ProfileIds
<1>2. ToSet(config.profiles[scope]) \subseteq StoredProfiles BY Entries
<1> QED BY <1>1, <1>2 DEF ProfileOf

LEMMA ProfileUpdates ==
  ASSUME NEW config, WellFormed(config), NEW scope \in ConfigScope, NEW id, NEW name \in Title,
         NEW patch, patch = Unset \/ RuntimePatch(patch),
         NEW next, next = updateProfile(config, scope, id, name, patch), next # Refused
  PROVE  /\ WellFormed(next)
         /\ \E list, stored :
              /\ StoredTo(next, config, scope, list, id, stored)
              /\ patch # Unset => PresetsFit(config, patch) /\ stored = DraftOf(config, patch, scope)
         /\ patch = Unset => Preserved(next, config) /\ next.route = config.route
<1> DEFINE list == config.profiles[scope]
           old == ProfileOf(config, scope, id)
           stored == IF patch = Unset THEN old.config ELSE DraftOf(config, patch, scope)
           saved == [id |-> id, name |-> name, config |-> stored]
           stores == ReplacedIn(list, id, saved)
<1>1. HasProfile(config, scope, id) /\ (patch # Unset => PresetsFit(config, patch))
  BY DEF updateProfile
<1>2. next = WithStored(config, scope, stores, id, stored)
  BY DEF updateProfile, DraftOf, ReplacedIn
<1>3. config \in Configs /\ list \in Seq(StoredProfiles) /\ UniqueIds(list)
  BY WellFormedParts
<1>4. old \in ToSet(list) /\ old.id = id /\ old \in StoredProfiles
  BY <1>1, <1>3, ListedProfile
<1> HIDE DEF old
<1>5. stored \in StoredConfigs
  BY <1>1, <1>3, <1>4, DraftTyped DEF StoredProfiles
<1>6. patch # Unset => stored = DraftOf(config, patch, scope) OBVIOUS
<1>7. patch = Unset => stored = old.config OBVIOUS
<1> HIDE DEF stored
<1>8. saved \in StoredProfiles BY <1>4, <1>5 DEF StoredProfiles
<1>9. saved.id = id /\ saved.config = stored OBVIOUS
<1> HIDE DEF saved, list
<1>10. /\ stores \in Seq(StoredProfiles) /\ saved \in ToSet(stores)
       /\ \A p \in ToSet(stores) : p = saved \/ (p \in ToSet(list) /\ p.id # id)
  <2>1. \E p \in ToSet(list) : p.id = id BY <1>4
  <2>2. list \in Seq(StoredProfiles) BY <1>3
  <2> QED BY <1>8, <2>1, <2>2, ListReplaced
<1> HIDE DEF stores
<1>11. WellFormed(next) /\ StoredTo(next, config, scope, stores, id, stored)
  <2>1. \E p \in ToSet(stores) : p.id = id /\ p.config = stored BY <1>9, <1>10
  <2>2. \A p \in ToSet(stores) :
          (p.id = id /\ p.config = stored) \/ p \in ToSet(config.profiles[scope])
    BY <1>9, <1>10 DEF list
  <2> QED BY <1>2, <1>5, <1>10, <2>1, <2>2, DraftStored
<1>12. ASSUME patch = Unset PROVE Preserved(next, config)
  <2>1. ASSUME NEW s \in ConfigScope, NEW p \in ToSet(config.profiles[s]),
               NEW q \in ToSet(next.profiles[s]), q.id = p.id
        PROVE  q.config.route = p.config.route
    <3>1. config.profiles[s] \in Seq(StoredProfiles) /\ UniqueIds(config.profiles[s])
      BY WellFormedParts
    <3>2. CASE s # scope
      <4>1. next.profiles[s] = config.profiles[s] BY <1>3, <1>11, <3>2 DEF StoredTo, Configs
      <4> QED BY <2>1, <3>1, <4>1, OneEntryPerId
    <3>3. CASE s = scope
      <4>1. next.profiles[s] = stores BY <1>3, <1>11, <3>3 DEF StoredTo, Configs
      <4>2. CASE q = saved
        <5>1. p = old BY <1>3, <1>4, <1>9, <2>1, <3>3, <4>2, OneEntryPerId DEF list
        <5> QED BY <1>7, <1>9, <1>12, <4>2, <5>1
      <4>3. CASE q # saved
        <5>1. q \in ToSet(config.profiles[s]) BY <1>10, <2>1, <3>3, <4>1, <4>3 DEF list
        <5> QED BY <2>1, <3>1, <5>1, OneEntryPerId
      <4> QED BY <4>2, <4>3
    <3> QED BY <3>2, <3>3
  <2> QED BY <2>1 DEF Preserved
<1>13. ASSUME patch = Unset PROVE next.route = config.route
  <2>1. MirrorsIn(config, scope) BY WellFormedParts
  <2>2. CASE config.active[scope] # id BY <1>11, <2>2 DEF StoredTo
  <2>3. CASE config.active[scope] = id
    <3>1. stored.route = config.route[scope]
      BY <1>4, <1>7, <1>13, <2>1, <2>3 DEF MirrorsIn, list
    <3>2. next.route = [config.route EXCEPT ![scope] = stored.route]
      BY <1>11, <2>3 DEF StoredTo
    <3> QED BY <1>3, <3>1, <3>2 DEF Configs
  <2> QED BY <2>2, <2>3
<1> QED BY <1>1, <1>6, <1>11, <1>12, <1>13

LEMMA ProfileApplies ==
  ASSUME NEW config, WellFormed(config), NEW scope \in ConfigScope, NEW id,
         NEW next, next = applyProfile(config, scope, id), next # Refused
  PROVE  WellFormed(next) /\ Preserved(next, config)
<1> DEFINE stored == ProfileOf(config, scope, id).config
           applied == [mergeRuntimeForProfileScope(config, stored, scope) EXCEPT !.active[scope] = id]
<1>1. HasProfile(config, scope, id) /\ next = Validated(applied) BY DEF applyProfile
<1>2. config \in Configs /\ config.profiles[scope] \in Seq(StoredProfiles) BY WellFormedParts
<1>3. /\ ProfileOf(config, scope, id) \in ToSet(config.profiles[scope])
      /\ ProfileOf(config, scope, id).id = id /\ ProfileOf(config, scope, id) \in StoredProfiles
  BY <1>1, <1>2, ListedProfile
<1>4. stored \in StoredConfigs /\ id \in ProfileIdentity BY <1>3 DEF StoredProfiles
<1>5. applied = [config EXCEPT !.route = [config.route EXCEPT ![scope] = stored.route],
                               !.scene = IF scope = "claude" THEN stored.scene ELSE @,
                               !.active = [config.active EXCEPT ![scope] = id]]
  BY <1>2 DEF mergeRuntimeForProfileScope, Configs
<1> HIDE DEF applied, stored
<1>6. /\ applied \in Configs /\ applied.profiles = config.profiles
      /\ applied.route = [config.route EXCEPT ![scope] = stored.route]
      /\ applied.active = [config.active EXCEPT ![scope] = id]
  BY <1>2, <1>4, <1>5 DEF Configs, StoredConfigs
<1>7. ASSUME NEW s \in ConfigScope PROVE MirrorsIn(applied, s)
  <2>1. MirrorsIn(config, s) /\ UniqueIds(config.profiles[s]) BY WellFormedParts
  <2>2. CASE s # scope
    <3>1. applied.route[s] = config.route[s] /\ applied.active[s] = config.active[s]
      BY <1>2, <1>6, <2>2 DEF Configs
    <3> QED BY <1>6, <2>1, <3>1 DEF MirrorsIn
  <2>3. CASE s = scope
    <3>1. applied.route[s] = stored.route /\ applied.active[s] = id
      BY <1>2, <1>6, <2>3 DEF Configs
    <3>2. \A p \in ToSet(config.profiles[s]) : p.id = id => p.config = stored
      BY <1>2, <1>3, <2>1, <2>3, OneEntryPerId DEF stored
    <3> QED BY <1>6, <3>1, <3>2 DEF MirrorsIn
  <2> QED BY <2>2, <2>3
<1>8. Admitted(next) BY <1>1, <1>6, <1>7, ValidIsAdmitted
<1>9. WellFormed(next) /\ next = applied BY <1>1, <1>8 DEF Admitted, Validated
<1>10. Preserved(next, config)
  BY <1>6, <1>9, WellFormedParts, OneEntryPerId DEF Preserved
<1> QED BY <1>9, <1>10


\* A list that holds no entry but those of the stored one keeps the mirror, and
\* one that holds all of them keeps their connections.
LEMMA SelectionPreserves ==
  ASSUME NEW config, WellFormed(config), NEW next \in Configs, next.route = config.route,
         \A scope \in ConfigScope :
           /\ next.active[scope] \in {config.active[scope], Unset}
           /\ \A q \in ToSet(next.profiles[scope]) :
                \E p \in ToSet(config.profiles[scope]) :
                  p.id = q.id /\ p.config.route = q.config.route
  PROVE  Admitted(Validated(next)) /\ Preserved(next, config)
<1>1. ASSUME NEW scope \in ConfigScope PROVE MirrorsIn(next, scope)
  <2>1. MirrorsIn(config, scope) BY WellFormedParts
  <2>2. \A q \in ToSet(next.profiles[scope]) : q.id # Unset
    <3>1. ToSet(next.profiles[scope]) \subseteq StoredProfiles BY Entries DEF Configs
    <3> QED BY <3>1, UnsetAssumption DEF StoredProfiles
  <2>3. \A q \in ToSet(next.profiles[scope]) :
          q.id = next.active[scope] => q.id = config.active[scope]
    BY <2>2
  <2> QED BY <2>1, <2>3 DEF MirrorsIn
<1>2. Preserved(next, config)
  <2> SUFFICES ASSUME NEW scope \in ConfigScope, NEW p \in ToSet(config.profiles[scope]),
                      NEW q \in ToSet(next.profiles[scope]), q.id = p.id
               PROVE  q.config.route = p.config.route
    BY DEF Preserved
  <2>1. PICK o \in ToSet(config.profiles[scope]) : o.id = q.id /\ o.config.route = q.config.route
    OBVIOUS
  <2>2. o = p BY <2>1, WellFormedParts, OneEntryPerId
  <2> QED BY <2>1, <2>2
<1> QED BY <1>1, <1>2, ValidIsAdmitted

LEMMA EntryRemoved ==
  ASSUME NEW list \in Seq(StoredProfiles), NEW id, \E p \in ToSet(list) : p.id = id
  PROVE  /\ WithoutProfile(list, id) \in Seq(StoredProfiles)
         /\ ToSet(WithoutProfile(list, id)) \subseteq ToSet(list)
<1>1. /\ ToSet(list) = {list[i] : i \in 1..Len(list)} /\ DOMAIN list = 1..Len(list)
      /\ Len(list) \in Nat
  BY Entries
<1> DEFINE k == CHOOSE i \in DOMAIN list : list[i].id = id
           rest == WithoutProfile(list, id)
<1>2. k \in 1..Len(list) BY <1>1
<1>3. rest = RemoveAt(list, k) BY DEF WithoutProfile
<1> HIDE DEF k, rest
<1>4. /\ rest \in Seq(StoredProfiles) /\ Len(rest) = Len(list) - 1
      /\ \A i \in 1..Len(rest) : rest[i] = IF i < k THEN list[i] ELSE list[i + 1]
  BY <1>2, <1>3, RemovedAt
<1>5. \A i \in 1..Len(rest) : rest[i] \in ToSet(list)
  BY <1>1, <1>2, <1>4
<1>6. ToSet(rest) = {rest[i] : i \in 1..Len(rest)} BY <1>4, Entries
<1> QED BY <1>4, <1>5, <1>6 DEF rest

LEMMA ProfileDeletes ==
  ASSUME NEW config, WellFormed(config), NEW scope \in ConfigScope, NEW id,
         NEW next, next = deleteProfile(config, scope, id), next # Refused
  PROVE  WellFormed(next) /\ Preserved(next, config)
<1> DEFINE list == config.profiles[scope]
           without == [config EXCEPT !.profiles[scope] = WithoutProfile(@, id),
                                     !.active[scope] = IF @ = id THEN Unset ELSE @]
           left == IF scope = "claude" THEN withoutStoredClaudeSceneReferences(without, id)
                   ELSE without
<1>1. HasProfile(config, scope, id) /\ next = Validated(left) BY DEF deleteProfile
<1>2. config \in Configs /\ list \in Seq(StoredProfiles) BY WellFormedParts
<1>3. \E p \in ToSet(list) : p.id = id BY <1>1, <1>2, ListedProfile
<1>4. /\ WithoutProfile(list, id) \in Seq(StoredProfiles)
      /\ ToSet(WithoutProfile(list, id)) \subseteq ToSet(list)
  BY <1>2, <1>3, EntryRemoved
<1> DEFINE kept == WithoutProfile(list, id)
<1>5. without = [config EXCEPT
         !.profiles = [config.profiles EXCEPT ![scope] = kept],
         !.active = [config.active EXCEPT ![scope] =
                       IF config.active[scope] = id THEN Unset ELSE config.active[scope]]]
  BY <1>2 DEF Configs
<1> HIDE DEF list, kept, without
<1>6. /\ without \in Configs /\ without.route = config.route
      /\ without.profiles = [config.profiles EXCEPT ![scope] = kept]
      /\ \A s \in ConfigScope : without.active[s] \in {config.active[s], Unset}
  BY <1>2, <1>4, <1>5 DEF Configs, kept
<1>7. \A s \in ConfigScope : ToSet(without.profiles[s]) \subseteq ToSet(config.profiles[s])
  BY <1>2, <1>4, <1>6 DEF Configs, kept, list
<1>8. /\ left \in Configs /\ left.route = config.route
      /\ \A s \in ConfigScope :
           /\ left.active[s] \in {config.active[s], Unset}
           /\ \A q \in ToSet(left.profiles[s]) :
                \E p \in ToSet(config.profiles[s]) :
                  p.id = q.id /\ p.config.route = q.config.route
  <2>1. CASE scope # "claude" BY <1>6, <1>7, <2>1
  <2>2. CASE scope = "claude"
    <3> DEFINE held == without.profiles["claude"]
               freed == [i \in DOMAIN held |->
                           [held[i] EXCEPT !.config.scene = IF @ = id THEN Unset ELSE @]]
    <3>1. held \in Seq(StoredProfiles) BY <1>6 DEF Configs, ConfigScope
    <3>2. left = [without EXCEPT !.profiles = [without.profiles EXCEPT !["claude"] = freed]]
      <4>1. left = [without EXCEPT !.profiles["claude"] = freed]
        BY <2>2 DEF withoutStoredClaudeSceneReferences
      <4> HIDE DEF freed
      <4> QED BY <4>1
    <3> HIDE DEF held, left
    <3>3. held \in [1..Len(held) -> StoredProfiles] /\ DOMAIN held = 1..Len(held) /\ Len(held) \in Nat
      BY <3>1
    <3>4. \A i \in 1..Len(held) :
            /\ freed[i] \in StoredProfiles /\ freed[i].id = held[i].id
            /\ freed[i].config.route = held[i].config.route
      BY <3>3 DEF StoredProfiles, StoredConfigs
    <3>5. freed \in Seq(StoredProfiles) /\ DOMAIN freed = 1..Len(held)
      <4>1. freed \in [1..Len(held) -> StoredProfiles] BY <3>3, <3>4
      <4> QED BY <3>3, <4>1, ListOf
    <3> HIDE DEF freed
    <3>6. \A q \in ToSet(freed) : \E p \in ToSet(held) :
            p.id = q.id /\ p.config.route = q.config.route
      BY <3>3, <3>4, <3>5 DEF ToSet
    <3>7. /\ left \in Configs /\ left.route = config.route /\ left.active = without.active
          /\ left.profiles["claude"] = freed
          /\ \A s \in ConfigScope \ {"claude"} : left.profiles[s] = without.profiles[s]
      BY <1>6, <3>2, <3>5 DEF Configs, ConfigScope
    <3> QED BY <1>6, <1>7, <3>6, <3>7 DEF held, ConfigScope
  <2> QED BY <2>1, <2>2
<1> HIDE DEF left
<1>9. Admitted(Validated(left)) /\ Preserved(left, config) BY <1>8, SelectionPreserves
<1> QED BY <1>1, <1>9 DEF Admitted, Validated

LEMMA ProfilesReorder ==
  ASSUME NEW config, WellFormed(config), NEW scope \in ConfigScope, NEW ids \in Seq(ProfileIdentity),
         NEW next, next = reorderProfiles(config, scope, ids), next # Refused
  PROVE  WellFormed(next) /\ Preserved(next, config)
<1> DEFINE list == config.profiles[scope]
           order == [i \in DOMAIN ids |-> ProfileOf(config, scope, ids[i])]
           moved == [config EXCEPT !.profiles[scope] = order]
<1>1. ToSet(ids) = ProfileIds(list) /\ next = Validated(moved) BY DEF reorderProfiles
<1>2. config \in Configs /\ list \in Seq(StoredProfiles) BY WellFormedParts
<1>3. DOMAIN ids = 1..Len(ids) /\ Len(ids) \in Nat OBVIOUS
<1>4. \A i \in 1..Len(ids) : HasProfile(config, scope, ids[i])
  BY <1>1, <1>3 DEF HasProfile, ToSet
<1>5. \A i \in 1..Len(ids) : order[i] \in ToSet(list) /\ order[i] \in StoredProfiles
  BY <1>2, <1>3, <1>4, ListedProfile
<1>6. order \in Seq(StoredProfiles) /\ ToSet(order) \subseteq ToSet(list)
  <2>1. order \in [1..Len(ids) -> StoredProfiles] BY <1>3, <1>5
  <2>2. order \in Seq(StoredProfiles) /\ DOMAIN order = 1..Len(ids) BY <1>3, <2>1, ListOf
  <2> QED BY <1>5, <2>2 DEF ToSet
<1> HIDE DEF order, list
<1>7. /\ moved \in Configs /\ moved.route = config.route /\ moved.active = config.active
      /\ \A s \in ConfigScope : ToSet(moved.profiles[s]) \subseteq ToSet(config.profiles[s])
  BY <1>2, <1>6 DEF Configs, list
<1> HIDE DEF moved
<1>8. Admitted(Validated(moved)) /\ Preserved(moved, config) BY <1>7, SelectionPreserves
<1> QED BY <1>1, <1>8 DEF Admitted, Validated


LEMMA ProfileDuplicates ==
  ASSUME NEW config, WellFormed(config), NEW scope \in ConfigScope, NEW id, NEW name \in Title,
         NEW target \in ConfigScope, NEW freshId \in ProfileIdentity,
         NEW next, next = duplicateProfile(config, scope, id, name, target, freshId),
         next # Refused
  PROVE  WellFormed(next) /\ Preserved(next, config)
<1> DEFINE origin == ProfileOf(config, scope, id).config
           copied == IF target = scope THEN origin ELSE reScopeProfileConfig(origin)
           entry == [id |-> freshId, name |-> name, config |-> copied]
           list == config.profiles[target]
           longer == Append(list, entry)
           added == [config EXCEPT !.profiles[target] = Append(@, entry)]
           noted == IF target = scope THEN added ELSE recordProfileRouteUrls(added, copied, target)
<1>1. HasProfile(config, scope, id) /\ next = Validated(noted) BY DEF duplicateProfile
<1>2. /\ config \in Configs /\ list \in Seq(StoredProfiles)
      /\ config.profiles[scope] \in Seq(StoredProfiles)
  BY WellFormedParts
<1>3. origin \in StoredConfigs BY <1>1, <1>2, ListedProfile DEF StoredProfiles
<1>4. copied \in StoredConfigs
  <2> HIDE DEF origin
  <2> QED BY <1>3, DefaultAssumption DEF reScopeProfileConfig, StoredConfigs, Routes
<1> HIDE DEF copied
<1>5. entry \in StoredProfiles /\ entry.id = freshId BY <1>4 DEF StoredProfiles
<1> HIDE DEF entry
<1>6. /\ longer \in Seq(StoredProfiles) /\ ToSet(list) \subseteq ToSet(longer)
      /\ entry \in ToSet(longer)
      /\ \A q \in ToSet(longer) : q = entry \/ q \in ToSet(list)
  <2> HIDE DEF list
  <2>1. /\ longer \in Seq(StoredProfiles) /\ Len(longer) = Len(list) + 1
        /\ longer[Len(list) + 1] = entry
        /\ \A i \in 1..Len(list) : longer[i] = list[i]
    BY <1>2, <1>5
  <2> HIDE DEF longer
  <2>2. /\ ToSet(list) = {list[i] : i \in 1..Len(list)} /\ Len(list) \in Nat
        /\ ToSet(longer) = {longer[i] : i \in 1..Len(longer)}
    BY <1>2, <2>1, Entries
  <2>3. /\ \A i \in 1..Len(longer) : i \in 1..Len(list) \/ i = Len(list) + 1
        /\ \A i \in 1..Len(list) : i \in 1..Len(longer)
        /\ Len(list) + 1 \in 1..Len(longer)
    BY <2>1, <2>2
  <2> QED BY <2>1, <2>2, <2>3
<1>7. added = [config EXCEPT !.profiles = [config.profiles EXCEPT ![target] = longer]]
  BY <1>2 DEF Configs
<1> HIDE DEF added, longer
<1>8. /\ added \in Configs /\ added.route = config.route /\ added.active = config.active
      /\ added.settings = config.settings
      /\ added.profiles = [config.profiles EXCEPT ![target] = longer]
  BY <1>2, <1>6, <1>7 DEF Configs
<1>9. SameButPresets(noted, added)
  <2>1. CASE target = scope BY <1>8, <2>1 DEF SameButPresets
  <2>2. CASE target # scope BY <1>4, <1>8, <2>2, RouteRecorded
  <2> QED BY <2>1, <2>2
<1> HIDE DEF noted
<1>10. ASSUME NEW s \in ConfigScope, UniqueIds(added.profiles[s]) PROVE MirrorsIn(added, s)
  <2>1. MirrorsIn(config, s) BY WellFormedParts
  <2>2. CASE s # target
    <3>1. added.profiles[s] = config.profiles[s] BY <1>2, <1>8, <2>2 DEF Configs
    <3> QED BY <1>8, <2>1, <3>1 DEF MirrorsIn
  <2>3. CASE s = target
    <3>1. added.profiles[s] = longer BY <1>2, <1>8, <2>3 DEF Configs
    <3>2. config.active[s] # freshId
      <4> SUFFICES ASSUME config.active[s] = freshId PROVE FALSE
        OBVIOUS
      <4>1. HasProfile(config, s, freshId) BY WellFormedParts, UnsetAssumption
      <4>2. PICK p \in ToSet(list) : p.id = freshId
        BY <1>2, <2>3, <4>1, ListedProfile
      <4>3. p = entry BY <1>5, <1>6, <1>10, <3>1, <4>2, OneEntryPerId
      <4>4. /\ longer = Append(list, entry) /\ list \in Seq(StoredProfiles) /\ Len(list) \in Nat
            /\ ToSet(list) = {list[i] : i \in 1..Len(list)}
        <5> HIDE DEF list
        <5> QED BY <1>2, Entries DEF longer
      <4>5. PICK i \in 1..Len(list) : list[i] = entry BY <4>2, <4>3, <4>4
      <4> HIDE DEF list
      <4>6. /\ i \in 1..Len(longer) /\ Len(list) + 1 \in 1..Len(longer) /\ i # Len(list) + 1
            /\ longer[i] = entry /\ longer[Len(list) + 1] = entry
        BY <1>5, <4>4, <4>5
      <4> QED BY <1>10, <3>1, <4>6 DEF UniqueIds
    <3> QED BY <1>5, <1>6, <1>8, <2>1, <2>3, <3>1, <3>2 DEF MirrorsIn
  <2> QED BY <2>2, <2>3
<1>11. Admitted(next) BY <1>1, <1>9, <1>10, PresetsDoNotMatter
<1>12. WellFormed(next) /\ next = noted BY <1>1, <1>11 DEF Admitted, Validated
<1>13. Preserved(next, config)
  <2> SUFFICES ASSUME NEW s \in ConfigScope, NEW p \in ToSet(config.profiles[s]),
                      NEW q \in ToSet(next.profiles[s]), q.id = p.id
               PROVE  q.config.route = p.config.route
    BY DEF Preserved
  <2>1. /\ next.profiles[s] = added.profiles[s] /\ UniqueIds(next.profiles[s])
        /\ next.profiles[s] \in Seq(StoredProfiles)
    BY <1>9, <1>12, WellFormedParts DEF SameButPresets
  <2>2. ToSet(config.profiles[s]) \subseteq ToSet(next.profiles[s])
    BY <1>2, <1>6, <1>8, <2>1 DEF Configs
  <2> QED BY <2>1, <2>2, OneEntryPerId
<1> QED BY <1>12, <1>13

-----------------------------------------------------------------------------
(* A script that restates what it read, and a backup. *)

\* The patch restates the profiles of a configuration and names a pointer.
Points(patch, config) ==
  /\ patch.route = [scope \in ConfigScope |-> Untouched] /\ patch.settings = Unset
  /\ patch.active \in [ConfigScope -> ProfileIdentity \cup {Unset}]
  /\ patch.profiles = [scope \in ConfigScope |->
       [i \in DOMAIN config.profiles[scope] |-> Restating(config.profiles[scope][i])]]

LEMMA PointerMoves ==
  ASSUME NEW config, WellFormed(config), NEW patch, Points(patch, config),
         NEW next, next = patchConfig(config, patch), next # Refused
  PROVE  WellFormed(next) /\ Preserved(next, config)
<1> DEFINE scoped == ScopedBy(config, patch)
<1>1. config \in Configs BY DEF WellFormed
<1>2. Untouched \in RoutePatches BY DEF Untouched, RoutePatchOf, RoutePatches
<1>3. RuntimePatch(patch) BY <1>2 DEF Points, RuntimePatch
<1>4. ASSUME NEW scope \in ConfigScope
      PROVE  /\ ItemList(patch.profiles[scope])
             /\ [i \in DOMAIN patch.profiles[scope] |->
                   readProfile(patch.profiles[scope][i], scope, config.profiles[scope])]
                  = config.profiles[scope]
  <2> DEFINE list == config.profiles[scope]
  <2>1. list \in Seq(StoredProfiles) /\ UniqueIds(list) BY WellFormedParts
  <2>2. patch.profiles[scope] = [i \in DOMAIN list |-> Restating(list[i])] BY DEF Points
  <2> HIDE DEF list
  <2>3. list \in [1..Len(list) -> StoredProfiles] /\ DOMAIN list = 1..Len(list) /\ Len(list) \in Nat
    BY <2>1
  <2>4. ASSUME NEW i \in 1..Len(list)
        PROVE  ProfileItem(Restating(list[i])) /\ readProfile(Restating(list[i]), scope, list) = list[i]
    <3> DEFINE p == list[i]
               item == Restating(list[i])
    <3>1. p \in StoredProfiles /\ p \in ToSet(list) BY <2>1, <2>3, Entries
    <3>2. item.id = p.id /\ item.name = p.name /\ item.route = Untouched /\ item.scene = Unset
      BY DEF Restating
    <3> HIDE DEF p, item
    <3>3. {q \in ToSet(list) : q.id = item.id} = {p} BY <2>1, <3>1, <3>2, OneEntryPerId
    <3>4. readProfile(item, scope, list) =
            [id |-> item.id, name |-> item.name,
             config |-> [route |-> mergeUpstreamConfig(p.config.route, item.route),
                         scene |-> Restated(item.scene, p.config.scene)]]
      BY <3>3 DEF readProfile
    <3>5. p.config \in StoredConfigs /\ p.config.route \in Routes
      BY <3>1 DEF StoredProfiles, StoredConfigs
    <3>6. mergeUpstreamConfig(p.config.route, item.route) = p.config.route
      BY <3>2, <3>5, UntouchedStays
    <3>7. readProfile(item, scope, list) = p
      BY <3>1, <3>2, <3>4, <3>5, <3>6 DEF Restated, StoredProfiles, StoredConfigs
    <3>8. ProfileItem(item)
      BY <1>2, <3>1, <3>2 DEF ProfileItem, RoutePatch, RoutePatches, StoredProfiles
    <3> QED BY <3>7, <3>8 DEF p, item
  <2>5. ItemList(patch.profiles[scope]) BY <2>2, <2>3, <2>4 DEF ItemList
  <2>6. [i \in DOMAIN patch.profiles[scope] |->
           readProfile(patch.profiles[scope][i], scope, list)] = list
    BY <2>2, <2>3, <2>4
  <2> QED BY <2>5, <2>6 DEF list
<1>5. ListPatch(patch) BY <1>4 DEF ListPatch, Points
<1>6. PresetsFit(config, patch) /\ WellFormed(next) /\ PatchedTo(next, config, patch)
  BY <1>1, <1>3, <1>5, PatchLands
<1>7. /\ scoped.route = mergeRuntimeConfig(config, patch).route
      /\ \A scope \in ConfigScope :
           scoped.profiles[scope] = config.profiles[scope]
  <2>1. /\ scoped.route = mergeRuntimeConfig(config, patch).route
        /\ \A scope \in ConfigScope :
             scoped.profiles[scope] =
               IF patch.profiles[scope] = Unset THEN config.profiles[scope]
               ELSE [i \in DOMAIN patch.profiles[scope] |->
                       readProfile(patch.profiles[scope][i], scope, config.profiles[scope])]
    BY <1>1, <1>3, <1>5, <1>6, PatchScoped
  <2> HIDE DEF scoped
  <2> QED BY <1>4, <2>1
<1>8. \A scope \in ConfigScope : scoped.route[scope] = config.route[scope]
  <2> SUFFICES ASSUME NEW scope \in ConfigScope
               PROVE  scoped.route[scope] = config.route[scope]
    OBVIOUS
  <2>1. Resolved(config, scope, patch) = Untouched
    BY DEF Resolved, applyCredentialPresetToRoutePatch, Points, Untouched, RoutePatchOf
  <2>2. mergeRuntimeConfig(config, patch).route[scope] =
          mergeUpstreamConfig(config.route[scope], Untouched)
    BY <1>1, <1>3, <1>6, <2>1, RuntimeMerges
  <2>3. config.route[scope] \in Routes BY WellFormedParts
  <2> QED BY <1>7, <2>2, <2>3, UntouchedStays
<1> HIDE DEF scoped
<1>9. Preserved(next, config)
  <2> SUFFICES ASSUME NEW scope \in ConfigScope, NEW p \in ToSet(config.profiles[scope]),
                      NEW q \in ToSet(next.profiles[scope]), q.id = p.id
               PROVE  q.config.route = p.config.route
    BY DEF Preserved
  <2> DEFINE list == config.profiles[scope]
             listed == next.profiles[scope]
  <2>1. /\ list \in Seq(StoredProfiles) /\ UniqueIds(list) /\ MirrorsIn(config, scope)
        /\ listed \in Seq(StoredProfiles)
    BY <1>6, WellFormedParts
  <2>2. RoutesMirrored(listed, list, scoped.active[scope], config.route[scope])
    BY <1>6, <1>7, <1>8 DEF PatchedTo, scoped
  <2>3. scoped.active[scope] # config.active[scope] => listed = list
    BY <1>6, <1>7 DEF PatchedTo, scoped
  <2> HIDE DEF list, listed
  <2>4. PICK i \in DOMAIN listed : q = listed[i] BY DEF ToSet, listed
  <2>5. i \in DOMAIN list /\ listed[i].id = list[i].id BY <2>2, <2>4 DEF RoutesMirrored
  <2>6. list[i] \in ToSet(list) BY <2>5 DEF ToSet
  <2>7. list[i] = p BY <2>1, <2>4, <2>5, <2>6, OneEntryPerId DEF list
  <2>8. CASE scoped.active[scope] # config.active[scope] BY <2>3, <2>4, <2>7, <2>8
  <2>9. CASE scoped.active[scope] = config.active[scope]
    BY <2>1, <2>2, <2>4, <2>5, <2>7, <2>9 DEF RoutesMirrored, MirrorsIn
  <2> QED BY <2>8, <2>9
<1> QED BY <1>6, <1>9

LEMMA RouteIsPatch ==
  ASSUME NEW route \in Routes
  PROVE  RoutePatch(route)
<1>1. PICK ids \in SUBSET PoolId : route.pool \in [ids -> Credential]
  BY DEF Routes, Pools
<1>2. route.pool \in [ids -> Credential \cup {Unset}] BY <1>1
<1>3. route.pool \in PatchPools BY <1>2 DEF PatchPools
<1> QED BY <1>3 DEF RoutePatch, Routes

LEMMA ExportImports ==
  ASSUME NEW config, WellFormed(config)
  PROVE  Admitted(importConfig(Exported(config)))
<1> DEFINE document == Exported(config)
           items(scope) == document.profiles[scope]
           listed(scope) == mergeProfileScopeState(scope, <<>>, Unset, items(scope),
                                                   config.active[scope], Unset)
           read == [route    |-> [scope \in ConfigScope |->
                                    mergeUpstreamConfig(DefaultRoute, config.route[scope])],
                    settings |-> config.settings, scene |-> config.scene,
                    profiles |-> [scope \in ConfigScope |-> listed(scope).profiles],
                    active   |-> [scope \in ConfigScope |-> listed(scope).active],
                    presets  |-> config.presets]
<1>1. config \in Configs BY DEF WellFormed
<1>2. importConfig(document) = Validated(read)
  <2>1. /\ document.legacy = <<>> /\ document.active = config.active
        /\ document.settings = config.settings /\ document.scene = config.scene
        /\ document.presets = config.presets
        /\ \A scope \in ConfigScope : document.route[scope] = config.route[scope]
    BY DEF Exported
  <2> HIDE DEF document
  <2> QED BY <2>1 DEF importConfig
<1>3. DefaultRoute \in Routes
  <2>1. NoPool \in [{} -> Credential] BY DEF NoPool
  <2> QED BY <2>1, DefaultAssumption DEF DefaultRoute, Routes, Pools, Credential
<1>4. ASSUME NEW scope \in ConfigScope
      PROVE  /\ listed(scope).profiles \in Seq(StoredProfiles)
             /\ listed(scope).active \in ProfileIdentity \cup {Unset}
             /\ listed(scope).active \in {config.active[scope], Unset}
             /\ \A q \in ToSet(listed(scope).profiles) :
                  \E p \in ToSet(config.profiles[scope]) :
                    /\ q.id = p.id
                    /\ q.config.route = mergeUpstreamConfig(DefaultRoute, p.config.route)
  <2> DEFINE list == config.profiles[scope]
  <2>1. /\ list \in Seq(StoredProfiles)
        /\ config.active[scope] \in ProfileIdentity \cup {Unset}
    BY WellFormedParts
  <2>2. items(scope) = [i \in DOMAIN list |->
          [id |-> list[i].id, name |-> list[i].name, route |-> list[i].config.route,
           scene |-> list[i].config.scene]]
    BY DEF Exported
  <2> HIDE DEF list, items
  <2>3. list \in [1..Len(list) -> StoredProfiles] /\ DOMAIN list = 1..Len(list) /\ Len(list) \in Nat
    BY <2>1
  <2>4. DOMAIN items(scope) = 1..Len(list) BY <2>2, <2>3
  <2>5. ASSUME NEW i \in 1..Len(list)
        PROVE  /\ ProfileItem(items(scope)[i])
               /\ readProfile(items(scope)[i], scope, <<>>).id = list[i].id
               /\ readProfile(items(scope)[i], scope, <<>>).config.route =
                    mergeUpstreamConfig(DefaultRoute, list[i].config.route)
    <3>1. items(scope)[i] =
            [id |-> list[i].id, name |-> list[i].name, route |-> list[i].config.route,
             scene |-> list[i].config.scene]
      BY <2>2, <2>3
    <3>2. list[i] \in StoredProfiles /\ list[i].config.route \in Routes
      BY <2>3 DEF StoredProfiles, StoredConfigs
    <3>3. RoutePatch(list[i].config.route) BY <3>2, RouteIsPatch
    <3>4. ToSet(<<>>) = {} BY DEF ToSet
    <3>5. readProfile(items(scope)[i], scope, <<>>) =
            [id |-> items(scope)[i].id, name |-> items(scope)[i].name,
             config |-> [route |-> mergeUpstreamConfig(DefaultRoute, items(scope)[i].route),
                         scene |-> Restated(items(scope)[i].scene, Unset)]]
      BY <3>4 DEF readProfile
    <3> QED BY <3>1, <3>2, <3>3, <3>5 DEF ProfileItem, StoredProfiles, StoredConfigs
  <2>6. ItemList(items(scope)) BY <2>3, <2>4, <2>5 DEF ItemList
  <2>7. /\ listed(scope).profiles \in Seq(StoredProfiles)
        /\ listed(scope).profiles =
             IF items(scope) = Unset THEN <<>>
             ELSE [i \in DOMAIN items(scope) |-> readProfile(items(scope)[i], scope, <<>>)]
        /\ listed(scope).active \in ProfileIdentity \cup {Unset}
        /\ listed(scope).active =
             IF config.active[scope] = Kept THEN Unset ELSE config.active[scope]
    <3>1. <<>> \in Seq(StoredProfiles) /\ Unset \in ProfileIdentity \cup {Unset}
      OBVIOUS
    <3>2. config.active[scope] \in ProfileIdentity \cup {Unset, Kept} BY <2>1
    <3>3. Listed(listed(scope), scope, <<>>, Unset, items(scope), config.active[scope])
      BY <2>6, <3>1, <3>2, ListsMerge
    <3> HIDE DEF listed
    <3> QED BY <3>3 DEF Listed
  <2>8. \A q \in ToSet(listed(scope).profiles) :
          \E p \in ToSet(list) :
            q.id = p.id /\ q.config.route = mergeUpstreamConfig(DefaultRoute, p.config.route)
    <3>1. CASE items(scope) = Unset
      BY <2>7, <3>1 DEF ToSet
    <3>2. CASE items(scope) # Unset
      BY <2>3, <2>4, <2>5, <2>7, <3>2 DEF ToSet
    <3> QED BY <3>1, <3>2
  <2> QED BY <2>7, <2>8 DEF list
<1>5. \A scope \in ConfigScope : mergeUpstreamConfig(DefaultRoute, config.route[scope]) \in Routes
  BY <1>3, WellFormedParts, RouteIsPatch, RouteMerges
<1> HIDE DEF listed
<1>6. read \in Configs
  BY <1>1, <1>4, <1>5 DEF Configs
<1>7. ASSUME NEW scope \in ConfigScope PROVE MirrorsIn(read, scope)
  <2>1. /\ read.profiles[scope] = listed(scope).profiles
        /\ read.active[scope] = listed(scope).active
        /\ read.route[scope] = mergeUpstreamConfig(DefaultRoute, config.route[scope])
    OBVIOUS
  <2> HIDE DEF read
  <2>2. MirrorsIn(config, scope) BY WellFormedParts
  <2>3. \A q \in ToSet(read.profiles[scope]) : q.id # Unset
    <3>1. ToSet(read.profiles[scope]) \subseteq StoredProfiles BY <1>4, <2>1, Entries
    <3> QED BY <3>1, UnsetAssumption DEF StoredProfiles
  <2> QED BY <1>4, <2>1, <2>2, <2>3 DEF MirrorsIn
<1> HIDE DEF read
<1>8. Admitted(Validated(read)) BY <1>6, <1>7, ValidIsAdmitted
<1> QED BY <1>2, <1>8


-----------------------------------------------------------------------------
(* StudioDraft: forms. *)

FormPools ==
  UNION {[ids -> [typed : Credential \cup {Unset}, tail : Credential]] : ids \in SUBSET PoolId}
FormRoutes ==
  [url : Url, key : Credential \cup {Unset}, preset : Url \cup {Unset},
   rest : Rest, pool : FormPools]
Forms == [route : [ConfigScope -> FormRoutes], settings : Setting, importConflict : BOOLEAN]

\* The field says nothing else than the configuration: saving it changes nothing.
Matches(form, config, field) ==
  IF field = SettingsField THEN form.settings = config.settings
  ELSE LET shownRow == form.route[field[1]]
           storedRoute == config.route[field[1]]
       IN /\ field[2] = "url" => shownRow.url = storedRoute.url
          /\ field[2] = "rest" => shownRow.rest = storedRoute.rest
          /\ field[2] = "key" => shownRow.key = Unset
          /\ field[2] = "pool" =>
               /\ DOMAIN shownRow.pool = DOMAIN storedRoute.pool
               /\ \A id \in DOMAIN shownRow.pool : shownRow.pool[id].typed = Unset

\* The form is the configuration but for the fields the operator edited.
Built(form, config, mine) == \A field \in FormFields \ mine : Matches(form, config, field)

\* A preset was picked by the operator, with its URL and its credential.
Picked(form, mine) ==
  \A scope \in ConfigScope :
    form.route[scope].preset # Unset => <<scope, "url">> \in mine /\ <<scope, "key">> \in mine

SameForm(form, other, mine) ==
  \A field \in FormFields \ mine : FieldOf(form, field) = FieldOf(other, field)

LEMMA FieldsAre ==
  ASSUME NEW field \in FormFields
  PROVE  \/ field = SettingsField
         \/ /\ field # SettingsField
            /\ \E scope \in ConfigScope, name \in {"url", "key", "pool", "rest"} :
                 field = <<scope, name>> /\ field[1] = scope /\ field[2] = name
<1>1. CASE field = SettingsField BY <1>1
<1>2. CASE \E scope \in ConfigScope : field \in ScopeFields(scope)
  <2>1. PICK scope \in ConfigScope : field \in ScopeFields(scope) BY <1>2
  <2>2. PICK name \in {"url", "key", "pool", "rest"} : field = <<scope, name>>
    BY <2>1 DEF ScopeFields
  <2>3. field[1] = scope /\ field[2] = name BY <2>2
  <2>4. field # SettingsField
    <3>1. SettingsField[1] = "settings" BY DEF SettingsField
    <3>2. scope # "settings" BY DEF ConfigScope
    <3> QED BY <2>3, <3>1, <3>2
  <2> QED BY <2>2, <2>3, <2>4
<1>3. (\E scope \in ConfigScope : field \in ScopeFields(scope)) \/ field = SettingsField
  BY DEF FormFields
<1> QED BY <1>1, <1>2, <1>3

LEMMA FormTyped ==
  ASSUME NEW config \in Configs
  PROVE  formFromConfig(config) \in Forms
<1>1. ASSUME NEW scope \in ConfigScope PROVE FormRoute(config.route[scope]) \in FormRoutes
  <2> DEFINE stored == config.route[scope]
  <2>1. stored \in Routes BY DEF Configs
  <2> HIDE DEF stored
  <2>2. PICK ids \in SUBSET PoolId : stored.pool \in [ids -> Credential]
    BY <2>1 DEF Routes, Pools
  <2> DEFINE pool == [id \in DOMAIN stored.pool |-> [typed |-> Unset, tail |-> stored.pool[id]]]
  <2>3. pool \in [ids -> [typed : Credential \cup {Unset}, tail : Credential]] BY <2>2
  <2> HIDE DEF pool
  <2>4. pool \in FormPools BY <2>3 DEF FormPools
  <2>5. FormRoute(stored) = [url |-> stored.url, key |-> Unset, preset |-> Unset,
                             rest |-> stored.rest, pool |-> pool]
    BY DEF FormRoute, pool
  <2> QED BY <2>1, <2>4, <2>5 DEF FormRoutes, Routes, stored
<1>2. formFromConfig(config) =
        [route |-> [scope \in ConfigScope |-> FormRoute(config.route[scope])],
         settings |-> config.settings, importConflict |-> FALSE]
  BY DEF formFromConfig
<1>3. config.settings \in Setting BY DEF Configs
<1> QED BY <1>1, <1>2, <1>3 DEF Forms

LEMMA FormParts ==
  ASSUME NEW config
  PROVE  /\ formFromConfig(config).settings = config.settings
         /\ formFromConfig(config).importConflict = FALSE
         /\ \A scope \in ConfigScope :
              /\ formFromConfig(config).route[scope].url = config.route[scope].url
              /\ formFromConfig(config).route[scope].key = Unset
              /\ formFromConfig(config).route[scope].preset = Unset
              /\ formFromConfig(config).route[scope].rest = config.route[scope].rest
              /\ DOMAIN formFromConfig(config).route[scope].pool = DOMAIN config.route[scope].pool
              /\ \A id \in DOMAIN config.route[scope].pool :
                   formFromConfig(config).route[scope].pool[id].typed = Unset
BY DEF formFromConfig, FormRoute

LEMMA FreshMatches ==
  ASSUME NEW config, NEW field \in FormFields
  PROVE  Matches(formFromConfig(config), config, field)
<1> DEFINE form == formFromConfig(config)
<1>1. form.settings = config.settings BY FormParts
<1>2. \A scope \in ConfigScope :
        /\ form.route[scope].url = config.route[scope].url
        /\ form.route[scope].key = Unset
        /\ form.route[scope].rest = config.route[scope].rest
        /\ DOMAIN form.route[scope].pool = DOMAIN config.route[scope].pool
        /\ \A id \in DOMAIN config.route[scope].pool : form.route[scope].pool[id].typed = Unset
  BY FormParts
<1> HIDE DEF form
<1>3. CASE field = SettingsField BY <1>1, <1>3 DEF Matches, form
<1>4. ASSUME field # SettingsField, NEW scope \in ConfigScope, field[1] = scope
      PROVE  Matches(form, config, field)
  BY <1>2, <1>4 DEF Matches
<1> QED BY <1>3, <1>4, FieldsAre DEF form

LEMMA SameFieldMatches ==
  ASSUME NEW form, NEW other, NEW config, NEW field \in FormFields,
         FieldOf(form, field) = FieldOf(other, field), Matches(other, config, field)
  PROVE  Matches(form, config, field)
<1>1. CASE field = SettingsField BY <1>1 DEF FieldOf, Matches
<1>2. ASSUME field # SettingsField, NEW scope \in ConfigScope,
             NEW name \in {"url", "key", "pool", "rest"}, field[1] = scope, field[2] = name
      PROVE  Matches(form, config, field)
  <2>1. form.route[scope][name] = other.route[scope][name] BY <1>2 DEF FieldOf
  <2>2. CASE name = "url" BY <1>2, <2>1, <2>2 DEF Matches
  <2>3. CASE name = "key" BY <1>2, <2>1, <2>3 DEF Matches
  <2>4. CASE name = "rest" BY <1>2, <2>1, <2>4 DEF Matches
  <2>5. CASE name = "pool" BY <1>2, <2>1, <2>5 DEF Matches
  <2> QED BY <1>2, <2>2, <2>3, <2>4, <2>5
<1> QED BY <1>1, <1>2, FieldsAre

LEMMA SameConfigMatches ==
  ASSUME NEW form, NEW config, NEW other, NEW field \in FormFields,
         FieldOf(config, field) = FieldOf(other, field), Matches(form, config, field)
  PROVE  Matches(form, other, field)
<1>1. CASE field = SettingsField BY <1>1 DEF FieldOf, Matches
<1>2. ASSUME field # SettingsField, NEW scope \in ConfigScope,
             NEW name \in {"url", "key", "pool", "rest"}, field[1] = scope, field[2] = name
      PROVE  Matches(form, other, field)
  <2>1. config.route[scope][name] = other.route[scope][name] BY <1>2 DEF FieldOf
  <2>2. CASE name = "url" BY <1>2, <2>1, <2>2 DEF Matches
  <2>3. CASE name = "key" BY <1>2, <2>1, <2>3 DEF Matches
  <2>4. CASE name = "rest" BY <1>2, <2>1, <2>4 DEF Matches
  <2>5. CASE name = "pool" BY <1>2, <2>1, <2>5 DEF Matches
  <2> QED BY <1>2, <2>2, <2>3, <2>4, <2>5
<1> QED BY <1>1, <1>2, FieldsAre

\* What two configurations show alike they need not store alike, but a form
\* matches the one as it matches the other.
LEMMA SameShownMatches ==
  ASSUME NEW form, NEW config, NEW other, NEW field \in FormFields,
         FieldOf(formFromConfig(config), field) = FieldOf(formFromConfig(other), field),
         Matches(form, config, field)
  PROVE  Matches(form, other, field)
<1>1. CASE field = SettingsField BY <1>1, FormParts DEF FieldOf, Matches
<1>2. ASSUME field # SettingsField, NEW scope \in ConfigScope,
             NEW name \in {"url", "key", "pool", "rest"}, field[1] = scope, field[2] = name
      PROVE  Matches(form, other, field)
  <2>1. formFromConfig(config).route[scope][name] = formFromConfig(other).route[scope][name]
    BY <1>2 DEF FieldOf
  <2>a. /\ formFromConfig(config).route[scope].url = config.route[scope].url
        /\ formFromConfig(config).route[scope].rest = config.route[scope].rest
        /\ DOMAIN formFromConfig(config).route[scope].pool = DOMAIN config.route[scope].pool
    BY FormParts
  <2>b. /\ formFromConfig(other).route[scope].url = other.route[scope].url
        /\ formFromConfig(other).route[scope].rest = other.route[scope].rest
        /\ DOMAIN formFromConfig(other).route[scope].pool = DOMAIN other.route[scope].pool
    BY FormParts
  <2>2. CASE name = "url"
    <3>1. config.route[scope].url = other.route[scope].url BY <2>1, <2>2, <2>a, <2>b
    <3> QED BY <1>2, <2>2, <3>1 DEF Matches
  <2>3. CASE name = "key" BY <1>2, <2>1, <2>3 DEF Matches
  <2>4. CASE name = "rest"
    <3>1. config.route[scope].rest = other.route[scope].rest BY <2>1, <2>4, <2>a, <2>b
    <3> QED BY <1>2, <2>4, <3>1 DEF Matches
  <2>5. CASE name = "pool"
    <3>1. DOMAIN config.route[scope].pool = DOMAIN other.route[scope].pool
      BY <2>1, <2>5, <2>a, <2>b
    <3> QED BY <1>2, <2>5, <3>1 DEF Matches
  <2> QED BY <1>2, <2>2, <2>3, <2>4, <2>5
<1> QED BY <1>1, <1>2, FieldsAre

LEMMA FormPatches ==
  ASSUME NEW form \in Forms
  PROVE  RuntimePatch(formToPatch(form)) /\ ListPatch(formToPatch(form))
<1> DEFINE patch == formToPatch(form)
<1>1. ASSUME NEW scope \in ConfigScope PROVE patch.route[scope] \in RoutePatches
  <2> DEFINE typed == form.route[scope]
             pool == [id \in DOMAIN typed.pool |-> typed.pool[id].typed]
  <2>1. typed \in FormRoutes BY DEF Forms
  <2>2. patch.route[scope] = [url |-> typed.url, key |-> typed.key, rest |-> typed.rest,
                              preset |-> typed.preset, pool |-> pool]
    BY DEF formToPatch
  <2> HIDE DEF typed
  <2>3. PICK ids \in SUBSET PoolId :
          typed.pool \in [ids -> [typed : Credential \cup {Unset}, tail : Credential]]
    BY <2>1 DEF FormRoutes, FormPools
  <2>4. pool \in [ids -> Credential \cup {Unset}] BY <2>3
  <2> HIDE DEF pool
  <2>5. pool \in PatchPools BY <2>4 DEF PatchPools
  <2> QED BY <2>1, <2>2, <2>5 DEF FormRoutes, RoutePatches
<1>2. patch.route \in [ConfigScope -> RoutePatches]
  <2>1. patch.route = [scope \in ConfigScope |-> patch.route[scope]] BY DEF formToPatch
  <2> HIDE DEF patch
  <2> QED BY <1>1, <2>1
<1>3. /\ patch.settings = form.settings
      /\ \A scope \in ConfigScope : patch.profiles[scope] = Unset /\ patch.active[scope] = Kept
  BY DEF formToPatch
<1>4. form.settings \in Setting BY DEF Forms
<1> HIDE DEF patch
<1> QED BY <1>2, <1>3, <1>4 DEF RuntimePatch, ListPatch, patch

\* A draft restates, outside the edited fields, what the configuration holds.
LEMMA DraftLeavesFields ==
  ASSUME NEW config \in Configs, NEW form \in Forms, NEW mine,
         Built(form, config, mine), Picked(form, mine), PresetsFit(config, formToPatch(form)),
         NEW field \in FormFields \ mine
  PROVE  FieldOf(mergeRuntimeConfig(config, formToPatch(form)), field) = FieldOf(config, field)
<1> DEFINE patch == formToPatch(form)
           merged == mergeRuntimeConfig(config, patch)
<1>1. Matches(form, config, field) BY DEF Built
<1>2. RuntimePatch(patch) BY FormPatches
<1>3. /\ merged.settings = Restated(patch.settings, config.settings)
      /\ \A scope \in ConfigScope : merged.route[scope] =
           mergeUpstreamConfig(config.route[scope], Resolved(config, scope, patch))
  BY <1>2, RuntimeMerges
<1> HIDE DEF merged
<1>4. CASE field = SettingsField
  <2>1. patch.settings = form.settings BY DEF formToPatch
  <2> QED BY <1>1, <1>3, <1>4, <2>1 DEF FieldOf, Matches, Restated, merged
<1>5. ASSUME field # SettingsField, NEW scope \in ConfigScope,
             NEW name \in {"url", "key", "pool", "rest"},
             field = <<scope, name>>, field[1] = scope, field[2] = name
      PROVE  FieldOf(merged, field) = FieldOf(config, field)
  <2> DEFINE typed == form.route[scope]
             stored == config.route[scope]
             sends == patch.route[scope]
             resolved == Resolved(config, scope, patch)
  <2>1. /\ sends.url = typed.url /\ sends.key = typed.key /\ sends.rest = typed.rest
        /\ sends.preset = typed.preset
        /\ sends.pool = [id \in DOMAIN typed.pool |-> typed.pool[id].typed]
        /\ sends = [url |-> typed.url, key |-> typed.key, rest |-> typed.rest,
                    preset |-> typed.preset, pool |-> sends.pool]
    BY DEF formToPatch
  <2>2. resolved = IF sends.preset = Unset THEN sends
                   ELSE [sends EXCEPT !.url = sends.preset,
                                      !.key = IF @ = Unset
                                              THEN config.presets[scope][sends.preset] ELSE @]
    BY DEF Resolved, applyCredentialPresetToRoutePatch
  <2>3. stored \in Routes BY DEF Configs
  <2>4. FieldOf(merged, field) = merged.route[scope][name]
        /\ FieldOf(config, field) = stored[name]
    BY <1>5 DEF FieldOf
  <2>5. merged.route[scope] = mergeUpstreamConfig(stored, resolved) BY <1>3
  <2> HIDE DEF typed, stored, sends, resolved
  <2>6. resolved.pool = sends.pool /\ resolved.rest = sends.rest
    BY <2>1, <2>2
  <2>7. CASE name \in {"url", "key"}
    <3>1. typed.preset = Unset BY <1>5, <2>7 DEF Picked, typed
    <3>2. resolved.url = typed.url /\ resolved.key = typed.key BY <2>1, <2>2, <3>1
    <3>3. name = "url" => typed.url = stored.url BY <1>1, <1>5 DEF Matches, typed, stored
    <3>4. name = "key" => typed.key = Unset BY <1>1, <1>5 DEF Matches, typed
    <3>5. CASE name = "url"
      BY <2>4, <2>5, <3>2, <3>3, <3>5 DEF mergeUpstreamConfig, Restated
    <3>6. CASE name = "key"
      BY <2>4, <2>5, <3>2, <3>4, <3>6 DEF mergeUpstreamConfig, Restated
    <3> QED BY <2>7, <3>5, <3>6
  <2>8. CASE name = "rest"
    <3>1. typed.rest = stored.rest BY <1>1, <1>5, <2>8 DEF Matches, typed, stored
    <3> QED BY <2>1, <2>4, <2>5, <2>6, <2>8, <3>1 DEF mergeUpstreamConfig, Restated
  <2>9. CASE name = "pool"
    <3>1. /\ DOMAIN typed.pool = DOMAIN stored.pool
          /\ \A id \in DOMAIN typed.pool : typed.pool[id].typed = Unset
      BY <1>1, <1>5, <2>9 DEF Matches, typed, stored
    <3>2. sends.pool = [id \in DOMAIN stored.pool |-> Unset] BY <2>1, <3>1
    <3>3. stored.pool \in Pools BY <2>3 DEF Routes
    <3>4. mergeApiKeys(sends.pool, stored.pool) = stored.pool BY <3>2, <3>3, PoolRestated
    <3> QED BY <2>4, <2>5, <2>6, <2>9, <3>4 DEF mergeUpstreamConfig
  <2> QED BY <1>5, <2>7, <2>8, <2>9
<1> QED BY <1>4, <1>5, FieldsAre DEF merged


-----------------------------------------------------------------------------
(* What a draft changes when it lands. *)

LEMMA StoredLeavesFields ==
  ASSUME NEW config \in Configs, NEW next, NEW scope \in ConfigScope, NEW list, NEW id,
         NEW stored, StoredTo(next, config, scope, list, id, stored),
         NEW merged, stored.route = merged.route[scope],
         NEW field \in FormFields, FieldOf(merged, field) = FieldOf(config, field)
  PROVE  FieldOf(next, field) = FieldOf(config, field)
<1>1. CASE field = SettingsField BY <1>1 DEF FieldOf, StoredTo
<1>2. ASSUME field # SettingsField, NEW s \in ConfigScope,
             NEW name \in {"url", "key", "pool", "rest"}, field[1] = s, field[2] = name
      PROVE  FieldOf(next, field) = FieldOf(config, field)
  <2>1. next.route[s] = config.route[s] \/ next.route[s] = merged.route[s]
    BY DEF StoredTo, Configs
  <2> QED BY <1>2, <2>1 DEF FieldOf
<1> QED BY <1>1, <1>2, FieldsAre

\* The three requests that carry a draft.
LandsDraft(next, config, form) ==
  LET patch == formToPatch(form)
  IN \/ next = patchConfig(config, patch)
     \/ \E name \in Title, freshId \in ProfileIdentity :
          next = saveProfile(config, "codex", name, patch, freshId)
     \/ \E name \in Title, id \in ProfileIds(config.profiles["codex"]) :
          next = updateProfile(config, "codex", id, name, patch)

LEMMA DraftLands ==
  ASSUME NEW config, WellFormed(config), NEW form \in Forms, NEW next,
         LandsDraft(next, config, form), next # Refused
  PROVE  /\ WellFormed(next)
         /\ \A mine : Built(form, config, mine) /\ Picked(form, mine) =>
              \A field \in FormFields \ mine : FieldOf(next, field) = FieldOf(config, field)
<1> DEFINE patch == formToPatch(form)
           merged == mergeRuntimeConfig(config, patch)
<1>1. config \in Configs /\ RuntimePatch(patch) /\ ListPatch(patch)
  BY FormPatches DEF WellFormed
<1>2. /\ patch.settings = form.settings
      /\ \A scope \in ConfigScope : patch.profiles[scope] = Unset /\ patch.active[scope] = Kept
  BY DEF formToPatch
<1>3. ASSUME PresetsFit(config, patch), NEW mine, Built(form, config, mine), Picked(form, mine),
             NEW field \in FormFields \ mine
      PROVE  FieldOf(merged, field) = FieldOf(config, field)
  BY <1>1, <1>3, DraftLeavesFields
<1>4. CASE next = patchConfig(config, patch)
  <2> HIDE DEF patch
  <2>1. PresetsFit(config, patch) /\ WellFormed(next) /\ PatchedTo(next, config, patch)
    BY <1>1, <1>4, PatchLands
  <2>2. /\ ScopedBy(config, patch).route = merged.route
        /\ \A scope \in ConfigScope : ScopedBy(config, patch).active[scope] = config.active[scope]
    BY <1>1, <1>2, <2>1, PatchScoped
  <2>3. /\ next.settings = merged.settings
        /\ \A scope \in ConfigScope : next.route[scope] = merged.route[scope]
    BY <1>1, <2>1, <2>2, RuntimeMerges DEF PatchedTo
  <2>4. ASSUME NEW field \in FormFields PROVE FieldOf(next, field) = FieldOf(merged, field)
    <3>1. CASE field = SettingsField BY <2>3, <3>1 DEF FieldOf
    <3>2. ASSUME field # SettingsField, field[1] \in ConfigScope
          PROVE  FieldOf(next, field) = FieldOf(merged, field)
      BY <2>3, <3>2 DEF FieldOf
    <3> QED BY <3>1, <3>2, FieldsAre
  <2> QED BY <1>3, <2>1, <2>4
<1>5. ASSUME NEW name \in Title, NEW freshId \in ProfileIdentity,
             next = saveProfile(config, "codex", name, patch, freshId)
      PROVE  /\ WellFormed(next) /\ PresetsFit(config, patch)
             /\ \E list, id : StoredTo(next, config, "codex", list, id, DraftOf(config, patch, "codex"))
  <2> HIDE DEF patch
  <2> QED BY <1>1, <1>5, ProfileSaves DEF ConfigScope
<1>6. ASSUME PresetsFit(config, patch), NEW mine, Built(form, config, mine), Picked(form, mine),
             NEW field \in FormFields \ mine, NEW list, NEW id,
             StoredTo(next, config, "codex", list, id, DraftOf(config, patch, "codex"))
      PROVE  FieldOf(next, field) = FieldOf(config, field)
  <2>1. DraftOf(config, patch, "codex").route = merged.route["codex"]
    BY <1>1, <1>6, DraftTyped DEF ConfigScope
  <2>2. FieldOf(merged, field) = FieldOf(config, field) BY <1>3, <1>6
  <2> HIDE DEF patch, merged
  <2> QED BY <1>1, <1>6, <2>1, <2>2, StoredLeavesFields DEF ConfigScope
<1>7. ASSUME NEW name \in Title, NEW id, next = updateProfile(config, "codex", id, name, patch)
      PROVE  /\ WellFormed(next)
             /\ \E list, stored :
                  /\ StoredTo(next, config, "codex", list, id, stored)
                  /\ patch # Unset =>
                       PresetsFit(config, patch) /\ stored = DraftOf(config, patch, "codex")
             /\ patch = Unset => next.route = config.route
  <2> HIDE DEF patch
  <2> QED BY <1>1, <1>7, ProfileUpdates DEF ConfigScope
<1>8. ASSUME NEW field \in FormFields, NEW list, NEW id, NEW stored,
             StoredTo(next, config, "codex", list, id, stored), next.route = config.route
      PROVE  FieldOf(next, field) = FieldOf(config, field)
  BY <1>8 DEF FieldOf, StoredTo
<1> HIDE DEF patch, merged
<1>9. CASE \E name \in Title, freshId \in ProfileIdentity :
             next = saveProfile(config, "codex", name, patch, freshId)
  BY <1>5, <1>6, <1>9
<1>10. CASE \E name \in Title, id \in ProfileIds(config.profiles["codex"]) :
              next = updateProfile(config, "codex", id, name, patch)
  <2>1. PICK name \in Title, id \in ProfileIds(config.profiles["codex"]) :
          next = updateProfile(config, "codex", id, name, patch)
    BY <1>10
  <2>2. CASE patch = Unset BY <1>7, <1>8, <2>1, <2>2
  <2>3. CASE patch # Unset
    <3>1. PICK list, stored : /\ StoredTo(next, config, "codex", list, id, stored)
                              /\ PresetsFit(config, patch) /\ stored = DraftOf(config, patch, "codex")
      BY <1>7, <2>1, <2>3
    <3>2. WellFormed(next) BY <1>7, <2>1
    <3> QED BY <1>6, <3>1, <3>2
  <2> QED BY <2>2, <2>3
<1> QED BY <1>4, <1>9, <1>10 DEF LandsDraft, patch


-----------------------------------------------------------------------------
(* Pages. *)

RequestKinds == DraftKinds \cup ListKinds
Requests ==
  [kind : RequestKinds, revision : Nat, submitted : Forms, shown : Nat, overtaken : BOOLEAN,
   answer : Nat \cup {Refused}, mine : SUBSET FormFields, astray : BOOLEAN, refilled : Nat]
PageStates ==
  [shown : Nat, formRevision : Nat, heard : Nat, mine : SUBSET FormFields, astray : BOOLEAN,
   form : Forms, request : Requests \cup {NoRequest}]

VersionsOK(vs) ==
  vs \in Seq(Configs) /\ vs # <<>> /\ \A r \in 1..Len(vs) : WellFormed(vs[r])

\* The draft of a page that is not astray differs from the revision it may replace
\* only where its operator edited it.
DraftOK(page, vs) ==
  /\ page \in PageStates
  /\ page.shown \in 1..Len(vs) /\ page.formRevision \in 1..Len(vs) /\ page.heard \in 1..Len(vs)
  /\ ~page.astray => Built(page.form, vs[page.formRevision], page.mine)
  /\ page.form.importConflict \/ Picked(page.form, page.mine)

Landing(request) == request.answer # NoAnswer /\ request.answer # Refused

\* While a request is under way the form is the submitted one but for later edits,
\* or what a snapshot filled it with; and once the request has landed, the store
\* holds, outside the submitted edits, what it held before.
UnderWay(page, vs) ==
  LET request == page.request
  IN request # NoRequest =>
       /\ request.revision \in 1..Len(vs) /\ request.shown \in 1..Len(vs)
       /\ request.refilled \in 0..Len(vs)
       /\ Landing(request) => request.answer \in 1..Len(vs)
       /\ request.submitted.importConflict \/ Picked(request.submitted, request.mine)
       /\ request.kind \in DraftKinds => ~request.submitted.importConflict
       /\ ~request.astray => Built(request.submitted, vs[request.revision], request.mine)
       /\ request.refilled = NoAnswer =>
            /\ request.astray = page.astray /\ request.mine \subseteq page.mine
            /\ SameForm(page.form, request.submitted, page.mine)
       /\ request.refilled # NoAnswer => Built(page.form, vs[request.refilled], page.mine)
       /\ request.kind \in DraftKinds /\ Landing(request) /\ ~request.astray =>
            \A field \in FormFields \ request.mine :
              FieldOf(vs[request.answer], field) = FieldOf(vs[request.revision], field)

PageOK(page, vs) == DraftOK(page, vs) /\ UnderWay(page, vs)

LEMMA VersionsGrow ==
  ASSUME NEW vs, VersionsOK(vs), NEW config, WellFormed(config)
  PROVE  /\ VersionsOK(Append(vs, config)) /\ Len(Append(vs, config)) = Len(vs) + 1
         /\ Append(vs, config)[Len(vs) + 1] = config
         /\ \A r \in 1..Len(vs) : Append(vs, config)[r] = vs[r] /\ r \in 1..(Len(vs) + 1)
<1>1. config \in Configs BY DEF WellFormed
<1>2. /\ vs \in Seq(Configs) /\ vs # <<>> /\ Len(vs) \in Nat
      /\ \A r \in 1..Len(vs) : WellFormed(vs[r])
  BY DEF VersionsOK
<1> DEFINE next == Append(vs, config)
<1>3. /\ next \in Seq(Configs) /\ next # <<>> /\ Len(next) = Len(vs) + 1
      /\ next[Len(vs) + 1] = config /\ \A r \in 1..Len(vs) : next[r] = vs[r]
  BY <1>1, <1>2
<1> HIDE DEF next
<1>4. \A r \in 1..Len(next) : r \in 1..Len(vs) \/ r = Len(vs) + 1 BY <1>2, <1>3
<1>5. \A r \in 1..Len(next) : WellFormed(next[r]) BY <1>2, <1>3, <1>4
<1>6. \A r \in 1..Len(vs) : r \in 1..(Len(vs) + 1) BY <1>2
<1> QED BY <1>3, <1>5, <1>6 DEF VersionsOK, next

\* What a page relies on is not rewritten.
LEMMA PageKeeps ==
  ASSUME NEW vs, VersionsOK(vs), NEW config, WellFormed(config), NEW page, PageOK(page, vs)
  PROVE  PageOK(page, Append(vs, config))
<1> DEFINE next == Append(vs, config)
<1>1. /\ Len(next) = Len(vs) + 1 /\ \A r \in 1..Len(vs) : next[r] = vs[r] /\ r \in 1..Len(next)
  BY VersionsGrow
<1>2. Len(vs) \in Nat BY DEF VersionsOK
<1> HIDE DEF next
<1>3. DraftOK(page, next) BY <1>1 DEF PageOK, DraftOK
<1>4. UnderWay(page, next)
  <2> SUFFICES ASSUME page.request # NoRequest PROVE UnderWay(page, next)
    BY DEF UnderWay
  <2> DEFINE request == page.request
  <2>1. /\ request.revision \in 1..Len(vs) /\ request.shown \in 1..Len(vs)
        /\ request.refilled \in 0..Len(vs) /\ (Landing(request) => request.answer \in 1..Len(vs))
    BY DEF PageOK, UnderWay
  <2>2. request.refilled # NoAnswer => request.refilled \in 1..Len(vs)
    BY <1>2, <2>1 DEF NoAnswer
  <2>3. request.refilled \in 0..Len(next) BY <1>1, <1>2, <2>1
  <2> QED BY <1>1, <2>1, <2>2, <2>3 DEF PageOK, UnderWay
<1> QED BY <1>3, <1>4 DEF PageOK, next

\* A request is marked, and stays the request it is.
Marked(next, request) ==
  IF request = NoRequest THEN next = NoRequest
  ELSE /\ next \in Requests /\ next # NoRequest
       /\ next.kind = request.kind /\ next.revision = request.revision
       /\ next.submitted = request.submitted /\ next.shown = request.shown
       /\ next.answer = request.answer /\ next.mine = request.mine
       /\ next.astray = request.astray

LEMMA RequestMarked ==
  ASSUME NEW request \in Requests \cup {NoRequest}, NEW r \in Nat
  PROVE  /\ Marked(Overtaken(request), request) /\ Marked(Refilled(request, r), request)
         /\ request # NoRequest => /\ Overtaken(request).refilled = request.refilled
                                   /\ Refilled(request, r).refilled = r
         /\ request \in Requests => request # NoRequest
<1>1. NoRequest.kind = "none" BY DEF NoRequest
<1>2. \A q \in Requests : q.kind # "none" /\ q # NoRequest
  BY <1>1 DEF Requests, RequestKinds, DraftKinds, ListKinds
<1>3. CASE request = NoRequest
  BY <1>1, <1>2, <1>3 DEF Marked, Overtaken, Refilled
<1>4. CASE request # NoRequest
  <2>1. request \in Requests /\ request.kind # "none" BY <1>2, <1>4
  <2> DEFINE o == [request EXCEPT !.overtaken = TRUE]
             f == [request EXCEPT !.overtaken = TRUE, !.refilled = r]
  <2>2. Overtaken(request) = o /\ Refilled(request, r) = f BY <2>1 DEF Overtaken, Refilled
  <2>3. /\ o \in Requests /\ o.kind = request.kind /\ o.revision = request.revision
        /\ o.submitted = request.submitted /\ o.shown = request.shown
        /\ o.answer = request.answer /\ o.mine = request.mine
        /\ o.astray = request.astray /\ o.refilled = request.refilled
    BY <2>1 DEF Requests
  <2>4. /\ f \in Requests /\ f.kind = request.kind /\ f.revision = request.revision
        /\ f.submitted = request.submitted /\ f.shown = request.shown
        /\ f.answer = request.answer /\ f.mine = request.mine
        /\ f.astray = request.astray /\ f.refilled = r
    BY <2>1 DEF Requests
  <2> HIDE DEF o, f
  <2> QED BY <1>2, <1>4, <2>2, <2>3, <2>4 DEF Marked
<1> QED BY <1>3, <1>4

\* Another page with the form of this one.
LEMMA BuiltTransfers ==
  ASSUME NEW form, NEW other, NEW config, NEW mine, NEW more,
         Built(other, config, mine), mine \subseteq more, SameForm(form, other, more)
  PROVE  Built(form, config, more)
<1> SUFFICES ASSUME NEW field \in FormFields \ more PROVE Matches(form, config, field)
  BY DEF Built
<1>1. Matches(other, config, field) /\ FieldOf(form, field) = FieldOf(other, field)
  BY DEF Built, SameForm
<1> QED BY <1>1, SameFieldMatches

LEMMA FreshBuilt ==
  ASSUME NEW config, NEW mine
  PROVE  Built(formFromConfig(config), config, mine) /\ Picked(formFromConfig(config), mine)
BY FreshMatches, FormParts DEF Built, Picked

LEMMA PageReplaced ==
  ASSUME VersionsOK(versions), NEW page, PageOK(page, versions), NEW r \in 1..Len(versions)
  PROVE  PageOK(replaceConfigAndForm(page, r), versions)
<1> DEFINE form == formFromConfig(versions[r])
           request == Refilled(page.request, r)
           next == replaceConfigAndForm(page, r)
<1>1. /\ page \in PageStates /\ page.request \in Requests \cup {NoRequest}
      /\ page.heard \in 1..Len(versions)
  BY DEF PageOK, DraftOK, PageStates
<1>2. form \in Forms /\ r \in Nat /\ Len(versions) \in Nat /\ versions[r] \in Configs
  BY FormTyped DEF VersionsOK, WellFormed
<1>3. /\ Marked(request, page.request)
      /\ page.request # NoRequest => request.refilled = r
  BY <1>1, <1>2, RequestMarked
<1>4. Built(form, versions[r], {}) /\ Picked(form, {}) BY FreshBuilt
<1>5. next = [page EXCEPT !.shown = r, !.formRevision = r, !.mine = {}, !.astray = FALSE,
                          !.form = form, !.request = request]
  BY DEF replaceConfigAndForm
<1> HIDE DEF form, request, next
<1>6. request \in Requests \cup {NoRequest} BY <1>3 DEF Marked
<1>7. /\ next \in PageStates /\ next.shown = r /\ next.formRevision = r /\ next.mine = {}
      /\ next.astray = FALSE /\ next.form = form /\ next.request = request
      /\ next.heard = page.heard
  BY <1>1, <1>2, <1>5, <1>6 DEF PageStates
<1>8. DraftOK(next, versions) BY <1>1, <1>4, <1>7 DEF DraftOK
<1>9. UnderWay(next, versions)
  <2> SUFFICES ASSUME request # NoRequest PROVE UnderWay(next, versions)
    BY <1>7 DEF UnderWay
  <2>1. page.request # NoRequest BY <1>3 DEF Marked
  <2>2. request.refilled = r /\ r # NoAnswer /\ r \in 0..Len(versions)
    BY <1>2, <1>3, <2>1 DEF NoAnswer
  <2>3. Landing(request) <=> Landing(page.request) BY <1>3, <2>1 DEF Marked, Landing
  <2> QED BY <1>3, <1>4, <1>7, <2>1, <2>2, <2>3 DEF PageOK, UnderWay, Marked
<1> QED BY <1>8, <1>9 DEF PageOK, next


LEMMA BaselineAdopted ==
  ASSUME VersionsOK(versions), NEW page, PageOK(page, versions), NEW r \in 1..Len(versions)
  PROVE  PageOK(adoptBaselineKeepingDraft(page, r), versions)
<1> DEFINE touches == isFormDirty(versions[r], formFromConfig(versions[page.shown]))
           revision == IF touches \/ page.formRevision # page.shown THEN page.formRevision ELSE r
           next == adoptBaselineKeepingDraft(page, r)
<1>1. page \in PageStates /\ page.formRevision \in 1..Len(versions) /\ page.heard \in 1..Len(versions)
  BY DEF PageOK, DraftOK
<1>2. r \in Nat /\ revision \in 1..Len(versions) /\ revision \in Nat
  BY <1>1 DEF VersionsOK
<1>3. next = [page EXCEPT !.shown = r, !.formRevision = revision]
  BY DEF adoptBaselineKeepingDraft
<1>4. ASSUME ~page.astray PROVE Built(page.form, versions[revision], page.mine)
  <2>1. Built(page.form, versions[page.formRevision], page.mine) BY <1>4 DEF PageOK, DraftOK
  <2>2. CASE touches \/ page.formRevision # page.shown BY <2>1, <2>2
  <2>3. CASE ~touches /\ page.formRevision = page.shown
    <3>1. formFromConfig(versions[page.formRevision]) = formFromConfig(versions[r])
      BY <2>3 DEF isFormDirty
    <3>2. Built(page.form, versions[r], page.mine)
      BY <2>1, <3>1, SameShownMatches DEF Built
    <3> QED BY <2>3, <3>2
  <2> QED BY <2>2, <2>3
<1> HIDE DEF revision, next
<1>5. /\ next \in PageStates /\ next.shown = r /\ next.formRevision = revision
      /\ next.mine = page.mine /\ next.astray = page.astray /\ next.form = page.form
      /\ next.request = page.request /\ next.heard = page.heard
  BY <1>1, <1>2, <1>3 DEF PageStates
<1>6. DraftOK(next, versions) BY <1>1, <1>2, <1>4, <1>5 DEF PageOK, DraftOK
<1>7. UnderWay(next, versions) BY <1>5 DEF PageOK, UnderWay
<1> QED BY <1>6, <1>7 DEF PageOK, next

LEMMA RemoteAdopted ==
  ASSUME VersionsOK(versions), NEW page, PageOK(page, versions), NEW r \in 1..Len(versions)
  PROVE  PageOK(remoteConfig(page, r), versions)
BY PageReplaced, BaselineAdopted DEF remoteConfig

LEMMA FormSet ==
  ASSUME NEW page \in PageStates, NEW form \in Forms
  PROVE  /\ setForm(page, form) \in PageStates
         /\ setForm(page, form).form = form /\ setForm(page, form).mine = page.mine
         /\ setForm(page, form).shown = page.shown /\ setForm(page, form).heard = page.heard
         /\ setForm(page, form).formRevision = page.formRevision
         /\ setForm(page, form).astray = page.astray
         /\ setForm(page, form).request = Overtaken(page.request)
         /\ Marked(Overtaken(page.request), page.request)
         /\ page.request # NoRequest =>
              Overtaken(page.request).refilled = page.request.refilled
<1> DEFINE request == Overtaken(page.request)
           next == setForm(page, form)
<1>1. page.request \in Requests \cup {NoRequest} BY DEF PageStates
<1>2. /\ Marked(request, page.request)
      /\ page.request # NoRequest => request.refilled = page.request.refilled
  <2>1. 0 \in Nat OBVIOUS
  <2> QED BY <1>1, <2>1, RequestMarked
<1>3. next = [page EXCEPT !.form = form, !.request = request] BY DEF setForm
<1>4. request \in Requests \cup {NoRequest} BY <1>2 DEF Marked
<1> HIDE DEF request, next
<1>5. /\ next \in PageStates /\ next.form = form /\ next.mine = page.mine
      /\ next.shown = page.shown /\ next.heard = page.heard
      /\ next.formRevision = page.formRevision /\ next.astray = page.astray
      /\ next.request = request
  BY <1>3, <1>4 DEF PageStates
<1> QED BY <1>2, <1>5 DEF next, request

\* An edit of the form is the operator's.
LEMMA FormEdited ==
  ASSUME VersionsOK(versions), NEW page, PageOK(page, versions),
         NEW form \in Forms, NEW fields \in SUBSET FormFields,
         SameForm(form, page.form, page.mine \cup fields),
         form.importConflict \/ Picked(form, page.mine \cup fields)
  PROVE  PageOK([setForm(page, form) EXCEPT !.mine = page.mine \cup fields], versions)
<1> DEFINE more == page.mine \cup fields
           request == Overtaken(page.request)
           next == [setForm(page, form) EXCEPT !.mine = more]
<1>1. /\ page \in PageStates /\ page.shown \in 1..Len(versions)
      /\ page.formRevision \in 1..Len(versions) /\ page.heard \in 1..Len(versions)
  BY DEF PageOK, DraftOK
<1>2. more \in SUBSET FormFields /\ page.mine \subseteq more BY <1>1 DEF PageStates
<1>3. /\ Marked(request, page.request)
      /\ page.request # NoRequest => request.refilled = page.request.refilled
  BY <1>1, FormSet
<1>4. /\ SameForm(form, page.form, more) /\ (form.importConflict \/ Picked(form, more))
  OBVIOUS
<1>5. \A config : Built(page.form, config, page.mine) => Built(form, config, more)
  BY <1>2, <1>4, BuiltTransfers
<1> HIDE DEF more
<1>6. /\ next \in PageStates /\ next.form = form /\ next.mine = more
      /\ next.shown = page.shown /\ next.heard = page.heard
      /\ next.formRevision = page.formRevision /\ next.astray = page.astray
      /\ next.request = request
  BY <1>1, <1>2, FormSet DEF PageStates
<1> HIDE DEF request, next
<1>7. DraftOK(next, versions) BY <1>1, <1>4, <1>5, <1>6 DEF PageOK, DraftOK
<1>8. UnderWay(next, versions)
  <2> SUFFICES ASSUME request # NoRequest PROVE UnderWay(next, versions)
    BY <1>6 DEF UnderWay
  <2>1. page.request # NoRequest BY <1>3 DEF Marked
  <2>2. Landing(request) <=> Landing(page.request) BY <1>3, <2>1 DEF Marked, Landing
  <2>3. request.refilled = NoAnswer =>
          /\ request.astray = next.astray /\ request.mine \subseteq more
          /\ SameForm(form, request.submitted, more)
    <3> SUFFICES ASSUME request.refilled = NoAnswer
                 PROVE  /\ request.astray = next.astray /\ request.mine \subseteq more
                        /\ SameForm(form, request.submitted, more)
      OBVIOUS
    <3>1. /\ page.request.astray = page.astray /\ page.request.mine \subseteq page.mine
          /\ SameForm(page.form, page.request.submitted, page.mine)
      BY <1>3, <2>1 DEF PageOK, UnderWay
    <3> QED BY <1>2, <1>3, <1>4, <1>6, <2>1, <3>1 DEF Marked, SameForm
  <2>4. request.refilled # NoAnswer => Built(form, versions[request.refilled], more)
    BY <1>3, <1>5, <2>1 DEF PageOK, UnderWay
  <2> QED BY <1>3, <1>6, <2>1, <2>2, <2>3, <2>4 DEF PageOK, UnderWay, Marked
<1> QED BY <1>7, <1>8 DEF PageOK, next, more

\* An edit of one field of a row.
LEMMA PoolEdited ==
  ASSUME NEW pool \in FormPools, NEW next \in PoolEdits(pool)
  PROVE  next \in FormPools
<1>1. PICK ids \in SUBSET PoolId :
        pool \in [ids -> [typed : Credential \cup {Unset}, tail : Credential]]
  BY DEF FormPools
<1>2. CASE next \in {[id \in DOMAIN pool \ {gone} |-> pool[id]] : gone \in DOMAIN pool}
  <2>1. PICK gone \in DOMAIN pool : next = [id \in DOMAIN pool \ {gone} |-> pool[id]]
    BY <1>2
  <2>2. next \in [ids \ {gone} -> [typed : Credential \cup {Unset}, tail : Credential]]
    BY <1>1, <2>1
  <2> QED BY <2>2 DEF FormPools
<1>3. ASSUME NEW new \in PoolId \ DOMAIN pool, NEW key \in Secret,
             next = [id \in DOMAIN pool \cup {new} |->
                       IF id = new THEN [typed |-> key, tail |-> NoSecret] ELSE pool[id]]
      PROVE  next \in FormPools
  <2>1. [typed |-> key, tail |-> NoSecret] \in [typed : Credential \cup {Unset}, tail : Credential]
    BY DEF Credential
  <2>2. next \in [ids \cup {new} -> [typed : Credential \cup {Unset}, tail : Credential]]
    BY <1>1, <1>3, <2>1
  <2>3. ids \cup {new} \in SUBSET PoolId OBVIOUS
  <2> QED BY <2>2, <2>3 DEF FormPools
<1>4. ASSUME NEW new \in PoolId \ DOMAIN pool,
             next \in {[id \in DOMAIN pool \cup {new} |->
                          IF id = new THEN [typed |-> key, tail |-> NoSecret] ELSE pool[id]] :
                       key \in Secret}
      PROVE  next \in FormPools
  BY <1>3, <1>4
<1>5. CASE next \in UNION {{[id \in DOMAIN pool \cup {new} |->
                           IF id = new THEN [typed |-> key, tail |-> NoSecret] ELSE pool[id]] :
                         key \in Secret} : new \in PoolId \ DOMAIN pool}
  BY <1>4, <1>5
<1> QED BY <1>2, <1>5 DEF PoolEdits

RouteEdited(next, route, name, value) ==
  /\ name \in {"url", "rest", "key", "pool"}
  /\ next \in FormRoutes /\ next.preset = route.preset
  /\ \A other \in {"url", "rest", "key", "pool"} : other # name => next[other] = route[other]

LEMMA RowEdits ==
  ASSUME NEW route \in FormRoutes, NEW edit \in RouteEdits(route)
  PROVE  RouteEdited([route EXCEPT ![edit[1]] = edit[2]], route, edit[1], edit[2])
<1>1. ASSUME NEW url \in Url, edit = <<"url", url>>
      PROVE  RouteEdited([route EXCEPT ![edit[1]] = edit[2]], route, edit[1], edit[2])
  <2>1. edit[1] = "url" /\ edit[2] = url BY <1>1
  <2>2. [route EXCEPT ![edit[1]] = edit[2]] = [route EXCEPT !.url = url] BY <2>1
  <2>3. [route EXCEPT !.url = url] \in FormRoutes BY DEF FormRoutes
  <2> QED BY <2>1, <2>2, <2>3 DEF RouteEdited, FormRoutes
<1>2. ASSUME NEW rest \in Rest, edit = <<"rest", rest>>
      PROVE  RouteEdited([route EXCEPT ![edit[1]] = edit[2]], route, edit[1], edit[2])
  <2>1. edit[1] = "rest" /\ edit[2] = rest BY <1>2
  <2>2. [route EXCEPT ![edit[1]] = edit[2]] = [route EXCEPT !.rest = rest] BY <2>1
  <2>3. [route EXCEPT !.rest = rest] \in FormRoutes BY DEF FormRoutes
  <2> QED BY <2>1, <2>2, <2>3 DEF RouteEdited, FormRoutes
<1>3. ASSUME NEW key \in Credential, edit = <<"key", key>>
      PROVE  RouteEdited([route EXCEPT ![edit[1]] = edit[2]], route, edit[1], edit[2])
  <2>1. edit[1] = "key" /\ edit[2] = key BY <1>3
  <2>2. [route EXCEPT ![edit[1]] = edit[2]] = [route EXCEPT !.key = key] BY <2>1
  <2>3. [route EXCEPT !.key = key] \in FormRoutes BY DEF FormRoutes
  <2> QED BY <2>1, <2>2, <2>3 DEF RouteEdited, FormRoutes
<1>4. ASSUME NEW pool \in PoolEdits(route.pool), edit = <<"pool", pool>>
      PROVE  RouteEdited([route EXCEPT ![edit[1]] = edit[2]], route, edit[1], edit[2])
  <2>1. edit[1] = "pool" /\ edit[2] = pool BY <1>4
  <2>2. [route EXCEPT ![edit[1]] = edit[2]] = [route EXCEPT !.pool = pool] BY <2>1
  <2>3. pool \in FormPools BY PoolEdited DEF FormRoutes
  <2>4. [route EXCEPT !.pool = pool] \in FormRoutes BY <2>3 DEF FormRoutes
  <2> QED BY <2>1, <2>2, <2>4 DEF RouteEdited, FormRoutes
<1> QED BY <1>1, <1>2, <1>3, <1>4 DEF RouteEdits

\* A form with one row replaced.
RowSet(next, form, scope, route) ==
  /\ next \in Forms /\ next.settings = form.settings
  /\ next.importConflict = form.importConflict /\ next.route[scope] = route
  /\ \A s \in ConfigScope : s # scope => next.route[s] = form.route[s]

LEMMA RowReplaced ==
  ASSUME NEW form \in Forms, NEW scope \in ConfigScope, NEW route \in FormRoutes
  PROVE  RowSet([form EXCEPT !.route = [form.route EXCEPT ![scope] = route]], form, scope, route)
BY DEF RowSet, Forms

\* Forms that differ in some fields of one row.
LEMMA RowDiffers ==
  ASSUME NEW form, NEW next, NEW scope \in ConfigScope, NEW mine,
         next.settings = form.settings,
         \A s \in ConfigScope : s # scope => next.route[s] = form.route[s],
         \A name \in {"url", "key", "pool", "rest"} :
           <<scope, name>> \in mine \/ next.route[scope][name] = form.route[scope][name]
  PROVE  SameForm(next, form, mine)
<1> SUFFICES ASSUME NEW field \in FormFields \ mine PROVE FieldOf(next, field) = FieldOf(form, field)
  BY DEF SameForm
<1>1. CASE field = SettingsField BY <1>1 DEF FieldOf
<1>2. ASSUME field # SettingsField, NEW s \in ConfigScope,
             NEW name \in {"url", "key", "pool", "rest"}, field = <<s, name>>,
             field[1] = s, field[2] = name
      PROVE  FieldOf(next, field) = FieldOf(form, field)
  <2>1. next.route[s][name] = form.route[s][name] BY <1>2
  <2> QED BY <1>2, <2>1 DEF FieldOf
<1> QED BY <1>1, <1>2, FieldsAre

\* The operator edits a field, picks a saved URL, or edits the settings.
LEMMA RouteDrafted ==
  ASSUME VersionsOK(versions), NEW page, PageOK(page, versions), NEW scope \in ConfigScope,
         NEW edit \in RouteEdits(page.form.route[scope]),
         NEW form, form = [page.form EXCEPT !.route[scope][edit[1]] = edit[2]]
  PROVE  /\ {<<scope, edit[1]>>} \in SUBSET FormFields
         /\ PageOK([setForm(page, form) EXCEPT !.mine = page.mine \cup {<<scope, edit[1]>>}],
                   versions)
<1> DEFINE old == page.form
           route == [old.route[scope] EXCEPT ![edit[1]] = edit[2]]
           fields == {<<scope, edit[1]>>}
           all == page.mine \cup fields
<1>1. old \in Forms /\ old.route[scope] \in FormRoutes
  BY DEF PageOK, DraftOK, PageStates, Forms
<1>2. RouteEdited(route, old.route[scope], edit[1], edit[2])
  BY <1>1, RowEdits
<1>3. form = [old EXCEPT !.route = [old.route EXCEPT ![scope] = route]] OBVIOUS
<1>4. route \in FormRoutes BY <1>2 DEF RouteEdited
<1> HIDE DEF route, old
<1>5. /\ form \in Forms /\ form.settings = old.settings
      /\ form.importConflict = old.importConflict /\ form.route[scope] = route
      /\ \A s \in ConfigScope : s # scope => form.route[s] = old.route[s]
  BY <1>1, <1>3, <1>4 DEF Forms
<1>6. \A name \in {"url", "key", "pool", "rest"} :
        <<scope, name>> \in all \/ form.route[scope][name] = old.route[scope][name]
  <2> SUFFICES ASSUME NEW name \in {"url", "key", "pool", "rest"}
               PROVE  <<scope, name>> \in all \/ form.route[scope][name] = old.route[scope][name]
    OBVIOUS
  <2>1. CASE name = edit[1] BY <2>1
  <2>2. CASE name # edit[1] BY <1>2, <1>5, <2>2 DEF RouteEdited
  <2> QED BY <2>1, <2>2
<1>7. fields \in SUBSET FormFields
  <2>1. edit[1] \in {"url", "key", "pool", "rest"} BY <1>2 DEF RouteEdited
  <2>2. <<scope, edit[1]>> \in ScopeFields(scope) BY <2>1 DEF ScopeFields
  <2> QED BY <2>2 DEF FormFields
<1>8. form.importConflict \/ Picked(form, all)
  <2> SUFFICES ASSUME ~form.importConflict PROVE Picked(form, all) OBVIOUS
  <2>1. Picked(old, page.mine) BY <1>5 DEF PageOK, DraftOK, old
  <2>2. \A s \in ConfigScope : form.route[s].preset = old.route[s].preset
    BY <1>2, <1>5 DEF RouteEdited
  <2> QED BY <2>1, <2>2 DEF Picked
<1> HIDE DEF fields, all
<1>9. SameForm(form, old, all) BY <1>5, <1>6, RowDiffers
<1> QED BY <1>5, <1>7, <1>8, <1>9, FormEdited DEF old, fields, all

\* What picking a saved URL makes of a form.
PresetRow(route, url) == [route EXCEPT !.url = url, !.preset = url, !.key = Unset]
PresetForm(form, scope, url) ==
  [form EXCEPT !.route = [form.route EXCEPT ![scope] = PresetRow(form.route[scope], url)]]

LEMMA PresetSet ==
  ASSUME NEW form \in Forms, NEW scope \in ConfigScope, NEW url \in Url
  PROVE  /\ RowSet(PresetForm(form, scope, url), form, scope, PresetRow(form.route[scope], url))
         /\ PresetRow(form.route[scope], url).pool = form.route[scope].pool
         /\ PresetRow(form.route[scope], url).rest = form.route[scope].rest
<1> DEFINE route == PresetRow(form.route[scope], url)
<1>1. form.route[scope] \in FormRoutes BY DEF Forms
<1>2. /\ route \in FormRoutes /\ route.pool = form.route[scope].pool
      /\ route.rest = form.route[scope].rest
  BY <1>1 DEF FormRoutes, PresetRow
<1> HIDE DEF route
<1>3. RowSet([form EXCEPT !.route = [form.route EXCEPT ![scope] = route]], form, scope, route)
  BY <1>2, RowReplaced
<1> QED BY <1>2, <1>3 DEF PresetForm, route

LEMMA PresetPicked ==
  ASSUME VersionsOK(versions), NEW page, PageOK(page, versions), NEW scope \in ConfigScope,
         NEW url \in Url
  PROVE  /\ {<<scope, "url">>, <<scope, "key">>} \in SUBSET FormFields
         /\ PageOK([setForm(page, PresetForm(page.form, scope, url)) EXCEPT
                      !.mine = page.mine \cup {<<scope, "url">>, <<scope, "key">>}], versions)
<1> DEFINE old == page.form
           form == PresetForm(page.form, scope, url)
           route == PresetRow(old.route[scope], url)
           fields == {<<scope, "url">>, <<scope, "key">>}
           all == page.mine \cup fields
<1>1. old \in Forms BY DEF PageOK, DraftOK, PageStates
<1>2. RowSet(form, old, scope, route) BY <1>1, PresetSet
<1>3. route.pool = old.route[scope].pool /\ route.rest = old.route[scope].rest
  BY <1>1, PresetSet
<1> HIDE DEF route, old, form
<1>4. /\ form \in Forms /\ form.settings = old.settings
      /\ form.importConflict = old.importConflict /\ form.route[scope] = route
      /\ \A s \in ConfigScope : s # scope => form.route[s] = old.route[s]
  BY <1>2 DEF RowSet
<1>5. \A name \in {"url", "key", "pool", "rest"} :
        <<scope, name>> \in all \/ form.route[scope][name] = old.route[scope][name]
  BY <1>3, <1>4
<1>6. fields \in SUBSET FormFields
  <2>1. <<scope, "url">> \in ScopeFields(scope) /\ <<scope, "key">> \in ScopeFields(scope)
    BY DEF ScopeFields
  <2> QED BY <2>1 DEF FormFields
<1>7. form.importConflict \/ Picked(form, all)
  <2> SUFFICES ASSUME ~form.importConflict PROVE Picked(form, all) OBVIOUS
  <2>1. Picked(old, page.mine) BY <1>4 DEF PageOK, DraftOK, old
  <2> QED BY <1>4, <2>1 DEF Picked
<1> HIDE DEF fields, all
<1>8. SameForm(form, old, all) BY <1>4, <1>5, RowDiffers
<1> QED BY <1>4, <1>6, <1>7, <1>8, FormEdited DEF old, form, fields, all

LEMMA SettingsDrafted ==
  ASSUME VersionsOK(versions), NEW page, PageOK(page, versions), NEW setting \in Setting,
         NEW form, form = [page.form EXCEPT !.settings = setting]
  PROVE  /\ {SettingsField} \in SUBSET FormFields
         /\ PageOK([setForm(page, form) EXCEPT !.mine = page.mine \cup {SettingsField}], versions)
<1> DEFINE all == page.mine \cup {SettingsField}
<1>1. page.form \in Forms BY DEF PageOK, DraftOK, PageStates
<1>2. /\ form \in Forms /\ form.route = page.form.route
      /\ form.importConflict = page.form.importConflict
  BY <1>1 DEF Forms
<1>3. {SettingsField} \in SUBSET FormFields BY DEF FormFields
<1>4. SettingsField \in all OBVIOUS
<1>5. form.importConflict \/ Picked(form, all)
  BY <1>2 DEF PageOK, DraftOK, Picked
<1> HIDE DEF all
<1>6. SameForm(form, page.form, all) BY <1>2, <1>4 DEF SameForm, FieldOf
<1> QED BY <1>2, <1>3, <1>5, <1>6, FormEdited DEF all

\* A request carries the page as it is, under the revision of its draft or, as the
\* operator's choice in every field, under another one.
LEMMA RequestSent ==
  ASSUME VersionsOK(versions), NEW page, PageOK(page, versions), page.request = NoRequest,
         NEW kind \in RequestKinds, kind \in DraftKinds => ~page.form.importConflict,
         NEW revision \in 1..Len(versions), NEW mine \in SUBSET FormFields,
         (revision = page.formRevision /\ mine = page.mine) \/ mine = FormFields
  PROVE  PageOK(Sent(page, kind, revision, mine), versions)
<1> DEFINE request ==
             [kind |-> kind, revision |-> revision, submitted |-> page.form,
              shown |-> page.shown, overtaken |-> FALSE, answer |-> NoAnswer,
              mine |-> mine, astray |-> page.astray, refilled |-> NoAnswer]
           next == Sent(page, kind, revision, mine)
<1>1. /\ page \in PageStates /\ page.form \in Forms /\ page.shown \in 1..Len(versions)
      /\ page.heard \in 1..Len(versions) /\ page.astray \in BOOLEAN
      /\ page.mine \in SUBSET FormFields /\ page.shown \in Nat
  BY DEF PageOK, DraftOK, PageStates
<1>2. revision \in Nat /\ Len(versions) \in Nat /\ 0 \in 0..Len(versions)
  BY DEF VersionsOK
<1>3. next = [page EXCEPT !.formRevision = revision, !.mine = mine, !.request = request]
  BY DEF Sent
<1>4. /\ request \in Requests /\ request.kind = kind /\ request.revision = revision
      /\ request.submitted = page.form /\ request.shown = page.shown
      /\ request.answer = NoAnswer /\ request.mine = mine
      /\ request.astray = page.astray /\ request.refilled = NoAnswer
  BY <1>1, <1>2 DEF Requests, NoAnswer
<1> HIDE DEF request, next
<1>5. /\ next \in PageStates /\ next.form = page.form /\ next.mine = mine
      /\ next.shown = page.shown /\ next.heard = page.heard
      /\ next.formRevision = revision /\ next.astray = page.astray
      /\ next.request = request
  BY <1>1, <1>2, <1>3, <1>4 DEF PageStates
<1>6. ~page.astray => Built(page.form, versions[revision], mine)
  <2>1. CASE revision = page.formRevision /\ mine = page.mine
    BY <2>1 DEF PageOK, DraftOK
  <2>2. CASE mine = FormFields BY <2>2 DEF Built
  <2> QED BY <2>1, <2>2
<1>7. page.form.importConflict \/ Picked(page.form, mine)
  <2>1. CASE mine = page.mine BY <2>1 DEF PageOK, DraftOK
  <2>2. CASE mine = FormFields
    <3>1. ASSUME NEW scope \in ConfigScope
          PROVE  <<scope, "url">> \in FormFields /\ <<scope, "key">> \in FormFields
      <4>1. <<scope, "url">> \in ScopeFields(scope) /\ <<scope, "key">> \in ScopeFields(scope)
        BY DEF ScopeFields
      <4> QED BY <4>1 DEF FormFields
    <3> QED BY <2>2, <3>1 DEF Picked
  <2> QED BY <2>1, <2>2
<1>8. DraftOK(next, versions) BY <1>1, <1>5, <1>6, <1>7 DEF DraftOK
<1>9. ~Landing(request) BY <1>4 DEF Landing
<1>10. SameForm(page.form, page.form, mine) BY DEF SameForm
<1>11. UnderWay(next, versions)
  BY <1>1, <1>2, <1>4, <1>5, <1>6, <1>7, <1>9, <1>10 DEF UnderWay, NoAnswer
<1> QED BY <1>8, <1>11 DEF PageOK, next

LEMMA AdoptedAreFields == AdoptedFields \in SUBSET FormFields
<1>1. ASSUME NEW field \in AdoptedFields PROVE field \in FormFields
  <2>1. PICK scope \in ConfigScope, name \in {"url", "key", "pool"} : field = <<scope, name>>
    BY DEF AdoptedFields
  <2>2. <<scope, name>> \in ScopeFields(scope) BY DEF ScopeFields
  <2> QED BY <2>1, <2>2 DEF FormFields
<1> QED BY <1>1

\* Only the connections are taken over: models and settings stay as they are.
LEMMA ConnectionsAdopted ==
  ASSUME NEW form \in Forms, NEW config \in Configs
  PROVE  /\ adoptImportedConnections(form, config) \in Forms
         /\ SameForm(adoptImportedConnections(form, config), form, AdoptedFields)
         /\ \A mine : Picked(adoptImportedConnections(form, config), mine)
         /\ \A field \in AdoptedFields :
              Matches(adoptImportedConnections(form, config), config, field)
<1> DEFINE saved == formFromConfig(config)
           taken(scope) == [saved.route[scope] EXCEPT !.rest = form.route[scope].rest]
           next == adoptImportedConnections(form, config)
           rows == [scope \in ConfigScope |-> taken(scope)]
<1>1. saved \in Forms BY FormTyped
<1>2. /\ saved.settings = config.settings
      /\ \A scope \in ConfigScope :
           /\ saved.route[scope].url = config.route[scope].url
           /\ saved.route[scope].key = Unset /\ saved.route[scope].preset = Unset
           /\ DOMAIN saved.route[scope].pool = DOMAIN config.route[scope].pool
           /\ \A id \in DOMAIN config.route[scope].pool : saved.route[scope].pool[id].typed = Unset
  BY FormParts
<1>3. next = [form EXCEPT !.route = rows, !.importConflict = FALSE]
  BY DEF adoptImportedConnections
<1> HIDE DEF next, saved
<1>4. ASSUME NEW scope \in ConfigScope
      PROVE  /\ taken(scope) \in FormRoutes /\ taken(scope).rest = form.route[scope].rest
             /\ taken(scope).url = saved.route[scope].url /\ taken(scope).key = saved.route[scope].key
             /\ taken(scope).preset = saved.route[scope].preset
             /\ taken(scope).pool = saved.route[scope].pool
  <2>1. form.route[scope] \in FormRoutes /\ saved.route[scope] \in FormRoutes
    BY <1>1 DEF Forms
  <2> QED BY <2>1 DEF FormRoutes
<1> HIDE DEF taken
<1>5. rows \in [ConfigScope -> FormRoutes] BY <1>4
<1>6. \A scope \in ConfigScope : rows[scope] = taken(scope) OBVIOUS
<1> HIDE DEF rows
<1>7. next \in Forms /\ next.route = rows /\ next.settings = form.settings
  BY <1>3, <1>5 DEF Forms
<1>8. ASSUME NEW field \in FormFields \ AdoptedFields PROVE FieldOf(next, field) = FieldOf(form, field)
  <2>1. CASE field = SettingsField BY <1>7, <2>1 DEF FieldOf
  <2>2. ASSUME field # SettingsField, NEW scope \in ConfigScope,
               NEW name \in {"url", "key", "pool", "rest"}, field = <<scope, name>>,
               field[1] = scope, field[2] = name
        PROVE  FieldOf(next, field) = FieldOf(form, field)
    <3>1. name = "rest" BY <2>2 DEF AdoptedFields
    <3>2. next.route[scope].rest = form.route[scope].rest BY <1>4, <1>6, <1>7
    <3> QED BY <2>2, <3>1, <3>2 DEF FieldOf
  <2> QED BY <2>1, <2>2, FieldsAre
<1>9. \A scope \in ConfigScope : next.route[scope].preset = Unset BY <1>2, <1>4, <1>6, <1>7
<1>10. ASSUME NEW field \in AdoptedFields PROVE Matches(next, config, field)
  <2>1. PICK scope \in ConfigScope, name \in {"url", "key", "pool"} :
          field = <<scope, name>> /\ field[1] = scope /\ field[2] = name
    BY DEF AdoptedFields
  <2>2. field \in FormFields BY AdoptedAreFields
  <2>3. field # SettingsField
    <3>1. SettingsField[1] = "settings" BY DEF SettingsField
    <3>2. scope # "settings" BY DEF ConfigScope
    <3> QED BY <2>1, <3>1, <3>2
  <2>4. /\ next.route[scope].url = config.route[scope].url
        /\ next.route[scope].key = Unset
        /\ DOMAIN next.route[scope].pool = DOMAIN config.route[scope].pool
        /\ \A id \in DOMAIN config.route[scope].pool : next.route[scope].pool[id].typed = Unset
    BY <1>2, <1>4, <1>6, <1>7
  <2> QED BY <2>1, <2>3, <2>4 DEF Matches
<1> QED BY <1>7, <1>8, <1>9, <1>10 DEF SameForm, Picked, next

LEMMA ImportAdopted ==
  ASSUME VersionsOK(versions), NEW page, PageOK(page, versions), NEW based,
         based <=> page.request = NoRequest /\ page.formRevision = page.shown
  PROVE  PageOK(Adopted(page, adoptImportedConnections(page.form, versions[page.shown]),
                        AdoptedFields, based), versions)
<1> DEFINE config == versions[page.shown]
           form == adoptImportedConnections(page.form, config)
<1>1. /\ page \in PageStates /\ page.form \in Forms /\ page.mine \in SUBSET FormFields
      /\ page.shown \in 1..Len(versions) /\ page.heard \in 1..Len(versions)
      /\ page.formRevision \in 1..Len(versions)
  BY DEF PageOK, DraftOK, PageStates
<1>2. config \in Configs BY <1>1 DEF VersionsOK, WellFormed
<1> HIDE DEF config
<1>3. /\ form \in Forms /\ SameForm(form, page.form, AdoptedFields)
      /\ \A mine : Picked(form, mine)
      /\ \A field \in AdoptedFields : Matches(form, config, field)
  BY <1>1, <1>2, ConnectionsAdopted
<1> HIDE DEF form
<1>4. CASE ~based
  <2>1. SameForm(form, page.form, page.mine \cup AdoptedFields) BY <1>3 DEF SameForm
  <2>2. Picked(form, page.mine \cup AdoptedFields) BY <1>3
  <2>3. PageOK([setForm(page, form) EXCEPT !.mine = page.mine \cup AdoptedFields], versions)
    BY <1>3, <2>1, <2>2, AdoptedAreFields, FormEdited
  <2>4. setForm(page, form).mine = page.mine BY <1>1, <1>3, FormSet
  <2>5. Adopted(page, form, AdoptedFields, based)
          = [setForm(page, form) EXCEPT !.mine = page.mine \cup AdoptedFields]
    BY <1>4, <2>4 DEF Adopted
  <2> QED BY <2>3, <2>5 DEF form, config
<1>5. CASE based
  <2> DEFINE less == page.mine \ AdoptedFields
             next == [setForm(page, form) EXCEPT !.mine = less]
  <2>1. page.request = NoRequest /\ page.formRevision = page.shown BY <1>5
  <2>2. Overtaken(page.request) = NoRequest BY <1>1, <1>3, <2>1, FormSet DEF Marked
  <2>3. less \in SUBSET FormFields BY <1>1
  <2> HIDE DEF less
  <2>4. /\ next \in PageStates /\ next.form = form /\ next.mine = less
        /\ next.shown = page.shown /\ next.heard = page.heard
        /\ next.formRevision = page.formRevision /\ next.astray = page.astray
        /\ next.request = NoRequest
    BY <1>1, <1>3, <2>2, <2>3, FormSet DEF PageStates
  <2> HIDE DEF next
  <2>5. ASSUME ~page.astray PROVE Built(form, config, less)
    <3> SUFFICES ASSUME NEW field \in FormFields \ less PROVE Matches(form, config, field)
      BY DEF Built
    <3>1. CASE field \in AdoptedFields BY <1>3, <3>1
    <3>2. CASE field \notin AdoptedFields
      <4>1. field \notin page.mine BY <3>2 DEF less
      <4>2. Built(page.form, config, page.mine) BY <2>1, <2>5 DEF PageOK, DraftOK, config
      <4>3. Matches(page.form, config, field) BY <4>1, <4>2 DEF Built
      <4>4. FieldOf(form, field) = FieldOf(page.form, field) BY <1>3, <3>2 DEF SameForm
      <4> QED BY <4>3, <4>4, SameFieldMatches
    <3> QED BY <3>1, <3>2
  <2>6. DraftOK(next, versions) BY <1>1, <1>3, <2>1, <2>4, <2>5 DEF DraftOK, config
  <2>7. UnderWay(next, versions) BY <2>4 DEF UnderWay
  <2>8. setForm(page, form).mine = page.mine BY <1>1, <1>3, FormSet
  <2>9. Adopted(page, form, AdoptedFields, based) = next
    BY <1>5, <2>8 DEF Adopted, next, less
  <2> QED BY <2>6, <2>7, <2>9 DEF PageOK, form, config
<1> QED BY <1>4, <1>5

\* A snapshot is read off the stream.
LEMMA SnapshotHeard ==
  ASSUME VersionsOK(versions), NEW page, PageOK(page, versions), NEW r \in 1..Len(versions)
  PROVE  PageOK([page EXCEPT !.heard = r], versions)
<1> DEFINE next == [page EXCEPT !.heard = r]
<1>1. page \in PageStates /\ r \in Nat BY DEF PageOK, DraftOK
<1>2. /\ next \in PageStates /\ next.form = page.form /\ next.mine = page.mine
      /\ next.shown = page.shown /\ next.heard = r
      /\ next.formRevision = page.formRevision /\ next.astray = page.astray
      /\ next.request = page.request
  BY <1>1 DEF PageStates
<1> HIDE DEF next
<1>3. DraftOK(next, versions) BY <1>2 DEF PageOK, DraftOK
<1>4. UnderWay(next, versions) BY <1>2 DEF PageOK, UnderWay
<1> QED BY <1>3, <1>4 DEF PageOK, next

-----------------------------------------------------------------------------
(* Answers. *)

\* What the page settles on once the request is gone.
LEMMA RequestDone ==
  ASSUME NEW page, DraftOK(page, versions)
  PROVE  PageOK([page EXCEPT !.request = NoRequest], versions)
<1> DEFINE next == [page EXCEPT !.request = NoRequest]
<1>1. page \in PageStates BY DEF DraftOK
<1>2. /\ next \in PageStates /\ next.form = page.form /\ next.mine = page.mine
      /\ next.shown = page.shown /\ next.heard = page.heard
      /\ next.formRevision = page.formRevision /\ next.astray = page.astray
      /\ next.request = NoRequest
  BY <1>1 DEF PageStates
<1> HIDE DEF next
<1>3. DraftOK(next, versions) BY <1>2 DEF DraftOK
<1>4. UnderWay(next, versions) BY <1>2 DEF UnderWay
<1> QED BY <1>3, <1>4 DEF PageOK, next

\* The draft is put on a revision by an answer.
PutOn(page, r, s) == [Rebased(page, r) EXCEPT !.shown = s]

LEMMA PutOnParts ==
  ASSUME VersionsOK(versions), NEW page, PageOK(page, versions), page.request # NoRequest,
         NEW r \in 1..Len(versions), NEW s \in 1..Len(versions)
  PROVE  /\ PutOn(page, r, s) \in PageStates /\ PutOn(page, r, s).shown = s
         /\ PutOn(page, r, s).formRevision = r /\ PutOn(page, r, s).heard = page.heard
         /\ PutOn(page, r, s).form = page.form /\ PutOn(page, r, s).mine = page.mine
         /\ PutOn(page, r, s).request = page.request
         /\ ~PutOn(page, r, s).astray =>
              /\ ~page.astray
              /\ page.request.refilled # NoAnswer => Built(page.form, versions[r], page.mine)
<1> DEFINE astray == page.astray \/ page.request.refilled \notin {NoAnswer, r}
           next == PutOn(page, r, s)
<1>1. page \in PageStates /\ r \in Nat /\ s \in Nat /\ astray \in BOOLEAN
  BY DEF PageOK, DraftOK, PageStates, VersionsOK
<1>2. next = [page EXCEPT !.formRevision = r, !.astray = astray, !.shown = s]
  BY <1>1 DEF PutOn, Rebased, PageStates
<1>3. page.request.refilled # NoAnswer =>
        Built(page.form, versions[page.request.refilled], page.mine)
  BY DEF PageOK, UnderWay
<1>4. ~astray => ~page.astray /\ page.request.refilled \in {NoAnswer, r} OBVIOUS
<1> HIDE DEF next, astray
<1>5. /\ next \in PageStates /\ next.form = page.form /\ next.mine = page.mine
      /\ next.shown = s /\ next.heard = page.heard
      /\ next.formRevision = r /\ next.astray = astray /\ next.request = page.request
  BY <1>1, <1>2 DEF PageStates
<1>6. ~astray => /\ ~page.astray
                 /\ page.request.refilled # NoAnswer => Built(page.form, versions[r], page.mine)
  BY <1>3, <1>4
<1> QED BY <1>5, <1>6 DEF next

\* A page takes a form, and what of it is the operator's.
LEMMA DraftRefit ==
  ASSUME NEW page \in PageStates, NEW form \in Forms, NEW mine \in SUBSET FormFields,
         page.shown \in 1..Len(versions), page.formRevision \in 1..Len(versions),
         page.heard \in 1..Len(versions),
         ~page.astray => Built(form, versions[page.formRevision], mine),
         form.importConflict \/ Picked(form, mine)
  PROVE  DraftOK([setForm(page, form) EXCEPT !.mine = mine], versions)
<1> DEFINE next == [setForm(page, form) EXCEPT !.mine = mine]
<1>1. /\ next \in PageStates /\ next.form = form /\ next.mine = mine
      /\ next.shown = page.shown /\ next.heard = page.heard
      /\ next.formRevision = page.formRevision /\ next.astray = page.astray
  BY FormSet DEF PageStates
<1> HIDE DEF next
<1> QED BY <1>1 DEF DraftOK, next

\* An answer stands for what was submitted: outside the operator's edits the form
\* is what the answered revision holds.
LEMMA AnswerBuilds ==
  ASSUME VersionsOK(versions), NEW page, PageOK(page, versions), page.request # NoRequest,
         page.request.kind \in DraftKinds, Landing(page.request),
         page.request.refilled = NoAnswer, ~page.astray
  PROVE  Built(page.form, versions[page.request.answer], page.mine)
<1> DEFINE request == page.request
<1>1. /\ request.astray = page.astray /\ request.mine \subseteq page.mine
      /\ SameForm(page.form, request.submitted, page.mine)
      /\ ~request.astray => Built(request.submitted, versions[request.revision], request.mine)
      /\ ~request.astray => \A field \in FormFields \ request.mine :
           FieldOf(versions[request.answer], field) = FieldOf(versions[request.revision], field)
  BY DEF PageOK, UnderWay
<1>2. ~request.astray BY <1>1
<1> HIDE DEF request
<1>3. Built(request.submitted, versions[request.answer], request.mine)
  <2> SUFFICES ASSUME NEW field \in FormFields \ request.mine
               PROVE  Matches(request.submitted, versions[request.answer], field)
    BY DEF Built
  <2>1. Matches(request.submitted, versions[request.revision], field)
    BY <1>1, <1>2 DEF Built
  <2>2. FieldOf(versions[request.revision], field) = FieldOf(versions[request.answer], field)
    BY <1>1, <1>2
  <2> QED BY <2>1, <2>2, SameConfigMatches
<1>4. Built(page.form, versions[request.answer], page.mine)
  BY <1>1, <1>3, BuiltTransfers
<1> QED BY <1>4 DEF request

LEMMA ConfigSet ==
  ASSUME VersionsOK(versions), NEW page, PageOK(page, versions), page.request # NoRequest,
         page.request.kind \in DraftKinds, Landing(page.request)
  PROVE  DraftOK(setConfig(page, page.request.answer), versions)
<1> DEFINE r == page.request.answer
           next == PutOn(page, r, r)
<1>1. /\ page.request.answer \in 1..Len(versions) /\ page.heard \in 1..Len(versions)
      /\ page.form.importConflict \/ Picked(page.form, page.mine)
  BY DEF PageOK, DraftOK, UnderWay
<1>2. ~page.astray /\ page.request.refilled = NoAnswer => Built(page.form, versions[r], page.mine)
  BY AnswerBuilds
<1>3. setConfig(page, r) = next BY DEF setConfig, PutOn
<1> HIDE DEF next
<1>4. /\ next \in PageStates /\ next.shown = r /\ next.formRevision = r
      /\ next.heard = page.heard /\ next.form = page.form /\ next.mine = page.mine
      /\ ~next.astray =>
           /\ ~page.astray
           /\ page.request.refilled # NoAnswer => Built(page.form, versions[r], page.mine)
  BY <1>1, PutOnParts DEF next
<1>5. ~next.astray => Built(page.form, versions[r], page.mine) BY <1>2, <1>4
<1> QED BY <1>1, <1>3, <1>4, <1>5 DEF DraftOK

LEMMA ConfigCommitted ==
  ASSUME VersionsOK(versions), NEW page, PageOK(page, versions), page.request # NoRequest,
         page.request.kind \in DraftKinds, Landing(page.request)
  PROVE  DraftOK(commitConfig(page, page.request.answer), versions)
<1>1. page.request.answer \in 1..Len(versions) BY DEF PageOK, UnderWay
<1> QED BY <1>1, ConfigSet, PageReplaced DEF commitConfig, PageOK

\* One scope of a form is taken over from a configuration.
ScopeTaken(form, config, scope) ==
  [form EXCEPT !.route = [form.route EXCEPT ![scope] = formFromConfig(config).route[scope]]]

LEMMA ScopeAdopted ==
  ASSUME NEW form \in Forms, NEW config \in Configs, NEW scope \in ConfigScope
  PROVE  /\ RowSet(ScopeTaken(form, config, scope), form, scope, formFromConfig(config).route[scope])
         /\ SameForm(ScopeTaken(form, config, scope), form, ScopeFields(scope))
         /\ \A field \in ScopeFields(scope) :
              Matches(ScopeTaken(form, config, scope), config, field)
         /\ ScopeFields(scope) \in SUBSET FormFields
<1> DEFINE saved == formFromConfig(config).route[scope]
           next == ScopeTaken(form, config, scope)
<1>1. saved \in FormRoutes BY FormTyped DEF Forms
<1>2. RowSet(next, form, scope, saved)
  <2> HIDE DEF saved
  <2>1. RowSet([form EXCEPT !.route = [form.route EXCEPT ![scope] = saved]], form, scope, saved)
    BY <1>1, RowReplaced
  <2> QED BY <2>1 DEF ScopeTaken, saved
<1>3. ScopeFields(scope) \in SUBSET FormFields BY DEF FormFields
<1> HIDE DEF next
<1>4. /\ next \in Forms /\ next.settings = form.settings /\ next.route[scope] = saved
      /\ \A s \in ConfigScope : s # scope => next.route[s] = form.route[s]
  BY <1>2 DEF RowSet
<1>5. \A name \in {"url", "key", "pool", "rest"} : <<scope, name>> \in ScopeFields(scope)
  BY DEF ScopeFields
<1>6. SameForm(next, form, ScopeFields(scope)) BY <1>4, <1>5, RowDiffers
<1>7. ASSUME NEW field \in ScopeFields(scope) PROVE Matches(next, config, field)
  <2>1. field \in FormFields BY <1>3
  <2>2. Matches(formFromConfig(config), config, field) BY <2>1, FreshMatches
  <2>3. PICK name \in {"url", "key", "pool", "rest"} :
          field = <<scope, name>> /\ field[1] = scope /\ field[2] = name
    BY DEF ScopeFields
  <2>4. field # SettingsField
    <3>1. SettingsField[1] = "settings" BY DEF SettingsField
    <3>2. scope # "settings" BY DEF ConfigScope
    <3> QED BY <2>3, <3>1, <3>2
  <2>5. FieldOf(next, field) = FieldOf(formFromConfig(config), field)
    BY <1>4, <2>3, <2>4 DEF FieldOf
  <2> QED BY <2>1, <2>2, <2>5, SameFieldMatches
<1> QED BY <1>2, <1>3, <1>6, <1>7 DEF next

\* A page's form but for one scope, which is taken over.
LEMMA ScopePicked ==
  ASSUME NEW form \in Forms, NEW config \in Configs, NEW scope \in ConfigScope, NEW mine,
         form.importConflict \/ Picked(form, mine), NEW less,
         \A field \in mine \ ScopeFields(scope) : field \in less
  PROVE  ScopeTaken(form, config, scope).importConflict \/ Picked(ScopeTaken(form, config, scope), less)
<1> DEFINE next == ScopeTaken(form, config, scope)
           saved == formFromConfig(config).route[scope]
<1>1. RowSet(next, form, scope, saved) BY ScopeAdopted
<1>2. saved.preset = Unset BY FormParts
<1> HIDE DEF next, saved
<1>3. /\ next.importConflict = form.importConflict /\ next.route[scope].preset = Unset
      /\ \A s \in ConfigScope : s # scope => next.route[s] = form.route[s]
  BY <1>1, <1>2 DEF RowSet
<1> SUFFICES ASSUME ~next.importConflict PROVE Picked(next, less) BY DEF next
<1> SUFFICES ASSUME NEW s \in ConfigScope, next.route[s].preset # Unset
             PROVE  <<s, "url">> \in less /\ <<s, "key">> \in less
  BY DEF Picked
<1>4. s # scope /\ next.route[s] = form.route[s] BY <1>3
<1>5. <<s, "url">> \in mine /\ <<s, "key">> \in mine BY <1>3, <1>4 DEF Picked
<1>6. <<s, "url">> \notin ScopeFields(scope) /\ <<s, "key">> \notin ScopeFields(scope)
  BY <1>4 DEF ScopeFields
<1> QED BY <1>5, <1>6

\* The answer to a stored profile: its scope is taken over, if it was not edited.
LEMMA SaveAnswered ==
  ASSUME VersionsOK(versions), NEW page, PageOK(page, versions), page.request # NoRequest,
         page.request.kind \in DraftKinds, Landing(page.request)
  PROVE  DraftOK(afterSave(page, page.request.answer), versions)
<1> DEFINE r == page.request.answer
           set == setConfig(page, r)
           submitted == page.request.submitted
           config == versions[r]
           form == formAfterScopedProfileChange(page.form, config, "codex", submitted)
           taken == ScopeTaken(page.form, config, "codex")
<1>1. /\ page \in PageStates /\ page.form \in Forms /\ page.mine \in SUBSET FormFields
      /\ r \in 1..Len(versions) /\ page.heard \in 1..Len(versions)
      /\ page.form.importConflict \/ Picked(page.form, page.mine)
  BY DEF PageOK, DraftOK, UnderWay, PageStates
<1>2. config \in Configs BY <1>1 DEF VersionsOK, WellFormed
<1>3. DraftOK(set, versions) BY ConfigSet
<1>4. set = PutOn(page, r, r) BY DEF setConfig, PutOn
<1>5. /\ set \in PageStates /\ set.shown = r /\ set.formRevision = r
      /\ set.heard = page.heard /\ set.form = page.form /\ set.mine = page.mine
  BY <1>1, <1>4, PutOnParts
<1>6. "codex" \in ConfigScope BY DEF ConfigScope
<1>7. form = page.form \/ form = taken
  BY DEF formAfterScopedProfileChange, ScopeTaken
<1>8. ~set.astray => Built(page.form, config, page.mine)
  BY <1>3, <1>5 DEF DraftOK
<1>9. /\ RowSet(taken, page.form, "codex", formFromConfig(config).route["codex"])
      /\ SameForm(taken, page.form, ScopeFields("codex"))
      /\ \A field \in ScopeFields("codex") : Matches(taken, config, field)
      /\ ScopeFields("codex") \in SUBSET FormFields
  BY <1>1, <1>2, <1>6, ScopeAdopted
<1> HIDE DEF set, form, taken, config, r
<1>10. taken \in Forms /\ form \in Forms BY <1>1, <1>7, <1>9 DEF RowSet
<1>11. CASE form = taken
  <2> DEFINE less == set.mine \ ScopeFields("codex")
  <2>1. less \in SUBSET FormFields BY <1>1, <1>5
  <2>2. \A field \in page.mine \ ScopeFields("codex") : field \in less BY <1>5
  <2>3. \A field \in FormFields \ ScopeFields("codex") : field \notin less => field \notin page.mine
    BY <1>5
  <2> HIDE DEF less
  <2>4. taken.importConflict \/ Picked(taken, less)
    BY <1>1, <1>2, <1>6, <2>2, ScopePicked DEF taken
  <2>5. ASSUME ~set.astray PROVE Built(taken, config, less)
    <3> SUFFICES ASSUME NEW field \in FormFields \ less PROVE Matches(taken, config, field)
      BY DEF Built
    <3>1. CASE field \in ScopeFields("codex") BY <1>9, <3>1
    <3>2. CASE field \notin ScopeFields("codex")
      <4>1. Matches(page.form, config, field) BY <1>8, <2>3, <2>5, <3>2 DEF Built
      <4>2. FieldOf(taken, field) = FieldOf(page.form, field) BY <1>9, <3>2 DEF SameForm
      <4> QED BY <4>1, <4>2, SameFieldMatches
    <3> QED BY <3>1, <3>2
  <2>6. DraftOK([setForm(set, taken) EXCEPT !.mine = less], versions)
    BY <1>1, <1>5, <1>10, <2>1, <2>4, <2>5, DraftRefit DEF config
  <2>7. setForm(set, taken).mine = set.mine BY <1>5, <1>10, FormSet
  <2>8. Adopted(set, taken, ScopeFields("codex"), TRUE)
          = [setForm(set, taken) EXCEPT !.mine = less]
    BY <2>7 DEF Adopted, less
  <2>9. taken.route["codex"] = formFromConfig(config).route["codex"] BY <1>9 DEF RowSet
  <2> QED BY <1>3, <1>11, <2>6, <2>8, <2>9 DEF afterSave, set, form, config, r
<1>12. CASE form = page.form
  <2>1. DraftOK(setForm(set, form), versions)
    <3>1. /\ setForm(set, form) \in PageStates /\ setForm(set, form).form = form
          /\ setForm(set, form).mine = set.mine /\ setForm(set, form).shown = set.shown
          /\ setForm(set, form).heard = set.heard
          /\ setForm(set, form).formRevision = set.formRevision
          /\ setForm(set, form).astray = set.astray
      BY <1>5, <1>10, FormSet
    <3> QED BY <1>1, <1>3, <1>5, <1>12, <3>1 DEF DraftOK
  <2>2. ASSUME form.route["codex"] = formFromConfig(config).route["codex"]
        PROVE  form = taken
    <3>1. page.form.route \in [ConfigScope -> FormRoutes] BY <1>1 DEF Forms
    <3>2. page.form.route["codex"] = formFromConfig(config).route["codex"] BY <1>12, <2>2
    <3>3. [page.form.route EXCEPT !["codex"] = formFromConfig(config).route["codex"]]
            = page.form.route
      BY <3>1, <3>2
    <3>4. [page.form EXCEPT !.route = page.form.route] = page.form BY <1>1 DEF Forms
    <3> QED BY <1>12, <3>3, <3>4 DEF taken, ScopeTaken
  <2>3. form = taken => DraftOK(afterSave(page, r), versions) BY <1>11 DEF r
  <2>4. afterSave(page, r) \in {set, setForm(set, form)}
          \/ form.route["codex"] = formFromConfig(config).route["codex"]
    BY DEF afterSave, set, form, config
  <2> QED BY <1>3, <2>1, <2>2, <2>3, <2>4 DEF r
<1> QED BY <1>7, <1>11, <1>12

\* The answer to an applied profile: edits that were in conflict when it was sent
\* stay so, on the revision they were made on.
LEMMA ApplyAnswered ==
  ASSUME VersionsOK(versions), NEW page, PageOK(page, versions), page.request # NoRequest,
         Landing(page.request), NEW scope \in ConfigScope
  PROVE  DraftOK(applyProfileConfig(page, page.request.answer, scope), versions)
<1> DEFINE r == page.request.answer
           base == page.request
           config == versions[r]
           form == formAfterScopedProfileChange(page.form, config, scope, page.form)
           before == formFromConfig(versions[base.shown])
           baseline == formAfterScopedProfileChange(before, config, scope, before)
           conflict == \/ base.revision # base.shown
                       \/ isFormDirty(config, baseline)
           revision == IF conflict /\ isFormDirty(config, form) THEN base.revision ELSE r
           taken == ScopeTaken(page.form, config, scope)
           set == PutOn(page, revision, r)
           mine == IF revision = r THEN page.mine \ ScopeFields(scope)
                   ELSE page.mine \cup ScopeFields(scope)
           next == Adopted(set, taken, ScopeFields(scope), revision = r)
<1>1. /\ page \in PageStates /\ page.form \in Forms /\ page.mine \in SUBSET FormFields
      /\ r \in 1..Len(versions) /\ page.heard \in 1..Len(versions)
      /\ base.revision \in 1..Len(versions) /\ base.shown \in 1..Len(versions)
      /\ page.form.importConflict \/ Picked(page.form, page.mine)
  BY DEF PageOK, DraftOK, UnderWay, PageStates
<1>2. config \in Configs /\ versions[base.shown] \in Configs
  BY <1>1 DEF VersionsOK, WellFormed
<1>3. revision \in 1..Len(versions) BY <1>1
<1>4. form = taken BY DEF formAfterScopedProfileChange, ScopeTaken
<1>5. baseline = ScopeTaken(before, config, scope)
  BY DEF formAfterScopedProfileChange, ScopeTaken
<1>6. applyProfileConfig(page, r, scope) = next
  BY <1>4 DEF applyProfileConfig, PutOn
<1>7. ~page.astray /\ base.refilled = NoAnswer =>
        Built(page.form, versions[base.revision], page.mine)
  <2> SUFFICES ASSUME ~page.astray, base.refilled = NoAnswer
               PROVE  Built(page.form, versions[base.revision], page.mine)
    OBVIOUS
  <2>1. /\ base.astray = page.astray /\ base.mine \subseteq page.mine
        /\ SameForm(page.form, base.submitted, page.mine)
        /\ ~base.astray => Built(base.submitted, versions[base.revision], base.mine)
    BY DEF PageOK, UnderWay
  <2> QED BY <2>1, BuiltTransfers
<1>8. /\ RowSet(taken, page.form, scope, formFromConfig(config).route[scope])
      /\ SameForm(taken, page.form, ScopeFields(scope))
      /\ \A field \in ScopeFields(scope) : Matches(taken, config, field)
      /\ ScopeFields(scope) \in SUBSET FormFields
  BY <1>1, <1>2, ScopeAdopted
<1>9. \/ revision = base.revision
      \/ revision = r /\ base.revision = base.shown /\ config \in Configs
           /\ ~isFormDirty(config, baseline)
      \/ revision = r /\ ~isFormDirty(config, form)
  BY <1>2
<1>10. before \in Forms BY <1>2, FormTyped
<1>11. RowSet(baseline, before, scope, formFromConfig(config).route[scope])
       /\ SameForm(baseline, before, ScopeFields(scope))
  BY <1>2, <1>5, <1>10, ScopeAdopted
<1> HIDE DEF form, taken, baseline, conflict
<1>12. /\ set \in PageStates /\ set.shown = r /\ set.formRevision = revision
       /\ set.heard = page.heard /\ set.form = page.form /\ set.mine = page.mine
       /\ ~set.astray =>
            /\ ~page.astray
            /\ base.refilled # NoAnswer => Built(page.form, versions[revision], page.mine)
  BY <1>1, <1>3, PutOnParts
<1> HIDE DEF set, revision
<1>13. taken \in Forms BY <1>8 DEF RowSet
<1>14. mine \in SUBSET FormFields BY <1>1, <1>8
<1>15. \A field \in page.mine \ ScopeFields(scope) : field \in mine OBVIOUS
<1>16. taken.importConflict \/ Picked(taken, mine)
  <2> HIDE DEF mine, config
  <2> QED BY <1>1, <1>2, <1>15, ScopePicked DEF taken
<1>17. next = [setForm(set, taken) EXCEPT !.mine = mine]
  <2>1. setForm(set, taken).mine = page.mine BY <1>12, <1>13, FormSet
  <2> QED BY <2>1 DEF Adopted
\* Outside the scope nothing distinguishes the answered revision from the old one.
<1>18. ASSUME ~set.astray, NEW field \in FormFields \ ScopeFields(scope), field \notin page.mine
       PROVE  Matches(page.form, versions[revision], field) \/ Matches(taken, versions[revision], field)
  <2>1. CASE base.refilled # NoAnswer BY <1>12, <1>18, <2>1 DEF Built
  <2>2. CASE base.refilled = NoAnswer
    <3>1. Matches(page.form, versions[base.revision], field)
      BY <1>7, <1>12, <1>18, <2>2 DEF Built
    <3>2. CASE revision = base.revision BY <3>1, <3>2
    <3>3. CASE revision = r /\ base.revision = base.shown /\ ~isFormDirty(config, baseline)
      <4>1. FieldOf(baseline, field) = FieldOf(before, field) BY <1>11, <1>18 DEF SameForm
      <4>2. baseline = formFromConfig(config) BY <3>3 DEF isFormDirty
      <4>3. FieldOf(formFromConfig(versions[base.revision]), field)
              = FieldOf(formFromConfig(config), field)
        BY <3>3, <4>1, <4>2
      <4>4. Matches(page.form, config, field) BY <3>1, <4>3, SameShownMatches
      <4> QED BY <3>3, <4>4
    <3>4. CASE revision = r /\ ~isFormDirty(config, form)
      <4>1. form = formFromConfig(config) BY <3>4 DEF isFormDirty
      <4>2. Matches(taken, config, field) BY <1>4, <4>1, FreshMatches
      <4> QED BY <3>4, <4>2
    <3> QED BY <1>9, <3>2, <3>3, <3>4
  <2> QED BY <2>1, <2>2
<1>19. ASSUME ~set.astray PROVE Built(taken, versions[revision], mine)
  <2> SUFFICES ASSUME NEW field \in FormFields \ mine
               PROVE  Matches(taken, versions[revision], field)
    BY DEF Built
  <2>1. CASE field \in ScopeFields(scope) BY <1>8, <2>1
  <2>2. CASE field \notin ScopeFields(scope)
    <3>1. FieldOf(taken, field) = FieldOf(page.form, field) BY <1>8, <2>2 DEF SameForm
    <3>2. Matches(page.form, versions[revision], field) \/ Matches(taken, versions[revision], field)
      BY <1>15, <1>18, <1>19, <2>2
    <3> QED BY <3>1, <3>2, SameFieldMatches
  <2> QED BY <2>1, <2>2
<1> HIDE DEF mine, next
<1>20. DraftOK([setForm(set, taken) EXCEPT !.mine = mine], versions)
  BY <1>1, <1>3, <1>12, <1>13, <1>14, <1>16, <1>19, DraftRefit
<1> QED BY <1>6, <1>17, <1>20 DEF r

RowFields == {"url", "key", "preset", "rest", "pool"}

LEMMA RowsAre ==
  ASSUME NEW route
  PROVE  route \in FormRoutes <=>
           /\ route = [field \in RowFields |-> route[field]]
           /\ route.url \in Url /\ route.key \in Credential \cup {Unset}
           /\ route.preset \in Url \cup {Unset} /\ route.rest \in Rest
           /\ route.pool \in FormPools
BY DEF FormRoutes, RowFields

\* Field by field the imported configuration, or what was edited while it ran.
LEMMA ImportMerges ==
  ASSUME NEW draft \in Forms, NEW submitted \in Forms, NEW config \in Configs
  PROVE  /\ formAfterConfigImport(draft, submitted, config) \in Forms
         /\ \A field \in FormFields :
              FieldOf(formAfterConfigImport(draft, submitted, config), field)
                = KeptEdit(FieldOf(draft, field), FieldOf(submitted, field),
                           FieldOf(formFromConfig(config), field))
         /\ \/ formAfterConfigImport(draft, submitted, config).importConflict
            \/ \A scope \in ConfigScope :
                 formAfterConfigImport(draft, submitted, config).route[scope].preset = Unset
<1> DEFINE saved == formFromConfig(config)
           kept(scope, field) ==
             KeptEdit(draft.route[scope][field], submitted.route[scope][field],
                      saved.route[scope][field])
           merged == [scope \in ConfigScope |->
                        [field \in DOMAIN saved.route[scope] |-> kept(scope, field)]]
           settings == KeptEdit(draft.settings, submitted.settings, saved.settings)
           flagged == \E scope \in ConfigScope : \E field \in ConnectionFields :
                        merged[scope][field] # saved.route[scope][field]
           next == formAfterConfigImport(draft, submitted, config)
<1>1. saved \in Forms BY FormTyped
<1>2. next = [route |-> merged, settings |-> settings, importConflict |-> flagged]
  BY DEF formAfterConfigImport
<1>3. \A scope \in ConfigScope : saved.route[scope].preset = Unset BY FormParts
<1> HIDE DEF saved, next
<1>4. \A scope \in ConfigScope : /\ saved.route[scope] \in FormRoutes
                                 /\ draft.route[scope] \in FormRoutes
                                 /\ submitted.route[scope] \in FormRoutes
  BY <1>1 DEF Forms
<1>5. ASSUME NEW scope \in ConfigScope
      PROVE  /\ DOMAIN saved.route[scope] = RowFields
             /\ merged[scope] = [field \in RowFields |-> kept(scope, field)]
  <2>1. DOMAIN saved.route[scope] = RowFields
    <3>1. saved.route[scope] = [field \in RowFields |-> saved.route[scope][field]]
      BY <1>4, RowsAre
    <3> QED BY <3>1
  <2> QED BY <2>1
<1>6. ASSUME NEW scope \in ConfigScope, NEW field \in RowFields
      PROVE  merged[scope][field] = kept(scope, field)
  BY <1>5, <1>6
<1> HIDE DEF merged
<1>7. ASSUME NEW scope \in ConfigScope PROVE merged[scope] \in FormRoutes
  <2>1. merged[scope] = [field \in RowFields |-> merged[scope][field]]
    <3> HIDE DEF kept
    <3> QED BY <1>5
  <2>2. ASSUME NEW field \in RowFields
        PROVE  merged[scope][field] \in {draft.route[scope][field], saved.route[scope][field]}
    BY <1>6 DEF KeptEdit
  <2>3. "url" \in RowFields /\ "key" \in RowFields /\ "preset" \in RowFields
        /\ "rest" \in RowFields /\ "pool" \in RowFields
    BY DEF RowFields
  <2>4. /\ merged[scope].url \in Url /\ merged[scope].key \in Credential \cup {Unset}
        /\ merged[scope].preset \in Url \cup {Unset} /\ merged[scope].rest \in Rest
        /\ merged[scope].pool \in FormPools
    <3> HIDE DEF kept
    <3>1. /\ draft.route[scope].url \in Url /\ draft.route[scope].key \in Credential \cup {Unset}
          /\ draft.route[scope].preset \in Url \cup {Unset} /\ draft.route[scope].rest \in Rest
          /\ draft.route[scope].pool \in FormPools
      BY <1>4 DEF FormRoutes
    <3>2. /\ saved.route[scope].url \in Url /\ saved.route[scope].key \in Credential \cup {Unset}
          /\ saved.route[scope].preset \in Url \cup {Unset} /\ saved.route[scope].rest \in Rest
          /\ saved.route[scope].pool \in FormPools
      BY <1>4 DEF FormRoutes
    <3>3. /\ merged[scope].url \in {draft.route[scope].url, saved.route[scope].url}
          /\ merged[scope].key \in {draft.route[scope].key, saved.route[scope].key}
          /\ merged[scope].preset \in {draft.route[scope].preset, saved.route[scope].preset}
          /\ merged[scope].rest \in {draft.route[scope].rest, saved.route[scope].rest}
          /\ merged[scope].pool \in {draft.route[scope].pool, saved.route[scope].pool}
      BY <2>2, <2>3
    <3> QED BY <3>1, <3>2, <3>3
  <2> QED BY <2>1, <2>4, RowsAre
<1>8. merged \in [ConfigScope -> FormRoutes]
  <2>1. merged = [scope \in ConfigScope |-> merged[scope]]
    BY DEF merged
  <2> HIDE DEF merged
  <2> QED BY <1>7, <2>1
<1>9. settings \in Setting BY <1>1 DEF KeptEdit, Forms
<1>10. flagged \in BOOLEAN OBVIOUS
<1> HIDE DEF settings, flagged
<1>11. /\ next \in Forms /\ next.route = merged /\ next.settings = settings
       /\ next.importConflict = flagged
  BY <1>2, <1>8, <1>9, <1>10 DEF Forms
<1>12. ASSUME NEW field \in FormFields
       PROVE  FieldOf(next, field)
                = KeptEdit(FieldOf(draft, field), FieldOf(submitted, field), FieldOf(saved, field))
  <2>1. CASE field = SettingsField BY <1>11, <2>1 DEF FieldOf, settings
  <2>2. ASSUME field # SettingsField, NEW scope \in ConfigScope,
               NEW name \in {"url", "key", "pool", "rest"}, field[1] = scope, field[2] = name
        PROVE  FieldOf(next, field)
                 = KeptEdit(FieldOf(draft, field), FieldOf(submitted, field), FieldOf(saved, field))
    <3>1. name \in RowFields BY DEF RowFields
    <3>2. next.route[scope][name] = kept(scope, name) BY <1>6, <1>11, <3>1
    <3> QED BY <2>2, <3>2 DEF FieldOf
  <2> QED BY <2>1, <2>2, FieldsAre
<1>13. ASSUME NEW scope \in ConfigScope, next.route[scope].preset # Unset
       PROVE  next.importConflict
  <2>1. merged[scope].preset # saved.route[scope].preset BY <1>3, <1>11, <1>13
  <2>2. "preset" \in ConnectionFields BY DEF ConnectionFields
  <2> QED BY <1>11, <2>1, <2>2 DEF flagged
<1> QED BY <1>11, <1>12, <1>13 DEF next, saved

\* The answer to an import: what was not edited while it ran is imported.
LEMMA ImportAnswered ==
  ASSUME VersionsOK(versions), NEW page, PageOK(page, versions), page.request # NoRequest,
         Landing(page.request)
  PROVE  DraftOK(afterImport(page, page.request.answer), versions)
<1> DEFINE r == page.request.answer
           submitted == page.request.submitted
           config == versions[r]
           set == setConfig(page, r)
           form == formAfterConfigImport(page.form, submitted, config)
           mine == {field \in page.mine : FieldOf(page.form, field) # FieldOf(submitted, field)}
           next == afterImport(page, r)
<1>1. /\ page \in PageStates /\ page.form \in Forms /\ page.mine \in SUBSET FormFields
      /\ r \in 1..Len(versions) /\ page.heard \in 1..Len(versions)
      /\ page.request \in Requests
  BY DEF PageOK, DraftOK, UnderWay, PageStates
<1>2. config \in Configs /\ submitted \in Forms
  BY <1>1 DEF VersionsOK, WellFormed, Requests
<1>3. set = PutOn(page, r, r) BY DEF setConfig, PutOn
<1>4. page.request.refilled = NoAnswer => SameForm(page.form, submitted, page.mine)
  BY DEF PageOK, UnderWay
<1>5. /\ form \in Forms
      /\ \A field \in FormFields :
           FieldOf(form, field) = KeptEdit(FieldOf(page.form, field), FieldOf(submitted, field),
                                           FieldOf(formFromConfig(config), field))
      /\ form.importConflict \/ \A scope \in ConfigScope : form.route[scope].preset = Unset
  BY <1>1, <1>2, ImportMerges
<1> HIDE DEF set, form
<1>6. /\ set \in PageStates /\ set.shown = r /\ set.formRevision = r
      /\ set.heard = page.heard /\ set.form = page.form /\ set.mine = page.mine
      /\ ~set.astray =>
           /\ ~page.astray
           /\ page.request.refilled # NoAnswer => Built(page.form, config, page.mine)
  BY <1>1, <1>3, PutOnParts
<1>7. next = [setForm(set, form) EXCEPT !.mine = mine]
  <2>1. setForm(set, form).mine = page.mine BY <1>5, <1>6, FormSet
  <2> QED BY <2>1 DEF afterImport, set, form
<1>8. form.importConflict \/ Picked(form, mine) BY <1>5 DEF Picked
<1>9. mine \in SUBSET FormFields BY <1>1
<1>10. ASSUME ~set.astray PROVE Built(form, config, mine)
  <2> SUFFICES ASSUME NEW field \in FormFields \ mine PROVE Matches(form, config, field)
    BY DEF Built
  <2>1. CASE FieldOf(page.form, field) = FieldOf(submitted, field)
    <3>1. FieldOf(form, field) = FieldOf(formFromConfig(config), field)
      BY <1>5, <2>1 DEF KeptEdit
    <3> QED BY <3>1, FreshMatches, SameFieldMatches
  <2>2. CASE FieldOf(page.form, field) # FieldOf(submitted, field)
    <3>1. field \notin page.mine BY <2>2
    <3>2. page.request.refilled # NoAnswer BY <1>4, <2>2, <3>1 DEF SameForm
    <3>3. Matches(page.form, config, field) BY <1>6, <1>10, <3>1, <3>2 DEF Built
    <3>4. FieldOf(form, field) = FieldOf(page.form, field) BY <1>5, <2>2 DEF KeptEdit
    <3> QED BY <3>3, <3>4, SameFieldMatches
  <2> QED BY <2>1, <2>2
<1> HIDE DEF mine, next
<1>11. DraftOK([setForm(set, form) EXCEPT !.mine = mine], versions)
  BY <1>1, <1>5, <1>6, <1>8, <1>9, <1>10, DraftRefit
<1> QED BY <1>7, <1>11 DEF next, r

\* Whatever was asked for, the page is sound once the answer is taken in.
LEMMA AnswerReceived ==
  ASSUME VersionsOK(versions), NEW page, PageOK(page, versions), page.request # NoRequest,
         Landing(page.request)
  PROVE  DraftOK(Received(page, page.request.answer), versions)
<1> DEFINE kind == page.request.kind
           r == page.request.answer
<1>1. r \in 1..Len(versions) BY DEF PageOK, UnderWay
<1>2. CASE kind \in {"patch", "override"}
  BY <1>2, ConfigCommitted DEF Received, DraftKinds
<1>3. CASE kind \in {"save", "update"}
  BY <1>3, SaveAnswered DEF Received, DraftKinds
<1>4. CASE kind = "apply"
  BY <1>4, ApplyAnswered DEF Received, ConfigScope
<1>5. CASE kind = "import"
  BY <1>5, ImportAnswered DEF Received
<1>6. CASE kind \notin {"patch", "override", "save", "update", "apply", "import"}
  <2>1. Received(page, r) = remoteConfig(page, r) BY <1>6 DEF Received
  <2> QED BY <1>1, <2>1, RemoteAdopted DEF PageOK
<1> QED BY <1>2, <1>3, <1>4, <1>5, <1>6

LEMMA AnswerNoted ==
  ASSUME NEW vs, NEW page, PageOK(page, vs), page.request # NoRequest,
         NEW answer \in Nat \cup {Refused},
         answer # NoAnswer /\ answer # Refused => answer \in 1..Len(vs),
         page.request.kind \in DraftKinds /\ answer # NoAnswer /\ answer # Refused
           /\ ~page.request.astray =>
             \A field \in FormFields \ page.request.mine :
               FieldOf(vs[answer], field) = FieldOf(vs[page.request.revision], field)
  PROVE  PageOK([page EXCEPT !.request = [page.request EXCEPT !.answer = answer]], vs)
<1> DEFINE old == page.request
           request == [page.request EXCEPT !.answer = answer]
           next == [page EXCEPT !.request = request]
<1>1. page \in PageStates /\ old \in Requests BY DEF PageOK, DraftOK, PageStates
<1>2. /\ request \in Requests /\ request.kind = old.kind /\ request.revision = old.revision
      /\ request.submitted = old.submitted /\ request.shown = old.shown
      /\ request.mine = old.mine /\ request.astray = old.astray
      /\ request.refilled = old.refilled /\ request.answer = answer
  BY <1>1 DEF Requests
<1> HIDE DEF request
<1>3. /\ next \in PageStates /\ next.form = page.form /\ next.mine = page.mine
      /\ next.shown = page.shown /\ next.heard = page.heard
      /\ next.formRevision = page.formRevision /\ next.astray = page.astray
      /\ next.request = request
  BY <1>1, <1>2 DEF PageStates
<1> HIDE DEF next
<1>4. DraftOK(next, vs) BY <1>3 DEF PageOK, DraftOK
<1>5. Landing(request) <=> answer # NoAnswer /\ answer # Refused BY <1>2 DEF Landing
<1>6. UnderWay(next, vs) BY <1>2, <1>3, <1>5 DEF PageOK, UnderWay
<1> QED BY <1>4, <1>6 DEF PageOK, next, request

-----------------------------------------------------------------------------
(* The store. *)

LEMMA StoredSound ==
  ASSUME VersionsOK(versions)
  PROVE  /\ Revision \in Nat /\ Revision \in 1..Len(versions) /\ WellFormed(Stored)
         /\ \A name \in Title : FreshId(name) \in ProfileIdentity
<1>1. /\ Len(versions) \in Nat /\ Len(versions) # 0
      /\ \A r \in 1..Len(versions) : WellFormed(versions[r])
  BY DEF VersionsOK
<1>2. Len(versions) \in 1..Len(versions) BY <1>1
<1> QED BY <1>1, <1>2 DEF Revision, Stored, FreshId, ProfileIdentity

LEMMA IdsSwap ==
  ASSUME VersionsOK(versions), NEW scope \in ConfigScope
  PROVE  Swapped(IdList(scope)) \in Seq(ProfileIdentity)
<1> DEFINE list == Stored.profiles[scope]
           ids == IdList(scope)
           n == Len(list)
<1>1. list \in Seq(StoredProfiles) BY StoredSound, WellFormedParts
<1> HIDE DEF list
<1>2. n \in Nat /\ DOMAIN list = 1..n /\ \A i \in 1..n : list[i].id \in ProfileIdentity
  <2>1. n \in Nat /\ DOMAIN list = 1..n /\ \A i \in 1..n : list[i] \in StoredProfiles
    BY <1>1
  <2>2. \A p \in StoredProfiles : p.id \in ProfileIdentity BY DEF StoredProfiles
  <2> QED BY <2>1, <2>2
<1>3. ids = [i \in 1..n |-> list[i].id] BY <1>2 DEF IdList, list
<1> HIDE DEF n, ids
<1>4. ids \in [1..n -> ProfileIdentity] BY <1>2, <1>3
<1>5. DOMAIN ids = 1..n /\ Len(ids) = n BY <1>2, <1>4
<1>6. \A i \in 1..n : n + 1 - i \in 1..n BY <1>2
<1>7. Swapped(ids) = [i \in 1..n |-> ids[n + 1 - i]] BY <1>5 DEF Swapped
<1>8. Swapped(ids) \in [1..n -> ProfileIdentity] BY <1>4, <1>6, <1>7
<1> QED BY <1>2, <1>8, ListOf DEF ids

\* What a request makes of the stored configuration: a sound one; a draft lands on
\* it, and what is neither a draft nor a document leaves the profiles as they are.
LEMMA OutcomesSound ==
  ASSUME VersionsOK(versions), NEW request \in Requests, request.kind # "load",
         NEW next \in Outcomes(request), next # Refused
  PROVE  /\ WellFormed(next)
         /\ request.kind \in DraftKinds => LandsDraft(next, Stored, request.submitted)
         /\ request.kind \notin DraftKinds \cup {"import"} => Preserved(next, Stored)
<1> DEFINE patch == formToPatch(request.submitted)
           ids == ProfileIds(Stored.profiles["codex"])
           kind == request.kind
<1>1. /\ WellFormed(Stored) /\ request.submitted \in Forms
      /\ \A name \in Title : FreshId(name) \in ProfileIdentity
  BY StoredSound DEF Requests
<1>2. kind \in DraftKinds \cup (ListKinds \ {"load"}) BY DEF Requests, RequestKinds
<1>3. "codex" \in ConfigScope /\ "claude" \in ConfigScope BY DEF ConfigScope
<1> HIDE DEF patch
<1>4. CASE kind \in DraftKinds
  <2>1. LandsDraft(next, Stored, request.submitted)
    <3>1. CASE kind \in {"patch", "override"}
      <4>1. Outcomes(request) = {patchConfig(Stored, patch)} BY <3>1 DEF Outcomes, patch
      <4> QED BY <4>1 DEF LandsDraft, patch
    <3>2. CASE kind = "save"
      <4>1. Outcomes(request) =
              {saveProfile(Stored, "codex", name, patch, FreshId(name)) : name \in Title}
        BY <3>2 DEF Outcomes, patch
      <4>2. PICK name \in Title : next = saveProfile(Stored, "codex", name, patch, FreshId(name))
        BY <4>1
      <4> QED BY <1>1, <4>2 DEF LandsDraft, patch
    <3>3. CASE kind = "update"
      <4>1. Outcomes(request) =
              UNION {{updateProfile(Stored, "codex", id, name, patch) : name \in Title} : id \in ids}
        BY <3>3 DEF Outcomes, patch
      <4>2. PICK id \in ids : next \in {updateProfile(Stored, "codex", id, name, patch) : name \in Title}
        BY <4>1
      <4>3. PICK name \in Title : next = updateProfile(Stored, "codex", id, name, patch)
        BY <4>2
      <4> QED BY <4>3 DEF LandsDraft, patch
    <3> QED BY <1>4, <3>1, <3>2, <3>3 DEF DraftKinds
  <2> QED BY <1>1, <1>4, <2>1, DraftLands
<1>5. CASE kind \in {"apply", "delete"}
  <2>1. Outcomes(request) = IF kind = "apply"
                            THEN {applyProfile(Stored, "codex", id) : id \in ids}
                            ELSE {deleteProfile(Stored, "codex", id) : id \in ids}
    BY <1>5 DEF Outcomes
  <2>2. PICK id \in ids : \/ next = applyProfile(Stored, "codex", id)
                          \/ next = deleteProfile(Stored, "codex", id)
    BY <2>1
  <2>3. WellFormed(next) /\ Preserved(next, Stored)
    BY <1>1, <1>3, <2>2, ProfileApplies, ProfileDeletes
  <2> QED BY <1>5, <2>3 DEF DraftKinds
<1>6. CASE kind \in {"duplicate", "copy"}
  <2> DEFINE target == IF kind = "copy" THEN "claude" ELSE "codex"
  <2>1. Outcomes(request) =
          UNION {{duplicateProfile(Stored, "codex", id, name, target, FreshId(name)) :
                  name \in Title} : id \in ids}
    BY <1>6 DEF Outcomes
  <2>2. target \in ConfigScope BY <1>3
  <2> HIDE DEF target
  <2>3. PICK id \in ids : next \in {duplicateProfile(Stored, "codex", id, name, target, FreshId(name)) :
                                    name \in Title}
    BY <2>1
  <2>4. PICK name \in Title : next = duplicateProfile(Stored, "codex", id, name, target, FreshId(name))
    BY <2>3
  <2>5. WellFormed(next) /\ Preserved(next, Stored)
    BY <1>1, <1>3, <2>2, <2>4, ProfileDuplicates
  <2> QED BY <1>6, <2>5 DEF DraftKinds
<1>7. CASE kind = "reorder"
  <2>1. next = reorderProfiles(Stored, "codex", Swapped(IdList("codex"))) BY <1>7 DEF Outcomes
  <2>2. Swapped(IdList("codex")) \in Seq(ProfileIdentity) BY <1>3, IdsSwap
  <2>3. WellFormed(next) /\ Preserved(next, Stored)
    BY <1>1, <1>3, <2>1, <2>2, ProfilesReorder
  <2> QED BY <1>7, <2>3 DEF DraftKinds
<1>8. CASE kind = "import"
  <2>1. next \in {importConfig(document) : document \in {Exported(FirstConfig), LegacyDocument}}
    BY <1>8 DEF Outcomes
  <2>2. next = importConfig(Exported(FirstConfig)) \/ next = importConfig(LegacyDocument)
    BY <2>1
  <2>3. Admitted(importConfig(Exported(FirstConfig))) BY DocumentAssumption, ExportImports
  <2>4. WellFormed(next) BY <2>2, <2>3, DocumentAssumption DEF Admitted
  <2> QED BY <1>8, <2>4 DEF DraftKinds
<1> QED BY <1>2, <1>4, <1>5, <1>6, <1>7, <1>8 DEF ListKinds

-----------------------------------------------------------------------------
(* Pages and store together. *)

PagesSound == pages \in [Page -> PageStates] /\ \A page \in Page : PageOK(pages[page], versions)
TurnStates ==
  [state : {"idle", "arrived", "routed", "queued", "done"}, read : Nat,
   target : ProfileIdentity \cup {Unset}]

\* Every stored revision is sound, every draft differs from the revision it may
\* replace only in what its operator edited, and health follows a stored revision.
DraftInv ==
  /\ VersionsOK(versions) /\ PagesSound
  /\ routings \in [Routing -> TurnStates] /\ reconciled \in 1..Revision

LEMMA DraftStarts == DraftInit => DraftInv
<1> SUFFICES ASSUME DraftInit PROVE DraftInv OBVIOUS
<1>1. versions = <<FirstConfig>> /\ WellFormed(FirstConfig)
  BY DocumentAssumption DEF DraftInit
<1>2. FirstConfig \in Configs BY <1>1 DEF WellFormed
<1>3. /\ versions \in Seq(Configs) /\ versions # <<>> /\ Len(versions) = 1
      /\ versions[1] = FirstConfig
  BY <1>1, <1>2
<1>4. VersionsOK(versions)
  <2>1. \A r \in 1..Len(versions) : r = 1 BY <1>3
  <2> QED BY <1>1, <1>3, <2>1 DEF VersionsOK
<1> DEFINE form == formFromConfig(FirstConfig)
           start == [shown |-> 1, formRevision |-> 1, heard |-> 1, mine |-> {},
                     astray |-> FALSE, form |-> form, request |-> NoRequest]
<1>5. form \in Forms /\ Built(form, FirstConfig, {}) /\ Picked(form, {})
  BY <1>2, FormTyped, FreshBuilt
<1> HIDE DEF form
<1>6. start \in PageStates
  <2>1. {} \in SUBSET FormFields OBVIOUS
  <2> QED BY <1>5, <2>1 DEF PageStates
<1>7. PageOK(start, versions)
  <2>1. 1 \in 1..Len(versions) BY <1>3
  <2>2. DraftOK(start, versions) BY <1>3, <1>5, <1>6, <2>1 DEF DraftOK
  <2>3. UnderWay(start, versions) BY DEF UnderWay
  <2> QED BY <2>2, <2>3 DEF PageOK
<1>8. pages = [page \in Page |-> start] BY DEF DraftInit, form
<1> HIDE DEF start
<1>9. PagesSound BY <1>6, <1>7, <1>8 DEF PagesSound
<1>10. routings \in [Routing -> TurnStates]
  <2>1. IdleTurn \in TurnStates BY DEF IdleTurn, TurnStates
  <2> QED BY <2>1 DEF DraftInit
<1>11. reconciled \in 1..Revision BY <1>3 DEF DraftInit, Revision
<1> QED BY <1>4, <1>9, <1>10, <1>11 DEF DraftInv

\* A page moves and nothing else does.
LEMMA PageMoves ==
  ASSUME DraftInv, NEW page \in Page, NEW next, PageOK(next, versions),
         pages' = [pages EXCEPT ![page] = next], UNCHANGED <<versions, routings, reconciled>>
  PROVE  DraftInv'
<1>1. pages \in [Page -> PageStates] /\ next \in PageStates
  BY DEF DraftInv, PagesSound, PageOK, DraftOK
<1>2. pages' \in [Page -> PageStates] BY <1>1
<1>3. \A p \in Page : pages'[p] = IF p = page THEN next ELSE pages[p] BY <1>1
<1>4. \A p \in Page : PageOK(pages'[p], versions) BY <1>3 DEF DraftInv, PagesSound
<1> QED BY <1>2, <1>4 DEF DraftInv, PagesSound, Revision

\* The store commits.
LEMMA StoreMoves ==
  ASSUME DraftInv, NEW next, WellFormed(next), versions' = Append(versions, next)
  PROVE  /\ VersionsOK(versions)' /\ Revision' = Revision + 1 /\ Revision \in Nat
         /\ \A r \in 1..Revision : versions'[r] = versions[r] /\ r \in 1..Revision'
         /\ versions'[Revision'] = next
         /\ \A page : PageOK(page, versions) => PageOK(page, versions')
<1>1. VersionsOK(versions) BY DEF DraftInv
<1>2. Revision \in Nat BY <1>1, StoredSound
<1> QED BY <1>1, <1>2, VersionsGrow, PageKeeps DEF Revision

LEMMA CommitMoves ==
  ASSUME DraftInv, NEW next, WellFormed(next), versions' = Append(versions, next),
         UNCHANGED <<pages, reconciled>>, routings' \in [Routing -> TurnStates]
  PROVE  DraftInv'
<1>1. /\ VersionsOK(versions)' /\ Revision' = Revision + 1 /\ Revision \in Nat
      /\ \A page : PageOK(page, versions) => PageOK(page, versions')
  BY StoreMoves
<1>2. PagesSound' BY <1>1 DEF DraftInv, PagesSound
<1>3. reconciled \in 1..Revision BY DEF DraftInv
<1>4. reconciled' \in 1..Revision' BY <1>1, <1>3
<1> QED BY <1>1, <1>2, <1>4 DEF DraftInv

\* A draft on a page.
LEMMA DraftsKeep ==
  ASSUME DraftInv, NEW page \in Page, NEW form, NEW fields, DraftsOn(page, form, fields),
         PageOK([setForm(pages[page], form) EXCEPT !.mine = pages[page].mine \cup fields], versions)
  PROVE  DraftInv'
<1> DEFINE next == [setForm(pages[page], form) EXCEPT !.mine = @ \cup fields]
<1>1. setForm(pages[page], form).mine = pages[page].mine
  <2>1. pages[page] \in PageStates BY DEF DraftInv, PagesSound
  <2>2. setForm(pages[page], form) =
          [pages[page] EXCEPT !.form = form, !.request = Overtaken(pages[page].request)]
    BY DEF setForm
  <2> QED BY <2>1, <2>2 DEF PageStates
<1>2. next = [setForm(pages[page], form) EXCEPT !.mine = pages[page].mine \cup fields]
  BY <1>1
<1>3. pages' = [pages EXCEPT ![page] = next] BY DEF DraftsOn
<1>4. UNCHANGED <<versions, routings, reconciled>> BY DEF DraftsOn
<1> HIDE DEF next
<1>5. PageOK(next, versions) BY <1>2
<1> QED BY <1>3, <1>4, <1>5, PageMoves

LEMMA SendsKeep ==
  ASSUME DraftInv, NEW page \in Page, NEW kind \in RequestKinds,
         kind \in DraftKinds => ~pages[page].form.importConflict,
         NEW revision \in 1..Revision, NEW mine \in SUBSET FormFields,
         \/ revision = pages[page].formRevision /\ mine = pages[page].mine
         \/ mine = FormFields,
         Sends(page, kind, revision, mine)
  PROVE  DraftInv'
<1> DEFINE next == Sent(pages[page], kind, revision, mine)
<1>1. PageOK(next, versions)
  <2>1. PageOK(pages[page], versions) /\ VersionsOK(versions) BY DEF DraftInv, PagesSound
  <2>2. pages[page].request = NoRequest BY DEF Sends
  <2> QED BY <2>1, <2>2, RequestSent DEF Revision
<1>2. pages' = [pages EXCEPT ![page] = next] BY DEF Sends
<1>3. UNCHANGED <<versions, routings, reconciled>> BY DEF Sends
<1> HIDE DEF next
<1> QED BY <1>1, <1>2, <1>3, PageMoves

\* What a page does by itself.
LEMMA EditsKeep ==
  ASSUME DraftInv, NEW page \in Page,
         \/ EditsRoute(page) \/ PicksPreset(page) \/ EditsSettings(page)
         \/ SubmitsDraft(page) \/ overrideSaveConflict(page)
         \/ OperatesOnList(page) \/ AdoptsImport(page)
  PROVE  DraftInv'
<1>1. /\ VersionsOK(versions) /\ PageOK(pages[page], versions)
      /\ pages[page].shown \in 1..Len(versions) /\ pages[page].formRevision \in 1..Revision
      /\ pages[page].mine \in SUBSET FormFields /\ pages[page].shown \in 1..Revision
  BY DEF DraftInv, PagesSound, PageOK, DraftOK, PageStates, Revision
<1>2. CASE EditsRoute(page)
  <2>1. PICK scope \in ConfigScope : \E edit \in RouteEdits(pages[page].form.route[scope]) :
          DraftsOn(page, [pages[page].form EXCEPT !.route[scope][edit[1]] = edit[2]],
                   {<<scope, edit[1]>>})
    BY <1>2 DEF EditsRoute
  <2>a. PICK edit \in RouteEdits(pages[page].form.route[scope]) :
          DraftsOn(page, [pages[page].form EXCEPT !.route[scope][edit[1]] = edit[2]],
                   {<<scope, edit[1]>>})
    BY <2>1
  <2> DEFINE form == [pages[page].form EXCEPT !.route[scope][edit[1]] = edit[2]]
  <2>2. form = [pages[page].form EXCEPT !.route[scope][edit[1]] = edit[2]] OBVIOUS
  <2> HIDE DEF form
  <2>3. PageOK([setForm(pages[page], form) EXCEPT
                  !.mine = pages[page].mine \cup {<<scope, edit[1]>>}], versions)
    BY <1>1, <2>2, RouteDrafted
  <2> QED BY <2>a, <2>3, DraftsKeep DEF form
<1>3. CASE PicksPreset(page)
  <2>1. PICK scope \in ConfigScope : \E url \in DOMAIN versions[pages[page].shown].presets[scope] :
          DraftsOn(page,
            [pages[page].form EXCEPT !.route[scope].url = url, !.route[scope].preset = url,
                                     !.route[scope].key = Unset],
            {<<scope, "url">>, <<scope, "key">>})
    BY <1>3 DEF PicksPreset
  <2>a. PICK url \in DOMAIN versions[pages[page].shown].presets[scope] :
          DraftsOn(page,
            [pages[page].form EXCEPT !.route[scope].url = url, !.route[scope].preset = url,
                                     !.route[scope].key = Unset],
            {<<scope, "url">>, <<scope, "key">>})
    BY <2>1
  <2>2. url \in Url
    <3>1. versions[pages[page].shown] \in Configs BY <1>1 DEF VersionsOK, WellFormed
    <3>2. versions[pages[page].shown].presets[scope] \in PresetMaps BY <3>1 DEF Configs
    <3> QED BY <3>2 DEF PresetMaps
  <2>3. pages[page].form \in Forms BY <1>1 DEF PageOK, DraftOK, PageStates
  <2>4. [pages[page].form EXCEPT !.route[scope].url = url, !.route[scope].preset = url,
                                 !.route[scope].key = Unset]
          = PresetForm(pages[page].form, scope, url)
    BY <2>3 DEF PresetForm, PresetRow, Forms, FormRoutes
  <2> DEFINE form == PresetForm(pages[page].form, scope, url)
  <2>5. DraftsOn(page, form, {<<scope, "url">>, <<scope, "key">>}) BY <2>a, <2>4
  <2>6. PageOK([setForm(pages[page], form) EXCEPT
                  !.mine = pages[page].mine \cup {<<scope, "url">>, <<scope, "key">>}], versions)
    BY <1>1, <2>2, PresetPicked
  <2> HIDE DEF form
  <2> QED BY <2>5, <2>6, DraftsKeep
<1>4. CASE EditsSettings(page)
  <2>1. PICK setting \in Setting :
          DraftsOn(page, [pages[page].form EXCEPT !.settings = setting], {SettingsField})
    BY <1>4 DEF EditsSettings
  <2> DEFINE form == [pages[page].form EXCEPT !.settings = setting]
  <2>2. form = [pages[page].form EXCEPT !.settings = setting] OBVIOUS
  <2> HIDE DEF form
  <2>3. PageOK([setForm(pages[page], form) EXCEPT
                  !.mine = pages[page].mine \cup {SettingsField}], versions)
    BY <1>1, <2>2, SettingsDrafted
  <2> QED BY <2>1, <2>3, DraftsKeep DEF form
<1>5. CASE SubmitsDraft(page)
  <2>1. PICK kind \in {"patch", "save", "update"} :
          Sends(page, kind, pages[page].formRevision, pages[page].mine)
    BY <1>5 DEF SubmitsDraft
  <2>2. kind \in RequestKinds BY DEF RequestKinds, DraftKinds
  <2>3. ~pages[page].form.importConflict BY <1>5 DEF SubmitsDraft
  <2> QED BY <1>1, <2>1, <2>2, <2>3, SendsKeep
<1>6. CASE overrideSaveConflict(page)
  <2>1. Sends(page, "override", pages[page].shown, FormFields) /\ ~pages[page].form.importConflict
    BY <1>6 DEF overrideSaveConflict
  <2>2. "override" \in RequestKinds BY DEF RequestKinds, DraftKinds
  <2> QED BY <1>1, <2>1, <2>2, SendsKeep
<1>7. CASE OperatesOnList(page)
  <2>1. PICK kind \in ListKinds : Sends(page, kind, pages[page].formRevision, pages[page].mine)
    BY <1>7 DEF OperatesOnList
  <2>2. kind \in RequestKinds /\ kind \notin DraftKinds BY DEF RequestKinds, DraftKinds, ListKinds
  <2> QED BY <1>1, <2>1, <2>2, SendsKeep
<1>8. CASE AdoptsImport(page)
  <2> DEFINE based == pages[page].request = NoRequest /\ pages[page].formRevision = pages[page].shown
             next == Adopted(pages[page],
                       adoptImportedConnections(pages[page].form, versions[pages[page].shown]),
                       AdoptedFields, based)
  <2>1. pages' = [pages EXCEPT ![page] = next] /\ UNCHANGED <<versions, routings, reconciled>>
    BY <1>8 DEF AdoptsImport
  <2>2. PageOK(next, versions) BY <1>1, ImportAdopted
  <2> HIDE DEF next
  <2> QED BY <2>1, <2>2, PageMoves
<1> QED BY <1>2, <1>3, <1>4, <1>5, <1>6, <1>7, <1>8

\* What reaches a page.
LEMMA ArrivalsKeep ==
  ASSUME DraftInv, NEW page \in Page, Hears(page) \/ Receives(page)
  PROVE  DraftInv'
<1> DEFINE old == pages[page]
<1>1. /\ VersionsOK(versions) /\ PageOK(old, versions) /\ old.heard \in 1..Len(versions)
      /\ Len(versions) \in Nat
  BY DEF DraftInv, PagesSound, PageOK, DraftOK, VersionsOK
<1>2. CASE Hears(page)
  <2> DEFINE r == old.heard + 1
             next == [remoteConfig(old, r) EXCEPT !.heard = r]
  <2>1. pages' = [pages EXCEPT ![page] = next] /\ UNCHANGED <<versions, routings, reconciled>>
    BY <1>2 DEF Hears
  <2>2. old.heard < Len(versions) BY <1>2 DEF Hears, Revision
  <2>3. r \in 1..Len(versions) BY <1>1, <2>2
  <2> HIDE DEF r
  <2>4. PageOK(remoteConfig(old, r), versions) BY <1>1, <2>3, RemoteAdopted
  <2>5. PageOK(next, versions)
    <3> DEFINE heard == remoteConfig(old, r)
    <3> HIDE DEF heard
    <3>1. PageOK([heard EXCEPT !.heard = r], versions) BY <1>1, <2>3, <2>4, SnapshotHeard DEF heard
    <3> QED BY <3>1 DEF heard
  <2> HIDE DEF next
  <2> QED BY <2>1, <2>5, PageMoves
<1>3. CASE Receives(page)
  <2> DEFINE settled == IF old.request.answer = Refused THEN old
                        ELSE Received(old, old.request.answer)
             next == [settled EXCEPT !.request = NoRequest]
  <2>1. pages' = [pages EXCEPT ![page] = next] /\ UNCHANGED <<versions, routings, reconciled>>
    BY <1>3 DEF Receives
  <2>2. old.request # NoRequest /\ old.request.answer # NoAnswer BY <1>3 DEF Receives
  <2>3. DraftOK(settled, versions)
    <3>1. CASE old.request.answer = Refused BY <1>1, <3>1 DEF PageOK
    <3>2. CASE old.request.answer # Refused
      <4>1. Landing(old.request) BY <2>2, <3>2 DEF Landing
      <4> QED BY <1>1, <2>2, <3>2, <4>1, AnswerReceived
    <3> QED BY <3>1, <3>2
  <2> HIDE DEF settled
  <2>4. PageOK(next, versions) BY <2>3, RequestDone
  <2> HIDE DEF next
  <2> QED BY <2>1, <2>4, PageMoves
<1> QED BY <1>2, <1>3

\* What a request commits.
Mutates(page, next) ==
  LET request == pages[page].request
  IN /\ WellFormed(next) /\ versions' = Append(versions, next)
     /\ request.kind \in DraftKinds => request.revision = Revision
     /\ request.kind \in DraftKinds /\ ~request.astray =>
          \A field \in FormFields \ request.mine : FieldOf(next, field) = FieldOf(Stored, field)
     /\ request.kind \notin DraftKinds \cup {"import"} => Preserved(next, Stored)

LEMMA MutationServed ==
  ASSUME DraftInv, NEW page \in Page, ServesMutation(page)
  PROVE  \E next : Mutates(page, next)
<1> DEFINE request == pages[page].request
<1>1. VersionsOK(versions) /\ PageOK(pages[page], versions) BY DEF DraftInv, PagesSound
<1>2. /\ request # NoRequest /\ request.kind # "load" /\ ~Superseded(request)
  BY DEF ServesMutation, Waiting
<1>3. PICK next \in Outcomes(request) : Commits(next) BY DEF ServesMutation
<1>4. next # Refused /\ versions' = Append(versions, next) BY <1>3 DEF Commits
<1>5. request \in Requests /\ request.submitted \in Forms
  BY <1>1, <1>2 DEF PageOK, DraftOK, PageStates, Requests
<1>6. /\ WellFormed(next)
      /\ request.kind \in DraftKinds => LandsDraft(next, Stored, request.submitted)
      /\ request.kind \notin DraftKinds \cup {"import"} => Preserved(next, Stored)
  BY <1>1, <1>2, <1>3, <1>4, <1>5, OutcomesSound
<1>7. request.kind \in DraftKinds => request.revision = Revision
  BY <1>2 DEF Superseded
<1>8. ASSUME request.kind \in DraftKinds, ~request.astray,
             NEW field \in FormFields \ request.mine
      PROVE  FieldOf(next, field) = FieldOf(Stored, field)
  <2>1. /\ request.submitted.importConflict \/ Picked(request.submitted, request.mine)
        /\ ~request.submitted.importConflict
        /\ Built(request.submitted, versions[request.revision], request.mine)
    BY <1>1, <1>2, <1>8 DEF PageOK, UnderWay
  <2>2. Built(request.submitted, Stored, request.mine) BY <1>7, <1>8, <2>1 DEF Stored
  <2>3. WellFormed(Stored) BY <1>1, StoredSound
  <2> QED BY <1>4, <1>5, <1>6, <1>8, <2>1, <2>2, <2>3, DraftLands
<1> QED BY <1>4, <1>6, <1>7, <1>8 DEF Mutates

LEMMA AnswersKeep ==
  ASSUME DraftInv, NEW page \in Page,
         ServesMutation(page) \/ Refuses(page) \/ ServesLoad(page)
  PROVE  DraftInv'
<1> DEFINE old == pages[page]
           noted(answer) == [old EXCEPT !.request = [old.request EXCEPT !.answer = answer]]
<1>1. /\ VersionsOK(versions) /\ PageOK(old, versions) /\ pages \in [Page -> PageStates]
      /\ Revision \in Nat /\ Revision \in 1..Len(versions)
  BY StoredSound DEF DraftInv, PagesSound
<1>2. old.request # NoRequest /\ old.request \in Requests
  BY <1>1 DEF ServesMutation, Refuses, ServesLoad, Waiting, PageOK, DraftOK, PageStates
<1>3. ASSUME NEW answer, Answers(page, answer)
      PROVE  /\ pages' = [pages EXCEPT ![page] = noted(answer)]
             /\ UNCHANGED <<routings, reconciled>>
  <2>1. [pages EXCEPT ![page].request.answer = answer] = [pages EXCEPT ![page] = noted(answer)]
    BY <1>1, <1>2 DEF PageStates, Requests
  <2> QED BY <1>3, <2>1 DEF Answers
<1>4. CASE Refuses(page) \/ ServesLoad(page)
  <2> DEFINE answer == IF Refuses(page) THEN Refused ELSE Revision
  <2>1. /\ UNCHANGED versions
        /\ (Answers(page, Refused) /\ answer = Refused) \/ (Answers(page, Revision) /\ answer = Revision)
        /\ answer # Refused => old.request.kind = "load"
    BY <1>4 DEF Refuses, ServesLoad
  <2>2. answer \in Nat \cup {Refused} /\ (answer # Refused => answer \in 1..Len(versions))
    BY <1>1
  <2> HIDE DEF answer
  <2>3. answer # Refused => old.request.kind \notin DraftKinds BY <2>1 DEF DraftKinds
  <2>4. PageOK(noted(answer), versions) BY <1>1, <1>2, <2>2, <2>3, AnswerNoted
  <2>5. /\ pages' = [pages EXCEPT ![page] = noted(answer)]
        /\ UNCHANGED <<versions, routings, reconciled>>
    BY <1>3, <2>1
  <2> HIDE DEF noted
  <2> QED BY <2>4, <2>5, PageMoves
<1>5. CASE ServesMutation(page)
  <2>1. PICK next : Mutates(page, next) BY <1>5, MutationServed
  <2>2. WellFormed(next) /\ versions' = Append(versions, next) BY <2>1 DEF Mutates
  <2>3. /\ VersionsOK(versions)' /\ Revision' = Revision + 1
        /\ \A r \in 1..Revision : versions'[r] = versions[r] /\ r \in 1..Revision'
        /\ versions'[Revision'] = next
        /\ \A p : PageOK(p, versions) => PageOK(p, versions')
    BY <2>2, StoreMoves
  <2> DEFINE answer == Revision + 1
  <2>4. answer \in Nat /\ answer \in 1..Len(versions') /\ versions'[answer] = next
    <3>1. Len(versions') = Revision' BY DEF Revision
    <3> QED BY <1>1, <2>3, <3>1
  <2>5. old.request.kind \in DraftKinds =>
          versions'[old.request.revision] = Stored
    BY <1>1, <2>1, <2>3 DEF Mutates, Stored, Revision
  <2>6. old.request.kind \in DraftKinds /\ ~old.request.astray =>
          \A field \in FormFields \ old.request.mine :
            FieldOf(versions'[answer], field) = FieldOf(versions'[old.request.revision], field)
    BY <2>1, <2>4, <2>5 DEF Mutates
  <2>7. Answers(page, answer) BY <1>5 DEF ServesMutation
  <2> HIDE DEF answer
  <2>8. PageOK(old, versions') BY <1>1, <2>3
  <2>9. PageOK(noted(answer), versions')
    BY <1>2, <2>4, <2>6, <2>8, AnswerNoted
  <2>10. pages' = [pages EXCEPT ![page] = noted(answer)] /\ UNCHANGED <<routings, reconciled>>
    BY <1>3, <2>7
  <2> HIDE DEF noted
  <2>11. noted(answer) \in PageStates BY <2>9 DEF PageOK, DraftOK
  <2>12. pages' \in [Page -> PageStates] BY <1>1, <2>10, <2>11
  <2>13. ASSUME NEW p \in Page PROVE PageOK(pages'[p], versions')
    <3>1. pages'[p] = IF p = page THEN noted(answer) ELSE pages[p] BY <1>1, <2>10
    <3>2. PageOK(pages[p], versions') BY <2>3 DEF DraftInv, PagesSound
    <3> QED BY <2>9, <3>1, <3>2
  <2>14. reconciled' \in 1..Revision' BY <1>1, <2>3, <2>10 DEF DraftInv
  <2> QED BY <2>3, <2>10, <2>12, <2>13, <2>14 DEF DraftInv, PagesSound
<1> QED BY <1>4, <1>5

-----------------------------------------------------------------------------
(* Writers without a page. *)

\* A script or the proxy commits a sound configuration that leaves the stored
\* profiles as they are; a restored backup is one that was stored.
LEMMA WritersCommit ==
  ASSUME DraftInv, NEW next, Commits(next),
         \/ \E id \in ProfileIds(Stored.profiles["codex"]) \cup {Unset} :
              next = patchConfig(Stored, PointerPatch(id))
         \/ \E id \in ProfileIds(Stored.profiles["codex"]), name \in Title :
              next = updateProfile(Stored, "codex", id, name, Unset)
         \/ \E id : next = applyProfile(Stored, "codex", id)
         \/ \E r \in 1..Revision : next = importConfig(Exported(versions[r]))
  PROVE  /\ WellFormed(next) /\ versions' = Append(versions, next)
         /\ \/ Preserved(next, Stored)
            \/ \E r \in 1..Revision : next = importConfig(Exported(versions[r]))
<1>1. /\ VersionsOK(versions) /\ WellFormed(Stored) /\ "codex" \in ConfigScope
      /\ next # Refused /\ versions' = Append(versions, next)
  BY StoredSound DEF DraftInv, Commits, ConfigScope
<1>2. ASSUME NEW id \in ProfileIds(Stored.profiles["codex"]) \cup {Unset},
             next = patchConfig(Stored, PointerPatch(id))
      PROVE  WellFormed(next) /\ Preserved(next, Stored)
  <2> DEFINE list == Stored.profiles["codex"]
             patch == PointerPatch(id)
  <2>1. list \in Seq(StoredProfiles) BY <1>1, WellFormedParts
  <2>2. id \in ProfileIdentity \cup {Unset}
    <3>1. \A i \in DOMAIN list : list[i] \in StoredProfiles BY <2>1
    <3>2. \A i \in DOMAIN list : list[i].id \in ProfileIdentity BY <3>1 DEF StoredProfiles
    <3> QED BY <3>2 DEF ProfileIds
  <2>3. Stored.active \in [ConfigScope -> ProfileIdentity \cup {Unset}]
    BY <1>1 DEF WellFormed, Configs
  <2> DEFINE active == [Stored.active EXCEPT !["codex"] = id]
  <2>4. active \in [ConfigScope -> ProfileIdentity \cup {Unset}] BY <2>2, <2>3
  <2>5. patch.active = active BY DEF PointerPatch
  <2> HIDE DEF active
  <2>6. Points(patch, Stored) BY <2>4, <2>5 DEF Points, PointerPatch
  <2> QED BY <1>1, <1>2, <2>6, PointerMoves
<1>3. ASSUME NEW id \in ProfileIds(Stored.profiles["codex"]), NEW name \in Title,
             next = updateProfile(Stored, "codex", id, name, Unset)
      PROVE  WellFormed(next) /\ Preserved(next, Stored)
  BY <1>1, <1>3, ProfileUpdates
<1>4. ASSUME NEW id, next = applyProfile(Stored, "codex", id)
      PROVE  WellFormed(next) /\ Preserved(next, Stored)
  BY <1>1, <1>4, ProfileApplies
<1>5. ASSUME NEW r \in 1..Revision, next = importConfig(Exported(versions[r]))
      PROVE  WellFormed(next)
  <2>1. WellFormed(versions[r]) BY <1>1 DEF VersionsOK, Revision
  <2> QED BY <1>1, <1>5, <2>1, ExportImports DEF Admitted
<1> QED BY <1>1, <1>2, <1>3, <1>4, <1>5

\* One commit of a script, a restored backup or the proxy.
WriterCommits ==
  \E next :
    /\ WellFormed(next) /\ versions' = Append(versions, next) /\ pages' = pages
    /\ \/ Preserved(next, Stored)
       \/ \E r \in 1..Revision : next = importConfig(Exported(versions[r]))

LEMMA WritersStep ==
  ASSUME DraftInv,
         \/ ScriptMovesPointer \/ ScriptRenames \/ RestoresBackup
         \/ \E routing \in Routing : TurnSyncs(routing)
  PROVE  WriterCommits \/ UNCHANGED versions
<1>1. CASE ScriptMovesPointer
  <2>1. PICK id \in ProfileIds(Stored.profiles["codex"]) \cup {Unset} :
          Commits(patchConfig(Stored, PointerPatch(id)))
    BY <1>1 DEF ScriptMovesPointer
  <2>2. pages' = pages BY <1>1 DEF ScriptMovesPointer
  <2> QED BY <2>1, <2>2, WritersCommit DEF WriterCommits
<1>2. CASE ScriptRenames
  <2>1. PICK id \in ProfileIds(Stored.profiles["codex"]), name \in Title :
          Commits(updateProfile(Stored, "codex", id, name, Unset))
    BY <1>2 DEF ScriptRenames
  <2>2. pages' = pages BY <1>2 DEF ScriptRenames
  <2> QED BY <2>1, <2>2, WritersCommit DEF WriterCommits
<1>3. CASE RestoresBackup
  <2>1. PICK r \in 1..Revision : Commits(importConfig(Exported(versions[r])))
    BY <1>3 DEF RestoresBackup
  <2>2. pages' = pages BY <1>3 DEF RestoresBackup
  <2> QED BY <2>1, <2>2, WritersCommit DEF WriterCommits
<1>4. ASSUME NEW routing \in Routing, TurnSyncs(routing)
      PROVE  WriterCommits \/ UNCHANGED versions
  <2>1. pages' = pages BY <1>4 DEF TurnSyncs
  <2>2. CASE SyncStillDue(routing)
    <3>1. Commits(applyProfile(Stored, "codex", routings[routing].target))
      BY <1>4, <2>2 DEF TurnSyncs
    <3> QED BY <2>1, <3>1, WritersCommit DEF WriterCommits
  <2>3. CASE ~SyncStillDue(routing) BY <1>4, <2>3 DEF TurnSyncs
  <2> QED BY <2>2, <2>3
<1> QED BY <1>1, <1>2, <1>3, <1>4

LEMMA WritersKeep ==
  ASSUME DraftInv,
         \/ ScriptMovesPointer \/ ScriptRenames \/ RestoresBackup
         \/ \E routing \in Routing :
              \/ TurnArrives(routing) \/ TurnRoutes(routing)
              \/ TurnChecks(routing) \/ TurnSyncs(routing)
  PROVE  DraftInv'
<1>1. /\ routings \in [Routing -> TurnStates] /\ Revision \in Nat /\ Revision \in 1..Revision
      /\ VersionsOK(versions)
  BY StoredSound DEF DraftInv, Revision
<1>2. ASSUME UNCHANGED <<pages, reconciled>>, routings' \in [Routing -> TurnStates],
             WriterCommits \/ UNCHANGED versions
      PROVE  DraftInv'
  <2>1. CASE WriterCommits
    <3>1. PICK next : WellFormed(next) /\ versions' = Append(versions, next)
      BY <2>1 DEF WriterCommits
    <3> QED BY <1>2, <3>1, CommitMoves
  <2>2. CASE UNCHANGED versions BY <1>2, <2>2 DEF DraftInv, PagesSound, Revision
  <2> QED BY <1>2, <2>1, <2>2
<1>3. CASE ScriptMovesPointer \/ ScriptRenames \/ RestoresBackup
  <2>1. UNCHANGED <<pages, reconciled, routings>>
    BY <1>3 DEF ScriptMovesPointer, ScriptRenames, RestoresBackup
  <2>2. WriterCommits \/ UNCHANGED versions BY <1>3, WritersStep
  <2> QED BY <1>1, <1>2, <2>1, <2>2
<1>4. ASSUME NEW routing \in Routing, NEW turn \in TurnStates,
             routings' = [routings EXCEPT ![routing] = turn]
      PROVE  routings' \in [Routing -> TurnStates]
  BY <1>1, <1>4
<1>5. ASSUME NEW routing \in Routing, NEW state \in {"queued", "done"},
             routings' = [routings EXCEPT ![routing].state = state]
      PROVE  routings' \in [Routing -> TurnStates]
  BY <1>1, <1>5 DEF TurnStates
<1>6. ASSUME NEW routing \in Routing, TurnSyncs(routing) PROVE DraftInv'
  <2>1. UNCHANGED <<pages, reconciled>> /\ routings' = [routings EXCEPT ![routing].state = "done"]
    BY <1>6 DEF TurnSyncs
  <2>2. WriterCommits \/ UNCHANGED versions BY <1>6, WritersStep
  <2>3. routings' \in [Routing -> TurnStates] BY <1>5, <2>1
  <2> QED BY <1>2, <2>1, <2>2, <2>3
<1>7. ASSUME NEW routing \in Routing, TurnChecks(routing) PROVE DraftInv'
  <2>1. UNCHANGED <<versions, pages, reconciled>> BY <1>7 DEF TurnChecks
  <2>2. routings' \in [Routing -> TurnStates]
    <3>1. PICK state \in {"queued", "done"} : routings' = [routings EXCEPT ![routing].state = state]
      BY <1>7 DEF TurnChecks
    <3> QED BY <1>5, <3>1
  <2> QED BY <1>2, <2>1, <2>2
<1>8. ASSUME NEW routing \in Routing, TurnRoutes(routing) PROVE DraftInv'
  <2>1. PICK id \in ProfileIds(Stored.profiles["codex"]) :
          routings' = [routings EXCEPT ![routing] =
                         [state |-> "routed", read |-> Revision, target |-> id]]
    BY <1>8 DEF TurnRoutes, SnapshotToRoute, Stored
  <2>2. id \in ProfileIdentity
    <3>1. "codex" \in ConfigScope BY DEF ConfigScope
    <3>2. Stored.profiles["codex"] \in Seq(StoredProfiles)
      BY <1>1, <3>1, StoredSound, WellFormedParts
    <3> DEFINE list == Stored.profiles["codex"]
    <3> HIDE DEF list
    <3>3. list \in Seq(StoredProfiles) BY <3>2 DEF list
    <3>4. \A i \in DOMAIN list : list[i] \in StoredProfiles BY <3>3
    <3>5. \A i \in DOMAIN list : list[i].id \in ProfileIdentity BY <3>4 DEF StoredProfiles
    <3>6. id \in ProfileIds(list) BY DEF list
    <3> QED BY <3>5, <3>6 DEF ProfileIds
  <2>3. [state |-> "routed", read |-> Revision, target |-> id] \in TurnStates
    BY <1>1, <2>2 DEF TurnStates
  <2>4. routings' \in [Routing -> TurnStates] BY <1>4, <2>1, <2>3
  <2>5. UNCHANGED <<versions, pages>> /\ reconciled' = Revision
    BY <1>8 DEF TurnRoutes, SnapshotToRoute
  <2> QED BY <1>1, <2>4, <2>5 DEF DraftInv, PagesSound, Revision
<1>9. ASSUME NEW routing \in Routing, TurnArrives(routing) PROVE DraftInv'
  <2>1. [state |-> "arrived", read |-> Revision, target |-> Unset] \in TurnStates
    BY <1>1 DEF TurnStates
  <2>2. routings' \in [Routing -> TurnStates] BY <1>4, <1>9, <2>1 DEF TurnArrives
  <2>3. UNCHANGED <<versions, pages, reconciled>> BY <1>9 DEF TurnArrives
  <2> QED BY <1>2, <2>2, <2>3
<1> QED BY <1>3, <1>6, <1>7, <1>8, <1>9

LEMMA DraftSteps == DraftInv /\ [DraftNext]_draftVars => DraftInv'
<1> SUFFICES ASSUME DraftInv, [DraftNext]_draftVars PROVE DraftInv' OBVIOUS
<1>1. CASE UNCHANGED draftVars
  BY <1>1 DEF draftVars, DraftInv, PagesSound, Revision
<1>2. CASE DraftNext
  BY <1>2, EditsKeep, ArrivalsKeep, AnswersKeep, WritersKeep DEF DraftNext
<1> QED BY <1>1, <1>2

\* Who commits: a request that is answered, or a writer that leaves the pages alone.
LEMMA StoreSteps ==
  ASSUME DraftInv, [DraftNext]_draftVars
  PROVE  \/ UNCHANGED versions \/ WriterCommits
         \/ \E page \in Page : ServesMutation(page)
<1>1. CASE UNCHANGED draftVars BY <1>1 DEF draftVars
<1>2. ASSUME NEW page \in Page,
             \/ EditsRoute(page) \/ PicksPreset(page) \/ EditsSettings(page)
             \/ SubmitsDraft(page) \/ overrideSaveConflict(page)
             \/ OperatesOnList(page) \/ AdoptsImport(page)
             \/ Hears(page) \/ Receives(page) \/ Refuses(page) \/ ServesLoad(page)
      PROVE  UNCHANGED versions
  BY <1>2 DEF EditsRoute, PicksPreset, EditsSettings, DraftsOn, SubmitsDraft,
              overrideSaveConflict, OperatesOnList, Sends, AdoptsImport, Hears, Receives,
              Refuses, ServesLoad
<1>3. ASSUME NEW routing \in Routing,
             TurnArrives(routing) \/ TurnRoutes(routing) \/ TurnChecks(routing)
      PROVE  UNCHANGED versions
  BY <1>3 DEF TurnArrives, TurnRoutes, TurnChecks
<1> QED BY <1>1, <1>2, <1>3, WritersStep DEF DraftNext

SurvivesUnseen ==
  \A page \in Page :
    /\ Landed(page) /\ pages[page].request.kind \in {"patch", "save", "update"}
    /\ ~pages[page].request.astray
    => \A field \in FormFields : Changed(field) => field \in pages[page].request.mine

RespectsChoice ==
  /\ reconciled' >= reconciled
  /\ \A routing \in Routing :
       routings[routing].state = "queued" /\ routings'[routing] # routings[routing]
         /\ Revision' > Revision
       => /\ Stored.active = versions[routings[routing].read].active
          /\ Stored.route = versions[routings[routing].read].route

KeepsCredentials ==
  (\A page \in Page : ~Rewrites(page))
    => \A scope \in ConfigScope :
         \A id \in ProfileIds(Stored.profiles[scope]) :
           Revision' > Revision /\ HasProfile(versions'[Revision'], scope, id)
           /\ versions'[Revision'] \notin {importConfig(Exported(versions[r])) : r \in 1..Revision}
           => ProfileOf(versions'[Revision'], scope, id).config.route
                = ProfileOf(Stored, scope, id).config.route

LEMMA ServingLands ==
  ASSUME DraftInv, NEW page \in Page, ServesMutation(page)
  PROVE  /\ Landed(page)
         /\ \A p \in Page : Landed(p) => p = page
<1>1. pages \in [Page -> PageStates] /\ pages[page].request # NoRequest
  BY DEF DraftInv, PagesSound, ServesMutation, Waiting
<1>2. pages[page].request \in Requests /\ pages[page].request.answer = NoAnswer
  BY <1>1 DEF PageStates, ServesMutation, Waiting
<1>3. PICK next : Mutates(page, next) BY MutationServed
<1>4. Revision' = Revision + 1 /\ Revision \in Nat
  BY <1>3, StoreMoves DEF Mutates
<1>5. pages' = [pages EXCEPT ![page].request.answer = Revision + 1]
  BY DEF ServesMutation, Answers
<1>6. \A p \in Page : p # page => pages'[p] = pages[p] BY <1>1, <1>5
<1>7. pages'[page].request.answer = Revision + 1
  BY <1>1, <1>2, <1>5 DEF PageStates, Requests
<1>8. pages'[page].request # pages[page].request BY <1>2, <1>4, <1>7 DEF NoAnswer
<1> QED BY <1>4, <1>6, <1>8 DEF Landed

LEMMA UnseenSurvive == DraftInv /\ [DraftNext]_draftVars => SurvivesUnseen
<1> SUFFICES ASSUME DraftInv, [DraftNext]_draftVars, NEW page \in Page, Landed(page),
                    pages[page].request.kind \in {"patch", "save", "update"},
                    ~pages[page].request.astray, NEW field \in FormFields, Changed(field)
             PROVE  field \in pages[page].request.mine
  BY DEF SurvivesUnseen
<1>1. Revision' > Revision /\ pages[page].request # pages'[page].request BY DEF Landed
<1>2. Revision \in Nat BY StoredSound DEF DraftInv
<1>3. ~(UNCHANGED versions) BY <1>1, <1>2 DEF Revision
<1>4. ~WriterCommits BY <1>1 DEF WriterCommits
<1>5. PICK other \in Page : ServesMutation(other) BY <1>3, <1>4, StoreSteps
<1>6. ServesMutation(page) BY <1>5, ServingLands
<1>7. PICK next : Mutates(page, next) BY <1>6, MutationServed
<1>8. versions'[Revision'] = next BY <1>7, StoreMoves DEF Mutates
<1>9. pages[page].request.kind \in DraftKinds BY DEF DraftKinds
<1>10. \A f \in FormFields \ pages[page].request.mine : FieldOf(next, f) = FieldOf(Stored, f)
  BY <1>7, <1>9 DEF Mutates
<1> QED BY <1>8, <1>10 DEF Changed

LEMMA ChoiceRespected == DraftInv /\ [DraftNext]_draftVars => RespectsChoice
<1> SUFFICES ASSUME DraftInv, [DraftNext]_draftVars PROVE RespectsChoice OBVIOUS
<1>1. /\ routings \in [Routing -> TurnStates] /\ reconciled \in 1..Revision /\ Revision \in Nat
  BY StoredSound DEF DraftInv
<1>2. CASE UNCHANGED draftVars
  BY <1>1, <1>2 DEF draftVars, RespectsChoice, Revision
<1>3. ASSUME UNCHANGED <<routings, reconciled>> PROVE RespectsChoice
  BY <1>1, <1>3 DEF RespectsChoice
<1>4. ASSUME NEW page \in Page,
             \/ EditsRoute(page) \/ PicksPreset(page) \/ EditsSettings(page)
             \/ SubmitsDraft(page) \/ overrideSaveConflict(page)
             \/ OperatesOnList(page) \/ AdoptsImport(page)
             \/ Hears(page) \/ Receives(page)
             \/ ServesMutation(page) \/ Refuses(page) \/ ServesLoad(page)
      PROVE  UNCHANGED <<routings, reconciled>>
  BY <1>4 DEF EditsRoute, PicksPreset, EditsSettings, DraftsOn, SubmitsDraft,
              overrideSaveConflict, OperatesOnList, Sends, AdoptsImport, Hears, Receives,
              ServesMutation, Refuses, ServesLoad, Answers
<1>5. ASSUME ScriptMovesPointer \/ ScriptRenames \/ RestoresBackup
      PROVE  UNCHANGED <<routings, reconciled>>
  BY <1>5 DEF ScriptMovesPointer, ScriptRenames, RestoresBackup
<1>6. ASSUME NEW routing \in Routing,
             TurnArrives(routing) \/ TurnRoutes(routing) \/ TurnChecks(routing)
      PROVE  RespectsChoice
  <2>1. versions' = versions /\ reconciled' \in {reconciled, Revision}
    BY <1>6 DEF TurnArrives, TurnRoutes, SnapshotToRoute, TurnChecks
  <2>2. Revision' = Revision BY <2>1 DEF Revision
  <2> QED BY <1>1, <2>1, <2>2 DEF RespectsChoice
<1>7. ASSUME NEW routing \in Routing, TurnSyncs(routing) PROVE RespectsChoice
  <2>1. /\ routings' = [routings EXCEPT ![routing].state = "done"] /\ reconciled' = reconciled
        /\ ~SyncStillDue(routing) => versions' = versions
    BY <1>7 DEF TurnSyncs
  <2>2. ASSUME NEW other \in Routing, routings'[other] # routings[other], Revision' > Revision
        PROVE  /\ Stored.active = versions[routings[other].read].active
               /\ Stored.route = versions[routings[other].read].route
    <3>1. other = routing BY <1>1, <2>1, <2>2
    <3>2. SyncStillDue(routing) BY <1>1, <2>1, <2>2 DEF Revision
    <3>3. versions[routings[other].read] = Stored BY <3>1, <3>2 DEF SyncStillDue, Stored
    <3> QED BY <3>3
  <2> QED BY <1>1, <2>1, <2>2 DEF RespectsChoice
<1> QED BY <1>2, <1>3, <1>4, <1>5, <1>6, <1>7 DEF DraftNext

LEMMA CredentialsKept == DraftInv /\ [DraftNext]_draftVars => KeepsCredentials
<1> SUFFICES ASSUME DraftInv, [DraftNext]_draftVars, \A page \in Page : ~Rewrites(page),
                    NEW scope \in ConfigScope, NEW id \in ProfileIds(Stored.profiles[scope]),
                    Revision' > Revision, HasProfile(versions'[Revision'], scope, id),
                    versions'[Revision'] \notin {importConfig(Exported(versions[r])) : r \in 1..Revision}
             PROVE  ProfileOf(versions'[Revision'], scope, id).config.route
                      = ProfileOf(Stored, scope, id).config.route
  BY DEF KeepsCredentials
<1>1. Revision \in Nat /\ WellFormed(Stored) BY StoredSound DEF DraftInv
<1>2. ~(UNCHANGED versions) BY <1>1 DEF Revision
<1>3. \E next : WellFormed(next) /\ versions' = Append(versions, next) /\ Preserved(next, Stored)
  <2>1. CASE WriterCommits
    <3>1. PICK next :
            /\ WellFormed(next) /\ versions' = Append(versions, next)
            /\ \/ Preserved(next, Stored)
               \/ \E r \in 1..Revision : next = importConfig(Exported(versions[r]))
      BY <2>1 DEF WriterCommits
    <3>2. versions'[Revision'] = next BY <3>1, StoreMoves
    <3> QED BY <3>1, <3>2
  <2>2. CASE \E page \in Page : ServesMutation(page)
    <3>1. PICK page \in Page : ServesMutation(page) BY <2>2
    <3>2. Landed(page) BY <3>1, ServingLands
    <3>3. pages[page].request.kind \notin DraftKinds \cup {"import"} BY <3>2 DEF Rewrites
    <3>4. PICK next : Mutates(page, next) BY <3>1, MutationServed
    <3> QED BY <3>3, <3>4 DEF Mutates
  <2> QED BY <1>2, <2>1, <2>2, StoreSteps
<1>4. PICK next : WellFormed(next) /\ versions' = Append(versions, next) /\ Preserved(next, Stored)
  BY <1>3
<1>5. versions'[Revision'] = next BY <1>4, StoreMoves
<1>6. /\ ProfileOf(Stored, scope, id) \in ToSet(Stored.profiles[scope])
      /\ ProfileOf(Stored, scope, id).id = id
  BY <1>1, WellFormedParts, ListedProfile DEF HasProfile
<1>7. /\ ProfileOf(next, scope, id) \in ToSet(next.profiles[scope])
      /\ ProfileOf(next, scope, id).id = id
  BY <1>4, <1>5, WellFormedParts, ListedProfile
<1> QED BY <1>4, <1>5, <1>6, <1>7 DEF Preserved

\* A draft of a page, of any number of pages, saves what its operator edited and
\* nothing else, whatever requests, answers and snapshots cross it, unless an
\* answer has taken a refilled form for the old draft (studio-config-state.ts).
THEOREM DraftsLoseNothing == StudioSpec => UnseenEditsSurvive
<1>1. StudioInit => DraftInv BY DraftStarts DEF StudioInit
<1>2. DraftInv /\ [StudioNext]_studioVars => DraftInv'
  <2>1. [StudioNext]_studioVars => [DraftNext]_draftVars BY DEF StudioNext, studioVars
  <2> QED BY <2>1, DraftSteps
<1>3. DraftInv /\ [StudioNext]_studioVars => [SurvivesUnseen]_draftVars
  <2>1. [StudioNext]_studioVars => [DraftNext]_draftVars BY DEF StudioNext, studioVars
  <2> QED BY <2>1, UnseenSurvive
<1>4. [][SurvivesUnseen]_draftVars => UnseenEditsSurvive
  BY PTL DEF SurvivesUnseen, UnseenEditsSurvive
<1> QED BY <1>1, <1>2, <1>3, <1>4, PTL DEF StudioSpec

\* Health is never put back to an older configuration, and a queued sync replaces
\* only the choice its request saw, however many requests and writers there are
\* (openai-proxy.ts, syncScheduledPrimaryProfile).
THEOREM SyncsFollowTheChoice == StudioSpec => SyncRespectsChoice
<1>1. StudioInit => DraftInv BY DraftStarts DEF StudioInit
<1>2. DraftInv /\ [StudioNext]_studioVars => DraftInv'
  <2>1. [StudioNext]_studioVars => [DraftNext]_draftVars BY DEF StudioNext, studioVars
  <2> QED BY <2>1, DraftSteps
<1>3. DraftInv /\ [StudioNext]_studioVars => [RespectsChoice]_draftVars
  <2>1. [StudioNext]_studioVars => [DraftNext]_draftVars BY DEF StudioNext, studioVars
  <2> QED BY <2>1, ChoiceRespected
<1>4. [][RespectsChoice]_draftVars => SyncRespectsChoice
  BY PTL DEF RespectsChoice, SyncRespectsChoice
<1> QED BY <1>1, <1>2, <1>3, <1>4, PTL DEF StudioSpec

\* Applying, deleting, copying, reordering or renaming profiles, and moving the
\* pointer in any document, changes the connection of no stored profile
\* (config-profile-mutations.ts, syncActiveProfilesFromRuntime).
THEOREM SwitchesLoseNothing == StudioSpec => SwitchesKeepCredentials
<1>1. StudioInit => DraftInv BY DraftStarts DEF StudioInit
<1>2. DraftInv /\ [StudioNext]_studioVars => DraftInv'
  <2>1. [StudioNext]_studioVars => [DraftNext]_draftVars BY DEF StudioNext, studioVars
  <2> QED BY <2>1, DraftSteps
<1>3. DraftInv /\ [StudioNext]_studioVars => [KeepsCredentials]_draftVars
  <2>1. [StudioNext]_studioVars => [DraftNext]_draftVars BY DEF StudioNext, studioVars
  <2> QED BY <2>1, CredentialsKept
<1>4. [][KeepsCredentials]_draftVars => SwitchesKeepCredentials
  BY PTL DEF KeepsCredentials, SwitchesKeepCredentials
<1> QED BY <1>1, <1>2, <1>3, <1>4, PTL DEF StudioSpec

-----------------------------------------------------------------------------
(* Sums over finite sets: SizeOf unfolded, and what follows for any sizes. Each *)
(* fact holds of every set because no smallest counterexample can exist.        *)

\* The sum takes an entry out of the set at a time; the sums of the subsets of S
\* are one function, here with those of at most n entries and with all of them.
Pick(s) == CHOOSE x \in s : TRUE
UpTo(S, n) == {s \in SUBSET S : Cardinality(s) <= n}
SumsUpTo(f, g, S, n) ==
  f = [s \in UpTo(S, n) |-> IF s = {} THEN 0 ELSE g[Pick(s)] + f[s \ {Pick(s)}]]
SumsOf(f, g, S) ==
  f = [s \in SUBSET S |-> IF s = {} THEN 0 ELSE g[Pick(s)] + f[s \ {Pick(s)}]]

\* The definition of the folds, spelled out.
LEMMA SumIsChosen ==
  ASSUME NEW S, NEW g
  PROVE  SizeOf(g, S) = (CHOOSE f : SumsOf(f, g, S))[S]
BY DEF SizeOf, MapThenSumSet, MapThenFoldSet, SumsOf, Pick

\* One entry less.
LEMMA TakenOut ==
  ASSUME NEW s, s # {}, IsFiniteSet(s)
  PROVE  /\ Pick(s) \in s /\ IsFiniteSet(s \ {Pick(s)})
         /\ Cardinality(s \ {Pick(s)}) = Cardinality(s) - 1
         /\ Cardinality(s) \in Nat
<1>1. Pick(s) \in s BY DEF Pick
<1> QED BY <1>1, FS_RemoveElement, FS_CardinalityType

\* The function that a sum is chosen from exists.
LEMMA SumsExistUpTo ==
  ASSUME NEW S, IsFiniteSet(S), NEW g, NEW n \in Nat
  PROVE  \E f : SumsUpTo(f, g, S, n)
<1> DEFINE Missing == {m \in Nat : ~ \E f : SumsUpTo(f, g, S, m)}
<1> SUFFICES ASSUME Missing # {} PROVE FALSE
  OBVIOUS
<1>1. PICK m \in Missing : m = 0 \/ m - 1 \in Nat \ Missing
  <2>1. Missing \in SUBSET Nat OBVIOUS
  <2> HIDE DEF Missing
  <2> QED BY <2>1, LeastOf
<1>2. \A s \in SUBSET S : IsFiniteSet(s) /\ Cardinality(s) \in Nat
  BY FS_Subset, FS_CardinalityType
<1>3. \A s \in SUBSET S : s # {} => 
         /\ s \ {Pick(s)} \in SUBSET S
         /\ Cardinality(s \ {Pick(s)}) = Cardinality(s) - 1
  BY <1>2, TakenOut
<1>4. CASE m = 0
  <2> DEFINE f == [s \in UpTo(S, 0) |-> 0]
  <2>1. \A s \in UpTo(S, 0) : s = {}
    BY <1>2, FS_EmptySet DEF UpTo
  <2>2. SumsUpTo(f, g, S, 0)
    BY <2>1 DEF SumsUpTo
  <2> QED BY <1>1, <1>4, <2>2
<1>5. CASE m - 1 \in Nat \ Missing
  <2>1. PICK h : SumsUpTo(h, g, S, m - 1)
    BY <1>5
  <2> DEFINE f == [s \in UpTo(S, m) |-> IF s = {} THEN 0 ELSE g[Pick(s)] + h[s \ {Pick(s)}]]
  <2>2. \A s \in UpTo(S, m) : s # {} => s \ {Pick(s)} \in UpTo(S, m - 1)
    BY <1>1, <1>2, <1>3 DEF UpTo
  <2>3. \A s \in UpTo(S, m - 1) : s \in UpTo(S, m) /\ f[s] = h[s]
    <3> SUFFICES ASSUME NEW s \in UpTo(S, m - 1) PROVE s \in UpTo(S, m) /\ f[s] = h[s]
      OBVIOUS
    <3>1. s \in UpTo(S, m)
      BY <1>1, <1>2 DEF UpTo
    <3>2. h[s] = IF s = {} THEN 0 ELSE g[Pick(s)] + h[s \ {Pick(s)}]
      BY <2>1 DEF SumsUpTo
    <3> QED BY <3>1, <3>2
  <2>4. \A s \in UpTo(S, m) : f[s] = IF s = {} THEN 0 ELSE g[Pick(s)] + f[s \ {Pick(s)}]
    BY <2>2, <2>3
  <2>5. SumsUpTo(f, g, S, m)
    <3> HIDE DEF f
    <3>1. f = [s \in UpTo(S, m) |-> f[s]]
      BY DEF f
    <3> QED BY <3>1, <2>4 DEF SumsUpTo
  <2> QED BY <1>1, <2>5
<1> QED BY <1>1, <1>4, <1>5

LEMMA SumsExist ==
  ASSUME NEW S, IsFiniteSet(S), NEW g
  PROVE  \E f : SumsOf(f, g, S)
<1>1. Cardinality(S) \in Nat
  BY FS_CardinalityType
<1>2. PICK f : SumsUpTo(f, g, S, Cardinality(S))
  BY <1>1, SumsExistUpTo
<1>3. UpTo(S, Cardinality(S)) = SUBSET S
  BY FS_Subset DEF UpTo
<1> QED BY <1>2, <1>3 DEF SumsUpTo, SumsOf

\* All subsets agree: the function of a set gives the sums of its subsets.
LEMMA SumsAgree ==
  ASSUME NEW S, IsFiniteSet(S), NEW g, NEW f, SumsOf(f, g, S),
         NEW U \in SUBSET S, NEW h, SumsOf(h, g, U)
  PROVE  f[U] = h[U]
<1> DEFINE Apart == {n \in Nat : \E s \in SUBSET U : Cardinality(s) = n /\ f[s] # h[s]}
<1>1. \A s \in SUBSET U : IsFiniteSet(s) /\ Cardinality(s) \in Nat /\ s \in SUBSET S
  BY FS_Subset, FS_CardinalityType
<1>2. Apart = {}
  <2> SUFFICES ASSUME Apart # {} PROVE FALSE
    OBVIOUS
  <2>1. PICK n \in Apart : n = 0 \/ n - 1 \in Nat \ Apart
    <3>1. Apart \in SUBSET Nat OBVIOUS
    <3> HIDE DEF Apart
    <3> QED BY <3>1, LeastOf
  <2>2. PICK s \in SUBSET U : Cardinality(s) = n /\ f[s] # h[s]
    BY <2>1
  <2>3. /\ f[s] = IF s = {} THEN 0 ELSE g[Pick(s)] + f[s \ {Pick(s)}]
        /\ h[s] = IF s = {} THEN 0 ELSE g[Pick(s)] + h[s \ {Pick(s)}]
    BY <1>1, <2>2 DEF SumsOf
  <2>4. s # {}
    BY <2>2, <2>3
  <2>5. /\ Cardinality(s \ {Pick(s)}) = n - 1 /\ s \ {Pick(s)} \in SUBSET U /\ n # 0
    BY <2>2, <2>4, <1>1, TakenOut, FS_EmptySet
  <2>6. f[s \ {Pick(s)}] = h[s \ {Pick(s)}]
    BY <2>1, <2>5
  <2> QED BY <2>2, <2>3, <2>4, <2>6
<1> QED BY <1>1, <1>2

\* A sum over a finite set is a sum of its subsets' function.
LEMMA SumUnfolds ==
  ASSUME NEW S, IsFiniteSet(S), NEW g
  PROVE  SizeOf(g, S) = IF S = {} THEN 0 ELSE g[Pick(S)] + SizeOf(g, S \ {Pick(S)})
<1> DEFINE F(U) == CHOOSE f : SumsOf(f, g, U)
<1>1. \A U \in SUBSET S : SumsOf(F(U), g, U)
  BY FS_Subset, SumsExist
<1>2. \A U \in SUBSET S : SizeOf(g, U) = F(U)[U]
  BY SumIsChosen
<1>3. F(S)[S] = IF S = {} THEN 0 ELSE g[Pick(S)] + F(S)[S \ {Pick(S)}]
  <2> HIDE DEF F
  <2> QED BY <1>1 DEF SumsOf
<1>4. F(S)[S \ {Pick(S)}] = F(S \ {Pick(S)})[S \ {Pick(S)}]
  <2> HIDE DEF F
  <2> QED BY <1>1, SumsAgree
<1> HIDE DEF F
<1>5. S \in SUBSET S /\ S \ {Pick(S)} \in SUBSET S
  OBVIOUS
<1> QED BY <1>2, <1>3, <1>4, <1>5

\* A collection of subsets of a finite set that is not empty has a smallest one.
LEMMA SmallestOf ==
  ASSUME NEW S, IsFiniteSet(S), NEW B \in SUBSET SUBSET S, B # {}
  PROVE  \E s \in B : \A x \in s : s \ {x} \notin B
<1> DEFINE Sizes == {Cardinality(s) : s \in B}
<1>1. \A s \in SUBSET S : IsFiniteSet(s) /\ Cardinality(s) \in Nat
  BY FS_Subset, FS_CardinalityType
<1>2. PICK n \in Sizes : n = 0 \/ n - 1 \in Nat \ Sizes
  <2>1. Sizes \in SUBSET Nat /\ Sizes # {} BY <1>1
  <2> HIDE DEF Sizes
  <2> QED BY <2>1, LeastOf
<1>3. PICK s \in B : Cardinality(s) = n
  OBVIOUS
<1>4. \A x \in s : Cardinality(s \ {x}) = n - 1 /\ s \ {x} \in SUBSET S /\ n # 0
  BY <1>1, <1>3, FS_RemoveElement, FS_EmptySet
<1> QED BY <1>2, <1>3, <1>4

\* Sizes add up to a size.
LEMMA SumIsNat ==
  ASSUME NEW S, IsFiniteSet(S), NEW g, \A c \in S : g[c] \in Nat
  PROVE  SizeOf(g, S) \in Nat
<1> DEFINE B == {s \in SUBSET S : SizeOf(g, s) \notin Nat}
<1> SUFFICES ASSUME B # {} PROVE FALSE
  OBVIOUS
<1>1. PICK s \in B : \A x \in s : s \ {x} \notin B
  <2>1. B \in SUBSET SUBSET S OBVIOUS
  <2> HIDE DEF B
  <2> QED BY <2>1, SmallestOf
<1>2. SizeOf(g, s) = IF s = {} THEN 0 ELSE g[Pick(s)] + SizeOf(g, s \ {Pick(s)})
  BY SumUnfolds, FS_Subset
<1>3. s # {} => Pick(s) \in s
  BY DEF Pick
<1> QED BY <1>1, <1>2, <1>3

\* Any entry may be counted apart, not only the chosen one.
LEMMA SumTakesOut ==
  ASSUME NEW S, IsFiniteSet(S), NEW g, \A c \in S : g[c] \in Nat, NEW c \in S
  PROVE  SizeOf(g, S) = g[c] + SizeOf(g, S \ {c})
<1> DEFINE B == {s \in SUBSET S : \E x \in s : SizeOf(g, s) # g[x] + SizeOf(g, s \ {x})}
<1> SUFFICES ASSUME B # {} PROVE FALSE
  OBVIOUS
<1>1. PICK s \in B : \A x \in s : s \ {x} \notin B
  <2>1. B \in SUBSET SUBSET S OBVIOUS
  <2> HIDE DEF B
  <2> QED BY <2>1, SmallestOf
<1>2. PICK x \in s : SizeOf(g, s) # g[x] + SizeOf(g, s \ {x})
  OBVIOUS
<1> DEFINE y == Pick(s)
<1>3. y \in s
  BY <1>2 DEF Pick
<1> HIDE DEF y
<1>4. \A u \in SUBSET s : IsFiniteSet(u) /\ SizeOf(g, u) \in Nat
  BY FS_Subset, SumIsNat
<1>5. SizeOf(g, s) = g[y] + SizeOf(g, s \ {y})
  BY <1>2, <1>4, SumUnfolds DEF y
<1>6. x # y
  BY <1>2, <1>5
<1>7. SizeOf(g, s \ {y}) = g[x] + SizeOf(g, (s \ {y}) \ {x})
  BY <1>1, <1>3, <1>6
<1>8. SizeOf(g, s \ {x}) = g[y] + SizeOf(g, (s \ {x}) \ {y})
  BY <1>1, <1>3, <1>6
<1>9. (s \ {x}) \ {y} = (s \ {y}) \ {x}
  OBVIOUS
<1>10. /\ g[x] \in Nat /\ g[y] \in Nat /\ SizeOf(g, (s \ {y}) \ {x}) \in Nat
  BY <1>3, <1>4
<1> QED BY <1>2, <1>5, <1>7, <1>8, <1>9, <1>10

\* Larger sizes add up to no less.
LEMMA SumGrows ==
  ASSUME NEW S, IsFiniteSet(S), NEW g, NEW h,
         \A c \in S : g[c] \in Nat /\ h[c] \in Nat /\ g[c] <= h[c]
  PROVE  SizeOf(g, S) <= SizeOf(h, S)
<1> DEFINE B == {s \in SUBSET S : ~(SizeOf(g, s) <= SizeOf(h, s))}
<1> SUFFICES ASSUME B # {} PROVE FALSE
  OBVIOUS
<1>1. PICK s \in B : \A x \in s : s \ {x} \notin B
  <2>1. B \in SUBSET SUBSET S OBVIOUS
  <2> HIDE DEF B
  <2> QED BY <2>1, SmallestOf
<1> DEFINE y == Pick(s)
<1>2. /\ SizeOf(g, s) = IF s = {} THEN 0 ELSE g[y] + SizeOf(g, s \ {y})
      /\ SizeOf(h, s) = IF s = {} THEN 0 ELSE h[y] + SizeOf(h, s \ {y})
  BY SumUnfolds, FS_Subset
<1>3. s # {} => y \in s
  BY DEF Pick
<1>4. \A u \in SUBSET s : SizeOf(g, u) \in Nat /\ SizeOf(h, u) \in Nat
  BY FS_Subset, SumIsNat
<1> HIDE DEF y
<1>5. s # {} => SizeOf(g, s \ {y}) <= SizeOf(h, s \ {y})
  BY <1>1, <1>3
<1>6. s # {} => g[y] \in Nat /\ h[y] \in Nat /\ g[y] <= h[y]
  BY <1>3
<1>7. ~(SizeOf(g, s) <= SizeOf(h, s))
  BY <1>1
<1>8. CASE s = {}
  BY <1>2, <1>7, <1>8
<1>9. CASE s # {}
  BY <1>2, <1>4, <1>5, <1>6, <1>7, <1>9
<1> QED BY <1>8, <1>9

\* What adds nothing may be left out.
LEMMA SumLeavesOut ==
  ASSUME NEW S, IsFiniteSet(S), NEW g, \A c \in S : g[c] \in Nat,
         NEW T \in SUBSET S
  PROVE  /\ SizeOf(g, T) <= SizeOf(g, S)
         /\ (\A c \in S \ T : g[c] = 0) => SizeOf(g, S) = SizeOf(g, T)
<1> DEFINE Holds(s) == /\ SizeOf(g, T) <= SizeOf(g, s)
                       /\ (\A c \in S \ T : g[c] = 0) => SizeOf(g, s) = SizeOf(g, T)
           B == {s \in SUBSET S : T \subseteq s /\ ~Holds(s)}
<1> SUFFICES ASSUME B # {} PROVE FALSE
  <2> HIDE DEF Holds
  <2>1. B = {} => Holds(S) OBVIOUS
  <2> QED BY <2>1 DEF Holds
<1>1. PICK s \in B : \A x \in s : s \ {x} \notin B
  <2>1. B \in SUBSET SUBSET S OBVIOUS
  <2> HIDE DEF B
  <2> QED BY <2>1, SmallestOf
<1>2. \A u \in SUBSET S : IsFiniteSet(u) /\ SizeOf(g, u) \in Nat
  BY FS_Subset, SumIsNat
<1>3. s # T
  BY <1>1, <1>2
<1>4. PICK x \in s : x \notin T
  BY <1>1, <1>3
<1>5. SizeOf(g, s) = g[x] + SizeOf(g, s \ {x})
  BY <1>1, <1>2, <1>4, SumTakesOut
<1>6. Holds(s \ {x})
  <2> HIDE DEF Holds
  <2> QED BY <1>1, <1>4
<1>7. /\ SizeOf(g, T) \in Nat /\ SizeOf(g, s \ {x}) \in Nat /\ g[x] \in Nat
      /\ x \in S \ T
  BY <1>1, <1>2, <1>4
<1>8. /\ SizeOf(g, T) <= SizeOf(g, s)
      /\ (\A c \in S \ T : g[c] = 0) => SizeOf(g, s) = SizeOf(g, T)
  BY <1>5, <1>6, <1>7
<1> QED BY <1>1, <1>8

-----------------------------------------------------------------------------
(* Lists of captures that hold each once. *)

Distinct(s) == \A i, j \in 1..Len(s) : s[i] = s[j] => i = j

\* Min is the least number.
LEMMA LeastIs ==
  ASSUME NEW T \in SUBSET Nat, T # {}
  PROVE  Min(T) \in T /\ \A n \in T : Min(T) <= n
<1>1. PICK n \in T : \A m \in T : ~(<<m, n>> \in OpToRel(<, Nat))
  BY NatLessThanWellFounded, WFMin
<1>2. \A m \in T : n <= m
  <2> SUFFICES ASSUME NEW m \in T, ~(n <= m) PROVE FALSE
    OBVIOUS
  <2>1. m \in Nat /\ n \in Nat /\ m < n OBVIOUS
  <2>2. <<m, n>> \in OpToRel(<, Nat)
    BY <2>1 DEF OpToRel
  <2> QED BY <1>1, <2>2
<1> QED BY <1>2 DEF Min

\* A capture is taken from a list.
LEMMA WithoutIs ==
  ASSUME NEW s \in Seq(Capture), Distinct(s), NEW c \in ToSet(s)
  PROVE  /\ Without(s, c) \in Seq(Capture) /\ Distinct(Without(s, c))
         /\ Len(Without(s, c)) = Len(s) - 1
         /\ ToSet(Without(s, c)) = ToSet(s) \ {c}
<1>1. /\ Len(s) \in Nat /\ DOMAIN s = 1..Len(s) /\ ToSet(s) = {s[i] : i \in 1..Len(s)}
  BY Entries
<1> DEFINE k == CHOOSE i \in DOMAIN s : s[i] = c
           t == Without(s, c)
<1>2. k \in 1..Len(s) /\ s[k] = c BY <1>1
<1>3. t = RemoveAt(s, k) BY DEF Without
<1> HIDE DEF k, t
<1>4. /\ t \in Seq(Capture) /\ Len(t) = Len(s) - 1
      /\ \A i \in 1..Len(t) : t[i] = IF i < k THEN s[i] ELSE s[i + 1]
  BY <1>2, <1>3, RemovedAt
<1>5. Distinct(t)
  BY <1>1, <1>2, <1>4 DEF Distinct
<1>6. ToSet(t) = {t[i] : i \in 1..Len(t)}
  BY <1>4, Entries
<1>7. ToSet(t) \subseteq ToSet(s) \ {c}
  BY <1>1, <1>2, <1>4, <1>6 DEF Distinct
<1>8. ASSUME NEW d \in ToSet(s), d # c PROVE d \in ToSet(t)
  <2>1. PICK j \in 1..Len(s) : s[j] = d
    BY <1>1
  <2>2. j # k BY <1>2, <1>8, <2>1
  <2>3. CASE j < k
    <3>1. j \in 1..Len(t) /\ t[j] = d
      BY <1>1, <1>2, <1>4, <2>1, <2>3
    <3> QED BY <1>6, <3>1
  <2>4. CASE j > k
    <3>1. j - 1 \in 1..Len(t) /\ ~(j - 1 < k) /\ (j - 1) + 1 = j
      BY <1>1, <1>2, <1>4, <2>4
    <3>2. t[j - 1] = s[(j - 1) + 1] BY <1>4, <3>1
    <3>3. t[j - 1] = d BY <2>1, <3>1, <3>2
    <3> QED BY <1>6, <3>1, <3>3
  <2> QED BY <1>1, <1>2, <2>2, <2>3, <2>4
<1>9. ToSet(t) = ToSet(s) \ {c} BY <1>7, <1>8
<1> QED BY <1>4, <1>5, <1>9 DEF t

\* A new capture at the end.
LEMMA AppendedIs ==
  ASSUME NEW s \in Seq(Capture), Distinct(s), NEW c \in Capture, c \notin ToSet(s)
  PROVE  /\ Append(s, c) \in Seq(Capture) /\ Distinct(Append(s, c))
         /\ Len(Append(s, c)) = Len(s) + 1
         /\ ToSet(Append(s, c)) = ToSet(s) \cup {c}
<1> DEFINE t == Append(s, c)
<1>1. /\ Len(s) \in Nat /\ ToSet(s) = {s[i] : i \in 1..Len(s)}
      /\ \A i \in 1..Len(s) : s[i] \in Capture
  BY Entries
<1>2. /\ t \in Seq(Capture) /\ Len(t) = Len(s) + 1
      /\ \A i \in 1..Len(s) : t[i] = s[i]
      /\ t[Len(s) + 1] = c
  BY <1>1
<1> HIDE DEF t
<1>3. ToSet(t) = {t[i] : i \in 1..Len(t)}
  BY <1>2, Entries
<1>4. ASSUME NEW i \in 1..Len(t), NEW j \in 1..Len(t), t[i] = t[j] PROVE i = j
  <2>1. \A n \in 1..Len(s) : t[n] # c
    BY <1>1, <1>2
  <2>2. \A n \in 1..Len(t) : n \in 1..Len(s) \/ n = Len(s) + 1
    BY <1>1, <1>2
  <2>3. CASE i \in 1..Len(s) /\ j \in 1..Len(s)
    BY <1>2, <1>4, <2>3 DEF Distinct
  <2>4. CASE i = Len(s) + 1 /\ j = Len(s) + 1
    BY <2>4
  <2> QED BY <1>2, <1>4, <2>1, <2>2, <2>3, <2>4
<1>5. ToSet(t) = ToSet(s) \cup {c}
  <2>1. \A n \in 1..Len(t) : n \in 1..Len(s) \/ n = Len(s) + 1
    BY <1>1, <1>2
  <2>2. ToSet(t) \subseteq ToSet(s) \cup {c}
    BY <1>1, <1>2, <1>3, <2>1
  <2>3. Len(s) + 1 \in 1..Len(t) /\ \A n \in 1..Len(s) : n \in 1..Len(t)
    BY <1>1, <1>2
  <2> QED BY <1>1, <1>2, <1>3, <2>2, <2>3
<1> QED BY <1>2, <1>4, <1>5 DEF t, Distinct

\* The list from its k-th entry on.
LEMMA SuffixIs ==
  ASSUME NEW s \in Seq(Capture), Distinct(s), NEW k \in 1..Len(s)
  PROVE  LET t == SubSeq(s, k, Len(s))
         IN  /\ t \in Seq(Capture) /\ Distinct(t) /\ t # <<>> /\ Head(t) = s[k]
             /\ ToSet(t) = {s[i] : i \in k..Len(s)}
<1> DEFINE t == SubSeq(s, k, Len(s))
<1>1. /\ Len(s) \in Nat /\ \A i \in 1..Len(s) : s[i] \in Capture
  BY Entries
<1>2. /\ t \in Seq(Capture) /\ Len(t) = Len(s) - k + 1
      /\ \A i \in 1..(Len(s) - k + 1) : t[i] = s[k + i - 1]
  <2>1. k \in Int /\ Len(s) \in Int /\ \A i \in k..Len(s) : i \in 1..Len(s)
    BY <1>1
  <2>2. \A i \in k..Len(s) : s[i] \in Capture BY <1>1, <2>1
  <2>3. /\ t \in Seq(Capture)
        /\ Len(t) = IF k <= Len(s) THEN Len(s) - k + 1 ELSE 0
        /\ \A i \in 1..(Len(s) - k + 1) : t[i] = s[k + i - 1]
    BY <2>1, <2>2, SubSeqProperties
  <2> HIDE DEF t
  <2> QED BY <1>1, <2>3
<1> HIDE DEF t
<1>3. ToSet(t) = {t[i] : i \in 1..Len(t)}
  BY <1>2, Entries
<1>4. Distinct(t)
  <2> SUFFICES ASSUME NEW i \in 1..Len(t), NEW j \in 1..Len(t), t[i] = t[j] PROVE i = j
    BY DEF Distinct
  <2>1. /\ t[i] = s[k + i - 1] /\ k + i - 1 \in 1..Len(s)
        /\ t[j] = s[k + j - 1] /\ k + j - 1 \in 1..Len(s)
    BY <1>1, <1>2
  <2>2. k + i - 1 = k + j - 1 BY <2>1 DEF Distinct
  <2> QED BY <1>1, <2>2
<1>5. t # <<>> /\ Head(t) = s[k]
  <2>1. Len(t) # 0 /\ 1 \in 1..(Len(s) - k + 1) /\ k + 1 - 1 = k BY <1>1, <1>2
  <2> QED BY <1>2, <2>1
<1>6. ToSet(t) = {s[i] : i \in k..Len(s)}
  <2>1. ASSUME NEW i \in 1..Len(t) PROVE k + i - 1 \in k..Len(s) /\ t[i] = s[k + i - 1]
    BY <1>1, <1>2
  <2>2. ASSUME NEW i \in k..Len(s)
        PROVE  i - k + 1 \in 1..Len(t) /\ t[i - k + 1] = s[i]
    <3>1. i - k + 1 \in 1..Len(t) /\ k + (i - k + 1) - 1 = i BY <1>1, <1>2
    <3> QED BY <1>2, <3>1
  <2>3. ToSet(t) \subseteq {s[i] : i \in k..Len(s)} BY <1>3, <2>1
  <2>4. {s[i] : i \in k..Len(s)} \subseteq ToSet(t)
    <3> SUFFICES ASSUME NEW i \in k..Len(s) PROVE s[i] \in ToSet(t)
      OBVIOUS
    <3> QED BY <1>3, <2>2
  <2> QED BY <2>3, <2>4
<1> QED BY <1>2, <1>4, <1>5, <1>6 DEF t

\* The list without its head.
LEMMA TailIs ==
  ASSUME NEW s \in Seq(Capture), Distinct(s), s # <<>>
  PROVE  /\ Tail(s) \in Seq(Capture) /\ Distinct(Tail(s))
         /\ Head(s) \in ToSet(s) /\ ToSet(Tail(s)) = ToSet(s) \ {Head(s)}
<1>1. /\ Len(s) \in Nat /\ Len(s) # 0 /\ ToSet(s) = {s[i] : i \in 1..Len(s)}
  BY Entries
<1> DEFINE t == Tail(s)
<1>2. /\ t \in Seq(Capture) /\ Len(t) = Len(s) - 1 /\ \A i \in 1..Len(t) : t[i] = s[i + 1]
      /\ Head(s) = s[1]
  BY <1>1
<1> HIDE DEF t
<1>3. ToSet(t) = {t[i] : i \in 1..Len(t)}
  BY <1>2, Entries
<1>4. Distinct(t)
  BY <1>1, <1>2 DEF Distinct
<1>5. ToSet(t) \subseteq ToSet(s) \ {s[1]}
  <2>1. ASSUME NEW i \in 1..Len(t)
        PROVE  i + 1 \in 1..Len(s) /\ 1 \in 1..Len(s) /\ i + 1 # 1 /\ t[i] = s[i + 1]
    BY <1>1, <1>2
  <2> QED BY <1>1, <1>3, <2>1 DEF Distinct
<1>6. ASSUME NEW j \in 1..Len(s), s[j] # s[1] PROVE s[j] \in ToSet(t)
  <2>1. j # 1 BY <1>6
  <2>2. j - 1 \in 1..Len(t) /\ (j - 1) + 1 = j BY <1>1, <1>2, <2>1
  <2>3. t[j - 1] = s[j] BY <1>2, <2>2
  <2> QED BY <1>3, <2>2, <2>3
<1>7. s[1] \in ToSet(s) BY <1>1
<1> QED BY <1>1, <1>2, <1>4, <1>5, <1>6, <1>7 DEF t

-----------------------------------------------------------------------------
(* CaptureFiles *)

\* What a prune may be.
PruneState == [stage : {"none", "listing", "measuring", "deleting"},
               requested : BOOLEAN, max : Nat, rest : Seq(Capture),
               seen : [Capture -> Nat], total : Nat, purged : SUBSET Capture]
Scanned == ToSet(prune.rest)
Undisturbed == used["failures"] = 0 /\ skipped = {}

\* A file is whole once it was written, and a row that offers one has it.
FileOK(c) ==
  /\ bytes[c] \in {0, Size[c]}
  /\ c \in Files => write[c] \in {"open", "ended"}
  /\ write[c] = "open" => c \in Files /\ bytes[c] = 0
  /\ row[c] = "pending" => c \in Protected
  /\ row[c] = "present" =>
       /\ write[c] = "ended"
       /\ (c \in Files /\ bytes[c] = Size[c]) \/ c \in prune.purged \cup orphaned

\* What a pass works on is there, and what it will unlink was measured.
PassOK ==
  /\ prune.stage # "deleting" => prune.purged = {}
  /\ prune.stage \in {"measuring", "deleting"} =>
       Distinct(prune.rest) /\ Scanned \subseteq Files
  /\ prune.stage = "deleting" =>
       /\ prune.rest # <<>> /\ Head(prune.rest) \notin Protected
       /\ SizeOf(prune.seen, Scanned) <= prune.total

\* A pass that nobody asked to repeat has every finished file in its list with
\* its size, so that what it measures is no less than what there is.
CapOK ==
  Undisturbed =>
    /\ prune.stage = "none" => Total <= max /\ (estimate # Unknown => Total <= estimate)
    /\ prune.stage # "none" /\ ~prune.requested =>
         /\ prune.max = max
         /\ prune.stage # "listing" => \A c \in Files : write[c] = "ended" => c \in Scanned
         /\ prune.stage = "measuring" =>
              \A c \in Scanned : prune.seen[c] = 1 <=> c \in Protected
         /\ prune.stage = "deleting" =>
              /\ \A c \in Scanned \ Protected : prune.seen[c] = bytes[c]
              /\ Total <= prune.total /\ estimate = prune.total

\* The logger closes last.
ClosedOK == closed => stopping /\ prune.stage = "none" /\ Protected = {}

CaptureInv ==
  /\ TypeOK /\ Distinct(dir)
  /\ \A c \in Capture : FileOK(c)
  /\ PassOK /\ CapOK /\ ClosedOK

\* The directory lists captures.
LEMMA FilesAre ==
  ASSUME TypeOK
  PROVE  Files = ToSet(dir) /\ Files \subseteq Capture /\ IsFiniteSet(Files)
<1>1. Files = ToSet(dir) /\ ToSet(dir) \subseteq Capture
  BY Entries DEF TypeOK, Files, ToSet
<1> QED BY <1>1, CaptureAssumption, FS_Subset

LEMMA Sized ==
  ASSUME NEW g, NEW F \in SUBSET Capture, \A c \in F : g[c] \in Nat
  PROVE  IsFiniteSet(F) /\ SizeOf(g, F) \in Nat
BY CaptureAssumption, FS_Subset, SumIsNat

\* Sums of equal sizes are equal.
LEMMA SizesAgree ==
  ASSUME NEW g, NEW h, NEW F \in SUBSET Capture, \A c \in F : g[c] \in Nat /\ h[c] = g[c]
  PROVE  SizeOf(h, F) = SizeOf(g, F)
<1>1. IsFiniteSet(F) /\ SizeOf(g, F) \in Nat /\ SizeOf(h, F) \in Nat
  BY Sized
<1>2. SizeOf(g, F) <= SizeOf(h, F) /\ SizeOf(h, F) <= SizeOf(g, F)
  BY <1>1, SumGrows
<1> QED BY <1>1, <1>2

LEMMA TotalIsNat ==
  ASSUME TypeOK PROVE Total \in Nat
BY FilesAre, Sized DEF TypeOK, Total

\* Asking disturbs no pass that runs.
LEMMA AskedIs ==
  ASSUME TypeOK, NEW cap \in Caps
  PROVE  /\ Asked(cap) \in PruneState
         /\ prune.stage # "none" =>
              /\ Asked(cap).requested
              /\ Asked(cap).stage = prune.stage /\ Asked(cap).rest = prune.rest
              /\ Asked(cap).seen = prune.seen /\ Asked(cap).total = prune.total
         /\ prune.stage = "none" => Asked(cap).stage = "listing" /\ Asked(cap).max = cap
         /\ Asked(cap).purged = prune.purged
BY CaptureAssumption DEF Asked, Passing, TypeOK, PruneState

LEMMA NothingPruned ==
  /\ NoPrune \in PruneState /\ NoPrune.stage = "none" /\ NoPrune.purged = {}
  /\ ~NoPrune.requested
<1>1. <<>> \in Seq(Capture) /\ [c \in Capture |-> 0] \in [Capture -> Nat]
  OBVIOUS
<1> QED BY <1>1 DEF NoPrune, PruneState

LEMMA PassingIs ==
  ASSUME NEW p \in PruneState, NEW cap \in Nat
  PROVE  /\ Passing(p, cap) \in PruneState
         /\ Passing(p, cap).stage = "listing" /\ Passing(p, cap).max = cap
         /\ Passing(p, cap).purged = p.purged /\ ~Passing(p, cap).requested
BY DEF Passing, PruneState

\* The invariant holds at the start.
LEMMA CapturesStart == Init => CaptureInv
<1> SUFFICES ASSUME Init PROVE CaptureInv
  OBVIOUS
<1>1. /\ prune = Passing(NoPrune, max) /\ max \in Caps /\ max \in Nat
      /\ dir = <<>> /\ Files = {}
  BY CaptureAssumption DEF Init, Files
<1>2. prune \in PruneState /\ prune.stage = "listing" /\ prune.purged = {} /\ prune.max = max
  BY <1>1, PassingIs, NothingPruned
<1>3. TypeOK
  <2>1. Cardinality(Files) = Len(dir) BY <1>1, FS_EmptySet
  <2>2. dir \in Seq(Capture) BY <1>1
  <2>3. /\ row \in [Capture -> RowStatus] /\ write \in [Capture -> WriteStage]
        /\ bytes \in [Capture -> Nat] /\ used \in [{"edits", "restarts", "failures"} -> Nat]
    BY DEF Init, RowStatus, WriteStage
  <2>4. /\ estimate \in Nat \cup {Unknown} /\ fresh \in BOOLEAN /\ max \in Caps
        /\ stopping \in BOOLEAN /\ closed \in BOOLEAN
        /\ orphaned \subseteq Capture /\ skipped \subseteq Capture
    BY <1>1 DEF Init
  <2> QED BY <1>2, <2>1, <2>2, <2>3, <2>4 DEF TypeOK, PruneState
<1>4. \A c \in Capture : FileOK(c)
  BY <1>1 DEF Init, FileOK
<1>5. Distinct(dir) /\ PassOK /\ CapOK /\ ClosedOK
  BY <1>1, <1>2 DEF Init, Distinct, PassOK, CapOK, ClosedOK
<1> QED BY <1>3, <1>4, <1>5 DEF CaptureInv

\* Steps that leave directory, prune and estimate alone.
LEMMA RowsOnly ==
  ASSUME CaptureInv,
         UNCHANGED <<dir, bytes, estimate, max, prune, orphaned, skipped>>,
         TypeOK',
         used["failures"] = 0 \/ used'["failures"] # 0,
         \A c \in Capture : write'[c] = write[c] \/ (write[c] = "idle" /\ write'[c] = "begun"),
         \A c \in Capture : row'[c] = "present" => row[c] = "present",
         \A c \in Capture : row'[c] = "pending" => row[c] = "pending" \/ write'[c] = "begun",
         ClosedOK'
  PROVE  CaptureInv'
<1>1. /\ Files' = Files /\ Total' = Total /\ Scanned' = Scanned
  BY DEF Files, Total, Scanned
<1>2. \A c \in Capture : c \in Protected => c \in Protected'
  BY DEF Protected
<1>3. \A c \in Capture : c \in Protected' => c \in Protected \/ c \notin Files
  BY DEF Protected, CaptureInv, FileOK
<1>4. \A c \in Capture : FileOK(c)'
  <2> SUFFICES ASSUME NEW c \in Capture PROVE FileOK(c)'
    OBVIOUS
  <2>1. FileOK(c) BY DEF CaptureInv
  <2>2. write'[c] = "begun" => c \in Protected' BY DEF Protected
  <2> QED BY <1>1, <1>2, <2>1, <2>2 DEF FileOK
<1>5. Files \subseteq Capture BY FilesAre DEF CaptureInv
<1>6. PassOK'
  <2>1. PassOK BY DEF CaptureInv
  <2>2. prune.stage = "deleting" => Head(prune.rest) \in Scanned
    <3>1. prune.rest \in Seq(Capture) BY DEF CaptureInv, TypeOK
    <3> QED BY <2>1, <3>1, TailIs DEF PassOK, Scanned
  <2> QED BY <1>1, <1>3, <1>5, <2>1, <2>2 DEF PassOK
<1>7. CapOK'
  <2>1. PassOK /\ CapOK BY DEF CaptureInv
  <2>2. Undisturbed' => Undisturbed BY DEF Undisturbed, TypeOK
  <2>3. \A c \in Files : write'[c] = "ended" <=> write[c] = "ended"
    BY <1>5
  <2>4. \A c \in Files : c \in Protected' <=> c \in Protected
    BY <1>2, <1>3, <1>5
  <2>5. prune.stage \in {"measuring", "deleting"} => Scanned \subseteq Files
    BY <2>1 DEF PassOK
  <2>6. prune.stage \in {"none", "listing", "measuring", "deleting"}
    BY DEF CaptureInv, TypeOK
  <2> QED BY <1>1, <2>1, <2>2, <2>3, <2>4, <2>5, <2>6 DEF CapOK
<1> QED BY <1>4, <1>6, <1>7 DEF CaptureInv

\* What a step of the loop has done to the directory when its pass ends or goes on,
\* `gone` being the files it has unlinked so far.
AfterStep(gone) ==
  /\ UNCHANGED <<write, max, stopping, closed, orphaned, skipped>>
  /\ prune.stage # "none" /\ gone \subseteq Capture
  /\ dir' \in Seq(Capture) /\ Distinct(dir') /\ Cardinality(Files') = Len(dir')
  /\ Files' \subseteq Files
  /\ bytes' \in [Capture -> Nat]
  /\ estimate' \in Nat \cup {Unknown} /\ fresh' \in BOOLEAN
  /\ used' \in [{"edits", "restarts", "failures"} -> Nat]
  /\ used["failures"] = 0 \/ used'["failures"] # 0
  /\ \A c \in Capture :
       /\ bytes'[c] \in {0, Size[c]}
       /\ write[c] = "open" => c \in Files' /\ bytes'[c] = 0
       /\ row[c] = "present" => (c \in Files' /\ bytes'[c] = Size[c]) \/ c \in gone \cup orphaned

\* A pass ends.
LEMMA EndPassKeeps ==
  ASSUME CaptureInv, NEW gone, AfterStep(gone), EndPass(gone),
         Undisturbed' /\ ~prune.requested =>
           Total' <= max /\ (estimate' # Unknown => Total' <= estimate')
  PROVE  CaptureInv'
<1>1. /\ row \in [Capture -> RowStatus] /\ write \in [Capture -> WriteStage] /\ max \in Caps
      /\ max \in Nat /\ prune \in PruneState /\ orphaned \subseteq Capture /\ skipped \subseteq Capture
      /\ stopping \in BOOLEAN /\ closed \in BOOLEAN
  BY CaptureAssumption DEF CaptureInv, TypeOK, PruneState
<1>2. /\ prune' \in PruneState /\ prune'.purged = {}
      /\ prune'.stage = "none" => ~prune.requested
      /\ prune'.stage \in {"none", "listing"}
      /\ prune'.stage = "listing" => prune'.max = max
  <2>1. NoPrune \in PruneState /\ NoPrune.purged = {} /\ NoPrune.stage = "none"
    BY NothingPruned
  <2> DEFINE p == [NoPrune EXCEPT !.requested = TRUE]
  <2>2. p \in PruneState /\ p.purged = {}
    BY <2>1 DEF PruneState
  <2>3. prune' = IF prune.requested THEN Passing(p, max) ELSE NoPrune
    BY DEF EndPass, NextPass
  <2> HIDE DEF p
  <2>4. CASE prune.requested
    BY <1>1, <2>2, <2>3, <2>4, PassingIs
  <2>5. CASE ~prune.requested
    BY <2>1, <2>3, <2>5
  <2> QED BY <2>4, <2>5
<1>3. /\ row' \in [Capture -> RowStatus]
      /\ \A c \in Capture : /\ row'[c] = "present" => row[c] = "present" /\ c \notin gone
                            /\ row'[c] = "pending" => row[c] = "pending"
  BY <1>1 DEF EndPass, RowStatus
<1>4. TypeOK'
  BY <1>1, <1>2, <1>3 DEF AfterStep, TypeOK, PruneState
<1>5. \A c \in Capture : FileOK(c)'
  <2> SUFFICES ASSUME NEW c \in Capture PROVE FileOK(c)'
    OBVIOUS
  <2>1. FileOK(c) BY DEF CaptureInv
  <2>2. Protected' = Protected BY DEF Protected, AfterStep
  <2> QED BY <1>2, <1>3, <2>1, <2>2 DEF FileOK, AfterStep
<1>6. PassOK'
  BY <1>2 DEF PassOK
<1>7. CapOK'
  BY <1>2 DEF CapOK, AfterStep
<1>8. ClosedOK'
  BY DEF ClosedOK, CaptureInv, AfterStep
<1> QED BY <1>4, <1>5, <1>6, <1>7, <1>8 DEF CaptureInv, AfterStep

\* A pass ends or goes on.
LEMMA ContinueKeeps ==
  ASSUME CaptureInv, NEW gone, AfterStep(gone),
         NEW rest \in Seq(Capture), Distinct(rest), ToSet(rest) \subseteq Files',
         NEW seen \in [Capture -> Nat], NEW total \in Nat,
         SizeOf(seen, ToSet(rest)) <= total,
         Continue(rest, seen, total, gone),
         Undisturbed' /\ ~prune.requested =>
           /\ prune.max = max
           /\ \A c \in Files' : write[c] = "ended" => c \in ToSet(rest)
           /\ \A c \in ToSet(rest) \ Protected : seen[c] = bytes'[c]
           /\ Total' <= total /\ estimate' = total
  PROVE  CaptureInv'
<1> DEFINE victims == {i \in DOMAIN rest : rest[i] \in Files \ Protected}
<1>1. /\ Len(rest) \in Nat /\ DOMAIN rest = 1..Len(rest)
      /\ ToSet(rest) = {rest[i] : i \in 1..Len(rest)}
  BY Entries
<1>2. /\ Files' \subseteq Capture /\ \A c \in Capture : bytes'[c] \in Nat
      /\ Files' \subseteq Files
  BY FilesAre DEF AfterStep, CaptureInv
<1>3. Total' \in Nat
  BY <1>2, Sized DEF Total
<1>4. CASE total <= prune.max \/ victims = {}
  <2>1. EndPass(gone) BY <1>4 DEF Continue
  <2>2. ASSUME Undisturbed', ~prune.requested
        PROVE  Total' <= max /\ (estimate' # Unknown => Total' <= estimate')
    <3>1. CASE total <= prune.max
      <4>1. prune.max \in Nat BY DEF CaptureInv, TypeOK
      <4>2. Total' <= prune.max /\ prune.max = max BY <1>3, <2>2, <3>1, <4>1
      <4> QED BY <2>2, <4>2
    <3>2. CASE victims = {}
      <4>1. \A c \in ToSet(rest) : c \in Protected
        BY <1>1, <1>2, <3>2
      <4>2. \A c \in Files' : write[c] = "open"
        <5>1. \A c \in Files' : write[c] \in {"open", "ended"}
          BY <1>2 DEF CaptureInv, FileOK
        <5> QED BY <2>2, <4>1, <5>1 DEF Protected
      <4>3. \A c \in Files' : bytes'[c] = 0
        BY <1>2, <4>2 DEF AfterStep
      <4>4. Total' = 0
        <5>1. IsFiniteSet(Files') BY <1>2, CaptureAssumption, FS_Subset
        <5>2. SizeOf(bytes', {}) = 0 BY FS_EmptySet, SumUnfolds
        <5>3. SizeOf(bytes', Files') = SizeOf(bytes', {})
          BY <1>2, <4>3, <5>1, SumLeavesOut
        <5> QED BY <5>2, <5>3 DEF Total
      <4>5. max \in Nat BY CaptureAssumption DEF CaptureInv, TypeOK
      <4>6. estimate' \in Nat BY <2>2
      <4> QED BY <4>4, <4>5, <4>6
    <3> QED BY <1>4, <3>1, <3>2
  <2> QED BY <2>1, <2>2, EndPassKeeps
<1>5. CASE ~(total <= prune.max) /\ victims # {}
  <2> DEFINE k == Min(victims)
             left == SubSeq(rest, k, Len(rest))
  <2>1. k \in victims /\ \A i \in victims : k <= i
    <3>1. victims \in SUBSET Nat BY <1>1
    <3> HIDE DEF victims
    <3> QED BY <1>5, <3>1, LeastIs
  <2>2. k \in 1..Len(rest) /\ rest[k] \notin Protected
    BY <1>1, <2>1
  <2>3. /\ prune' = [prune EXCEPT !.stage = "deleting", !.seen = seen, !.rest = left,
                                  !.total = total, !.purged = gone]
        /\ UNCHANGED row
    BY <1>5 DEF Continue
  <2>4. /\ left \in Seq(Capture) /\ Distinct(left) /\ left # <<>> /\ Head(left) = rest[k]
        /\ ToSet(left) = {rest[i] : i \in k..Len(rest)}
    BY <2>2, SuffixIs
  <2>5. ToSet(left) \subseteq ToSet(rest)
    <3> HIDE DEF k, left, victims
    <3>1. \A i \in k..Len(rest) : i \in 1..Len(rest)
      BY <1>1, <2>2
    <3> QED BY <1>1, <2>4, <3>1
  <2>6. \A c \in ToSet(rest) \ Protected : c \in ToSet(left)
    <3> SUFFICES ASSUME NEW c \in ToSet(rest), c \notin Protected PROVE c \in ToSet(left)
      OBVIOUS
    <3>1. PICK i \in 1..Len(rest) : rest[i] = c BY <1>1
    <3>2. i \in victims BY <1>1, <1>2, <3>1
    <3>3. i \in k..Len(rest) BY <1>1, <2>1, <2>2, <3>1, <3>2
    <3> QED BY <2>4, <3>1, <3>3
  <2> HIDE DEF k, left, victims
  <2>7. /\ prune' \in PruneState
        /\ prune'.stage = "deleting" /\ prune'.seen = seen /\ prune'.rest = left
        /\ prune'.total = total /\ prune'.purged = gone
        /\ prune'.requested = prune.requested /\ prune'.max = prune.max
    <3>1. prune \in PruneState /\ gone \in SUBSET Capture
      BY DEF CaptureInv, TypeOK, PruneState, AfterStep
    <3> QED BY <2>3, <2>4, <3>1 DEF PruneState
  <2>8. Scanned' = ToSet(left) BY <2>7 DEF Scanned
  <2>9. TypeOK'
    BY <2>3, <2>7 DEF CaptureInv, TypeOK, AfterStep, PruneState
  <2>10. Protected' = Protected BY DEF Protected, AfterStep
  <2>11. \A c \in Capture : FileOK(c)'
    <3> SUFFICES ASSUME NEW c \in Capture PROVE FileOK(c)'
      OBVIOUS
    <3>1. FileOK(c) BY DEF CaptureInv
    <3> QED BY <2>3, <2>7, <2>10, <3>1 DEF FileOK, AfterStep
  <2>12. PassOK'
    <3>1. SizeOf(seen, ToSet(left)) <= total
      <4>1. ToSet(rest) \subseteq Capture BY <1>2
      <4>2. /\ IsFiniteSet(ToSet(rest)) /\ \A c \in ToSet(rest) : seen[c] \in Nat
        BY <4>1, CaptureAssumption, FS_Subset
      <4>3. SizeOf(seen, ToSet(left)) <= SizeOf(seen, ToSet(rest))
        BY <2>5, <4>2, SumLeavesOut
      <4>4. SizeOf(seen, ToSet(left)) \in Nat /\ SizeOf(seen, ToSet(rest)) \in Nat
        BY <2>5, <4>1, Sized
      <4> QED BY <4>3, <4>4
    <3> QED BY <1>2, <2>2, <2>4, <2>5, <2>7, <2>8, <2>10, <3>1 DEF PassOK
  <2>13. CapOK'
    <3>1. max' = max /\ write' = write BY DEF AfterStep
    <3>2. ASSUME Undisturbed', ~prune.requested
          PROVE  /\ \A c \in Files' : write[c] = "ended" => c \in ToSet(left)
                 /\ \A c \in ToSet(left) \ Protected : seen[c] = bytes'[c]
      <4>1. \A c \in Files' : write[c] = "ended" => c \notin Protected
        BY DEF Protected
      <4> QED BY <2>5, <2>6, <3>2, <4>1
    <3> QED BY <2>7, <2>8, <2>10, <3>1, <3>2 DEF CapOK
  <2>14. ClosedOK'
    BY DEF ClosedOK, CaptureInv, AfterStep
  <2> QED BY <2>9, <2>11, <2>12, <2>13, <2>14 DEF CaptureInv, AfterStep
<1> QED BY <1>4, <1>5

\* A write that ends, whole or not, in a state that is like the old one but for
\* that capture.
LEMMA WriteEnds ==
  ASSUME CaptureInv, NEW c \in Capture, write[c] \in {"begun", "open"}, AfterWrite(c),
         write' = [write EXCEPT ![c] = "ended"],
         UNCHANGED <<fresh, max, stopping, closed, orphaned>>,
         TypeOK', Distinct(dir'), Files' = Files,
         \A d \in Capture \ {c} : bytes'[d] = bytes[d] /\ row'[d] = row[d],
         bytes'[c] \in {0, Size[c]},
         row'[c] # "pending",
         row'[c] = "present" => c \in Files /\ bytes'[c] = Size[c],
         used["failures"] = 0 \/ used'["failures"] # 0,
         used'["failures"] = 0 => write[c] = "open"
  PROVE  CaptureInv'
<1>1. /\ Size[c] \in Nat /\ max \in Nat /\ max \in Caps
      /\ bytes \in [Capture -> Nat] /\ bytes' \in [Capture -> Nat]
      /\ estimate \in Nat \cup {Unknown} /\ Unknown \notin Nat
  BY CaptureAssumption DEF CaptureInv, TypeOK
<1>2. /\ Files \subseteq Capture /\ IsFiniteSet(Files)
  BY FilesAre DEF CaptureInv
<1>3. Protected' = Protected \ {c} /\ ~closed
  BY DEF Protected, CaptureInv, ClosedOK, TypeOK
<1> DEFINE known == IF estimate = Unknown THEN Unknown ELSE estimate + Size[c]
<1>4. estimate' = known BY DEF AfterWrite
<1>5. /\ skipped \subseteq skipped'
      /\ CanSkip(known, max) => prune' = prune /\ (prune.stage # "none" => c \in skipped')
      /\ ~CanSkip(known, max) => prune' = Asked(max)
  BY DEF AfterWrite
<1> HIDE DEF known
<1>6. /\ Asked(max).purged = prune.purged
      /\ prune.stage # "none" =>
              /\ Asked(max).requested
              /\ Asked(max).stage = prune.stage /\ Asked(max).rest = prune.rest
              /\ Asked(max).seen = prune.seen /\ Asked(max).total = prune.total
      /\ prune.stage = "none" => Asked(max).stage = "listing" /\ Asked(max).max = max
  BY <1>1, AskedIs DEF CaptureInv
<1>7. prune'.purged = prune.purged
  BY <1>5, <1>6
<1>8. \A d \in Capture : FileOK(d)'
  <2> SUFFICES ASSUME NEW d \in Capture PROVE FileOK(d)'
    OBVIOUS
  <2>1. FileOK(d) /\ FileOK(c) BY DEF CaptureInv
  <2>2. CASE d = c
    BY <1>3, <1>7, <2>1, <2>2 DEF FileOK, CaptureInv, TypeOK
  <2>3. CASE d # c
    <3>1. write'[d] = write[d] /\ bytes'[d] = bytes[d] /\ row'[d] = row[d]
      BY <2>3 DEF CaptureInv, TypeOK
    <3> QED BY <1>3, <1>7, <2>1, <2>3, <3>1 DEF FileOK
  <2> QED BY <2>2, <2>3
<1>9. PassOK'
  <2>1. PassOK BY DEF CaptureInv
  <2>2. prune.stage # "none" =>
              /\ prune'.stage = prune.stage /\ prune'.rest = prune.rest
              /\ prune'.seen = prune.seen /\ prune'.total = prune.total
    BY <1>5, <1>6
  <2>3. prune.stage = "none" => prune'.stage \in {"none", "listing"}
    BY <1>5, <1>6
  <2> QED BY <1>3, <1>7, <2>1, <2>2, <2>3 DEF PassOK, Scanned
<1>10. CapOK'
  <2> SUFFICES ASSUME Undisturbed' PROVE CapOK'
    BY DEF CapOK
  <2>1. skipped' = {} /\ skipped = {} /\ used'["failures"] = 0 /\ Undisturbed
    BY <1>5 DEF Undisturbed
  <2>2. CASE prune' = Asked(max)
    BY <1>6, <2>2 DEF CapOK
  <2>3. CASE CanSkip(known, max)
    <3>1. prune.stage = "none"
      BY <1>5, <1>6, <2>1, <2>3
    <3>2. Total <= max /\ (estimate # Unknown => Total <= estimate)
      BY <2>1, <3>1 DEF CaptureInv, CapOK
    <3>3. known # Unknown /\ 10 * known <= 9 * max
      BY <2>3 DEF CanSkip
    <3>4. estimate \in Nat /\ known = estimate + Size[c]
      BY <1>1, <3>3 DEF known
    <3>5. write[c] = "open" /\ c \in Files /\ bytes[c] = 0
      BY <2>1 DEF CaptureInv, FileOK
    <3>6. Total \in Nat BY TotalIsNat DEF CaptureInv
    <3>7. Total' <= Total + Size[c]
      <4>1. /\ SizeOf(bytes, Files) = bytes[c] + SizeOf(bytes, Files \ {c})
            /\ SizeOf(bytes', Files) = bytes'[c] + SizeOf(bytes', Files \ {c})
        BY <1>1, <1>2, <3>5, SumTakesOut
      <4>2. SizeOf(bytes', Files \ {c}) = SizeOf(bytes, Files \ {c})
        <5>1. \A d \in Files \ {c} : bytes[d] \in Nat /\ bytes'[d] = bytes[d]
          BY <1>1, <1>2
        <5>2. Files \ {c} \in SUBSET Capture BY <1>2
        <5> QED BY <5>1, <5>2, SizesAgree
      <4>3. SizeOf(bytes, Files \ {c}) \in Nat
        BY <1>1, <1>2, Sized
      <4>4. bytes'[c] \in Nat /\ bytes'[c] <= Size[c] BY <1>1
      <4> QED BY <1>1, <3>5, <4>1, <4>2, <4>3, <4>4 DEF Total
    <3>8. Total' \in Nat
      <4>1. \A d \in Files : bytes'[d] \in Nat BY <1>1, <1>2
      <4> QED BY <1>2, <4>1, Sized DEF Total
    <3>9. known \in Nat /\ Total' <= known /\ Total' <= max
      BY <1>1, <3>2, <3>3, <3>4, <3>6, <3>7, <3>8
    <3> QED BY <1>1, <1>4, <1>5, <2>3, <3>1, <3>9 DEF CapOK
  <2> QED BY <1>5, <2>2, <2>3
<1>11. ClosedOK'
  BY <1>3 DEF ClosedOK
<1> QED BY <1>8, <1>9, <1>10, <1>11 DEF CaptureInv

LEMMA WroteKeeps ==
  ASSUME CaptureInv, NEW c \in Capture, Wrote(c)
  PROVE  CaptureInv'
<1>1. /\ Size[c] \in Nat /\ max \in Caps /\ row \in [Capture -> RowStatus]
      /\ write \in [Capture -> WriteStage] /\ bytes \in [Capture -> Nat]
      /\ dir \in Seq(Capture) /\ Distinct(dir) /\ Cardinality(Files) = Len(dir)
      /\ Len(dir) \in Nat /\ estimate \in Nat \cup {Unknown}
      /\ prune \in PruneState /\ skipped \subseteq Capture
  BY CaptureAssumption DEF CaptureInv, TypeOK, PruneState
<1>2. write[c] = "open" /\ c \in Files
  BY DEF CaptureInv, FileOK, Wrote
<1>3. Files = ToSet(dir) BY FilesAre DEF CaptureInv
<1>4. dir' = Append(Without(dir, c), c) /\ bytes' = [bytes EXCEPT ![c] = Size[c]]
  BY <1>2 DEF Wrote
<1>5. /\ Without(dir, c) \in Seq(Capture) /\ Distinct(Without(dir, c))
      /\ Len(Without(dir, c)) = Len(dir) - 1 /\ ToSet(Without(dir, c)) = Files \ {c}
  BY <1>1, <1>2, <1>3, WithoutIs
<1>6. /\ dir' \in Seq(Capture) /\ Distinct(dir') /\ Len(dir') = Len(dir)
      /\ ToSet(dir') = Files
  <2>1. /\ Append(Without(dir, c), c) \in Seq(Capture) /\ Distinct(Append(Without(dir, c), c))
        /\ Len(Append(Without(dir, c), c)) = Len(Without(dir, c)) + 1
        /\ ToSet(Append(Without(dir, c), c)) = (Files \ {c}) \cup {c}
    BY <1>5, AppendedIs
  <2> QED BY <1>1, <1>2, <1>4, <1>5, <2>1
<1>7. Files' = Files
  BY <1>6 DEF Files, ToSet
<1>8. row' = IF row[c] = "absent" THEN row ELSE [row EXCEPT ![c] = "present"]
  BY DEF Wrote, UpdateRow
<1>9. prune' \in PruneState /\ estimate' \in Nat \cup {Unknown} /\ skipped' \subseteq Capture
  BY <1>1, AskedIs DEF Wrote, AfterWrite, CaptureInv
<1>10. TypeOK'
  BY <1>1, <1>4, <1>6, <1>7, <1>8, <1>9
  DEF Wrote, CaptureInv, TypeOK, PruneState, RowStatus, WriteStage
<1> QED BY <1>1, <1>2, <1>4, <1>6, <1>7, <1>8, <1>10, WriteEnds DEF Wrote, RowStatus

LEMMA NotWrittenKeeps ==
  ASSUME CaptureInv, NEW c \in Capture, NotWritten(c)
  PROVE  CaptureInv'
<1>1. /\ Size[c] \in Nat /\ max \in Caps /\ row \in [Capture -> RowStatus]
      /\ write \in [Capture -> WriteStage] /\ bytes \in [Capture -> Nat]
      /\ estimate \in Nat \cup {Unknown}
      /\ used \in [{"edits", "restarts", "failures"} -> Nat]
      /\ prune \in PruneState /\ skipped \subseteq Capture
  BY CaptureAssumption DEF CaptureInv, TypeOK, PruneState
<1>2. Files' = Files
  BY DEF Files, NotWritten
<1>3. row' = IF row[c] = "absent" THEN row ELSE [row EXCEPT ![c] = "none"]
  BY DEF NotWritten, UpdateRow
<1>4. prune' \in PruneState /\ estimate' \in Nat \cup {Unknown} /\ skipped' \subseteq Capture
  BY <1>1, AskedIs DEF NotWritten, AfterWrite, CaptureInv
<1>5. used' \in [{"edits", "restarts", "failures"} -> Nat] /\ used'["failures"] # 0
  BY <1>1 DEF NotWritten, Use
<1>6. TypeOK'
  BY <1>1, <1>2, <1>3, <1>4, <1>5
  DEF NotWritten, CaptureInv, TypeOK, PruneState, RowStatus, WriteStage
<1>7. bytes'[c] \in {0, Size[c]}
  BY DEF NotWritten, CaptureInv, FileOK
<1> QED BY <1>1, <1>2, <1>3, <1>5, <1>6, <1>7, WriteEnds DEF NotWritten, RowStatus, CaptureInv

LEMMA OpenKeeps ==
  ASSUME CaptureInv, NEW c \in Capture, Open(c)
  PROVE  CaptureInv'
<1>1. /\ row \in [Capture -> RowStatus] /\ max \in Nat
      /\ write \in [Capture -> WriteStage] /\ bytes \in [Capture -> Nat]
      /\ dir \in Seq(Capture) /\ Distinct(dir) /\ Cardinality(Files) = Len(dir)
      /\ Len(dir) \in Nat /\ prune \in PruneState
  BY CaptureAssumption DEF CaptureInv, TypeOK, PruneState
<1>2. /\ Files = ToSet(dir) /\ Files \subseteq Capture /\ IsFiniteSet(Files)
      /\ c \notin Files /\ write[c] = "begun"
  BY FilesAre DEF CaptureInv, FileOK, Open
<1>3. /\ dir' \in Seq(Capture) /\ Distinct(dir') /\ Len(dir') = Len(dir) + 1
      /\ ToSet(dir') = Files \cup {c}
  BY <1>1, <1>2, AppendedIs DEF Open
<1>4. Files' = Files \cup {c}
  BY <1>3 DEF Files, ToSet
<1>5. /\ write' = [write EXCEPT ![c] = "open"] /\ bytes' = [bytes EXCEPT ![c] = 0]
      /\ row' = row /\ prune' = prune /\ orphaned' = orphaned
  BY DEF Open
<1>6. TypeOK'
  <2>1. Cardinality(Files') = Len(dir')
    <3>1. Cardinality(Files \cup {c}) = Cardinality(Files) + 1
      BY <1>2, FS_AddElement
    <3> QED BY <1>1, <1>3, <1>4, <3>1
  <2> QED BY <1>1, <1>3, <1>5, <2>1 DEF Open, CaptureInv, TypeOK, PruneState, WriteStage
<1>7. Protected' = Protected
  BY <1>1, <1>2 DEF Protected, Open
<1>8. \A d \in Capture : FileOK(d)'
  <2> SUFFICES ASSUME NEW d \in Capture PROVE FileOK(d)'
    OBVIOUS
  <2>1. FileOK(d) /\ FileOK(c) BY DEF CaptureInv
  <2>2. CASE d = c
    BY <1>1, <1>2, <1>4, <1>5, <1>7, <2>1, <2>2 DEF FileOK
  <2>3. CASE d # c
    BY <1>1, <1>4, <1>5, <1>7, <2>1, <2>3 DEF FileOK
  <2> QED BY <2>2, <2>3
<1>9. PassOK'
  BY <1>4, <1>5, <1>7 DEF CaptureInv, PassOK, Scanned
<1>10. Total' = Total
  <2>1. \A d \in Files : bytes[d] \in Nat /\ bytes'[d] = bytes[d]
    BY <1>1, <1>2, <1>5
  <2>2. SizeOf(bytes', Files) = SizeOf(bytes, Files)
    BY <1>2, <2>1, SizesAgree
  <2>3. /\ IsFiniteSet(Files') /\ \A d \in Files' : bytes'[d] \in Nat
        /\ \A d \in Files' \ Files : bytes'[d] = 0
    BY <1>1, <1>2, <1>4, <1>5, FS_AddElement
  <2>4. SizeOf(bytes', Files') = SizeOf(bytes', Files)
    BY <1>4, <2>3, SumLeavesOut
  <2> QED BY <2>2, <2>4 DEF Total
<1>11. CapOK'
  <2>1. CapOK /\ PassOK BY DEF CaptureInv
  <2>2. /\ Scanned' = Scanned /\ Undisturbed' = Undisturbed /\ max' = max /\ estimate' = estimate
    BY DEF Scanned, Undisturbed, Open
  <2>3. prune.stage \in {"measuring", "deleting"} => c \notin Scanned
    BY <1>2, <2>1 DEF PassOK
  <2>4. \A d \in Capture \ {c} : write'[d] = write[d] /\ bytes'[d] = bytes[d]
    BY <1>1, <1>5
  <2>5. write'[c] = "open" BY <1>1, <1>5
  <2>6. prune.stage \in {"measuring", "deleting"} => Scanned \subseteq Capture
    BY <1>2, <2>1 DEF PassOK
  <2> QED BY <1>2, <1>4, <1>5, <1>7, <1>10, <2>1, <2>2, <2>3, <2>4, <2>5, <2>6 DEF CapOK
<1>12. ClosedOK'
  BY <1>7 DEF ClosedOK, CaptureInv, Open
<1> QED BY <1>3, <1>6, <1>8, <1>9, <1>11, <1>12 DEF CaptureInv

LEMMA ListKeeps ==
  ASSUME CaptureInv, List
  PROVE  CaptureInv'
<1>1. /\ row \in [Capture -> RowStatus] /\ max \in Nat
      /\ write \in [Capture -> WriteStage] /\ bytes \in [Capture -> Nat]
      /\ dir \in Seq(Capture) /\ Distinct(dir) /\ prune \in PruneState
      /\ Files = ToSet(dir) /\ Files \subseteq Capture
  BY CaptureAssumption, FilesAre DEF CaptureInv, TypeOK, PruneState
<1>2. Files' = Files /\ Total' = Total /\ Protected' = Protected
  BY DEF List, Files, Total, Protected
<1> DEFINE flags == [c \in Capture |-> IF c \in Protected THEN 1 ELSE 0]
<1>3. CASE /\ prune' = [prune EXCEPT !.stage = "measuring", !.rest = dir, !.seen = flags]
           /\ UNCHANGED row
  <2>1. flags \in [Capture -> Nat] /\ \A c \in Capture : flags[c] = 1 <=> c \in Protected
    OBVIOUS
  <2> HIDE DEF flags
  <2>2. /\ prune' \in PruneState /\ prune'.stage = "measuring" /\ prune'.rest = dir
        /\ prune'.seen = flags /\ prune'.purged = prune.purged
        /\ prune'.requested = prune.requested /\ prune'.max = prune.max
    BY <1>1, <1>3, <2>1 DEF PruneState
  <2>3. Scanned' = Files BY <1>1, <2>2 DEF Scanned
  <2>4. TypeOK'
    BY <1>2, <1>3, <2>2 DEF List, CaptureInv, TypeOK, PruneState
  <2>5. prune.purged = {} BY DEF List, CaptureInv, PassOK
  <2>6. \A c \in Capture : FileOK(c)'
    BY <1>2, <1>3, <2>2 DEF List, CaptureInv, FileOK
  <2>7. PassOK' BY <1>1, <1>2, <2>2, <2>3, <2>5 DEF PassOK
  <2>8. CapOK'
    BY <1>1, <1>2, <2>1, <2>2, <2>3 DEF CapOK, Undisturbed, List, CaptureInv
  <2>9. ClosedOK' BY DEF ClosedOK, CaptureInv, List
  <2> QED BY <1>1, <2>4, <2>6, <2>7, <2>8, <2>9 DEF CaptureInv, List
<1>4. CASE dir = <<>> /\ EndPass({})
  <2>1. AfterStep({})
    <3>1. prune.purged = {} /\ prune.stage # "none" BY DEF List, CaptureInv, PassOK
    <3>2. \A c \in Capture :
            /\ bytes[c] \in {0, Size[c]}
            /\ write[c] = "open" => c \in Files /\ bytes[c] = 0
            /\ row[c] = "present" => (c \in Files /\ bytes[c] = Size[c]) \/ c \in orphaned
      BY <3>1 DEF CaptureInv, FileOK
    <3> QED BY <1>1, <1>2, <3>1, <3>2 DEF AfterStep, List, CaptureInv, TypeOK
  <2>2. Total' = 0
    <3>1. Files = {} BY <1>4 DEF Files
    <3> QED BY <1>2, <3>1, FS_EmptySet, SumUnfolds DEF Total
  <2>3. estimate' \in Nat \cup {Unknown} BY DEF List, CaptureInv, TypeOK
  <2>4. Total' <= max /\ (estimate' # Unknown => Total' <= estimate')
    BY <1>1, <2>2, <2>3
  <2> QED BY <1>4, <2>1, <2>4, EndPassKeeps
<1> QED BY <1>3, <1>4 DEF List

LEMMA MeasureKeeps ==
  ASSUME CaptureInv, Measure
  PROVE  CaptureInv'
<1>1. /\ row \in [Capture -> RowStatus] /\ max \in Nat /\ Size \in [Capture -> Nat]
      /\ write \in [Capture -> WriteStage] /\ bytes \in [Capture -> Nat]
      /\ dir \in Seq(Capture) /\ Distinct(dir) /\ prune \in PruneState
      /\ Files \subseteq Capture /\ prune.rest \in Seq(Capture)
  BY CaptureAssumption, FilesAre DEF CaptureInv, TypeOK, PruneState
<1>2. Files' = Files /\ Total' = Total /\ bytes' = bytes
  BY DEF Measure, Files, Total
<1>3. /\ prune.stage = "measuring" /\ prune.purged = {} /\ Distinct(prune.rest)
      /\ Scanned \subseteq Files
  BY DEF Measure, CaptureInv, PassOK
<1>4. Files \cap {prune.rest[i] : i \in DOMAIN prune.rest} = Scanned
  BY <1>3 DEF Scanned, ToSet
<1>5. PICK seen \in [Capture -> {0} \cup UNION {Measured(c) : c \in Scanned}] :
        /\ \A c \in Capture : seen[c] \in IF c \in Scanned THEN Measured(c) ELSE {0}
        /\ estimate' = SizeOf(seen, Scanned)
        /\ Continue(prune.rest, seen, estimate', {})
  BY <1>4 DEF Measure
<1>6. /\ seen \in [Capture -> Nat]
      /\ \A c \in Scanned : seen[c] \in IF prune.seen[c] = 1 THEN {0, Size[c]} ELSE {bytes[c]}
  <2>1. \A c \in Capture : Measured(c) \subseteq Nat BY <1>1 DEF Measured
  <2>2. \A c \in Capture : seen[c] \in Nat BY <1>5, <2>1
  <2>3. \A c \in Scanned : seen[c] \in Measured(c) BY <1>1, <1>3, <1>5
  <2> QED BY <1>5, <2>2, <2>3 DEF Measured
<1>7. Scanned \subseteq Capture /\ \A c \in Scanned : seen[c] \in Nat
  BY <1>1, <1>3, <1>6
<1>8. estimate' \in Nat
  BY <1>5, <1>7, Sized
<1>9. AfterStep({})
  <2>1. \A c \in Capture :
          /\ bytes[c] \in {0, Size[c]}
          /\ write[c] = "open" => c \in Files /\ bytes[c] = 0
          /\ row[c] = "present" => (c \in Files /\ bytes[c] = Size[c]) \/ c \in orphaned
    BY <1>3 DEF CaptureInv, FileOK
  <2> QED BY <1>1, <1>2, <1>3, <1>8, <2>1 DEF AfterStep, Measure, CaptureInv, TypeOK
<1>10. ASSUME Undisturbed', ~prune.requested
       PROVE  /\ prune.max = max
              /\ \A c \in Files' : write[c] = "ended" => c \in Scanned
              /\ \A c \in Scanned \ Protected : seen[c] = bytes'[c]
              /\ Total' <= estimate'
  <2>1. Undisturbed BY <1>10 DEF Undisturbed, Measure
  <2>2. /\ prune.max = max /\ \A c \in Files : write[c] = "ended" => c \in Scanned
        /\ \A c \in Scanned : prune.seen[c] = 1 <=> c \in Protected
    BY <1>3, <1>10, <2>1 DEF CaptureInv, CapOK
  <2>3. \A c \in Scanned \ Protected : seen[c] = bytes[c]
    BY <1>6, <2>2
  <2>4. \A c \in Scanned : bytes[c] <= seen[c] /\ bytes[c] \in Nat
    <3> SUFFICES ASSUME NEW c \in Scanned PROVE bytes[c] <= seen[c] /\ bytes[c] \in Nat
      OBVIOUS
    <3>1. bytes[c] \in Nat BY <1>1, <1>7
    <3>2. CASE c \in Protected
      <4>1. bytes[c] = 0
        BY <1>1, <1>3, <3>2 DEF CaptureInv, FileOK, Protected
      <4> QED BY <1>7, <4>1
    <3>3. CASE c \notin Protected BY <2>3, <3>1, <3>3
    <3> QED BY <3>1, <3>2, <3>3
  <2>5. \A c \in Files \ Scanned : bytes[c] = 0
    <3> SUFFICES ASSUME NEW c \in Files \ Scanned PROVE bytes[c] = 0
      OBVIOUS
    <3>1. write[c] = "open" BY <1>1, <2>2 DEF CaptureInv, FileOK
    <3> QED BY <1>1, <3>1 DEF CaptureInv, FileOK
  <2>6. SizeOf(bytes, Files) = SizeOf(bytes, Scanned)
    <3>1. IsFiniteSet(Files) /\ \A c \in Files : bytes[c] \in Nat
      BY <1>1, CaptureAssumption, FS_Subset
    <3> QED BY <1>3, <2>5, <3>1, SumLeavesOut
  <2>7. SizeOf(bytes, Scanned) <= SizeOf(seen, Scanned)
    <3>1. IsFiniteSet(Scanned) BY <1>7, CaptureAssumption, FS_Subset
    <3> QED BY <1>7, <2>4, <3>1, SumGrows
  <2> QED BY <1>2, <1>5, <2>2, <2>3, <2>6, <2>7 DEF Total
<1>11. SizeOf(seen, ToSet(prune.rest)) <= estimate'
  BY <1>5, <1>8 DEF Scanned
<1>12. ToSet(prune.rest) \subseteq Files'
  BY <1>2, <1>3 DEF Scanned
<1> HIDE DEF Measure
<1> QED BY <1>1, <1>3, <1>5, <1>6, <1>8, <1>9, <1>10, <1>11, <1>12, ContinueKeeps DEF Scanned

LEMMA DeleteKeeps ==
  ASSUME CaptureInv, Delete
  PROVE  CaptureInv'
<1> DEFINE c == Head(prune.rest)
           left == prune.total - prune.seen[c]
<1>1. /\ row \in [Capture -> RowStatus] /\ max \in Nat /\ Size \in [Capture -> Nat]
      /\ write \in [Capture -> WriteStage] /\ bytes \in [Capture -> Nat]
      /\ dir \in Seq(Capture) /\ Distinct(dir) /\ prune \in PruneState
      /\ Cardinality(Files) = Len(dir) /\ Len(dir) \in Nat
      /\ Files \subseteq Capture /\ IsFiniteSet(Files) /\ Files = ToSet(dir)
      /\ prune.rest \in Seq(Capture)
      /\ prune.seen \in [Capture -> Nat] /\ prune.total \in Nat /\ prune.purged \subseteq Capture
      /\ estimate \in Nat \cup {Unknown} /\ fresh \in BOOLEAN
      /\ used \in [{"edits", "restarts", "failures"} -> Nat]
  BY CaptureAssumption, FilesAre DEF CaptureInv, TypeOK, PruneState
<1>2. /\ prune.stage = "deleting" /\ Distinct(prune.rest) /\ Scanned \subseteq Files
      /\ prune.rest # <<>> /\ c \notin Protected
      /\ SizeOf(prune.seen, Scanned) <= prune.total
  BY DEF Delete, CaptureInv, PassOK
<1>3. /\ Tail(prune.rest) \in Seq(Capture) /\ Distinct(Tail(prune.rest))
      /\ c \in Scanned /\ ToSet(Tail(prune.rest)) = Scanned \ {c}
  BY <1>1, <1>2, TailIs DEF Scanned
<1>4. c \in Files /\ c \in Capture /\ Scanned \subseteq Capture
  BY <1>1, <1>2, <1>3
<1>5. \/ /\ dir' = Without(dir, c) /\ bytes' = [bytes EXCEPT ![c] = 0]
         /\ estimate' = left
         /\ Continue(Tail(prune.rest), prune.seen, left, prune.purged \cup {c})
         /\ UNCHANGED used
      \/ /\ MayFail /\ Use("failures")
         /\ Continue(Tail(prune.rest), prune.seen, prune.total, prune.purged)
         /\ UNCHANGED <<dir, bytes, estimate>>
  BY DEF Delete
<1>6. UNCHANGED <<write, fresh, max, stopping, closed, orphaned, skipped>>
  BY DEF Delete
<1> HIDE DEF c, left
<1>7. /\ SizeOf(prune.seen, Scanned) = prune.seen[c] + SizeOf(prune.seen, Scanned \ {c})
      /\ SizeOf(prune.seen, Scanned \ {c}) \in Nat /\ prune.seen[c] \in Nat
  <2>1. \A d \in Scanned : prune.seen[d] \in Nat BY <1>1, <1>4
  <2>2. IsFiniteSet(Scanned) BY <1>4, CaptureAssumption, FS_Subset
  <2>3. \A d \in Scanned \ {c} : prune.seen[d] \in Nat BY <2>1
  <2>4. Scanned \ {c} \in SUBSET Capture BY <1>4
  <2> QED BY <1>1, <1>3, <1>4, <2>1, <2>2, <2>3, <2>4, SumTakesOut, Sized
<1>8. /\ left \in Nat /\ left = prune.total - prune.seen[c]
      /\ SizeOf(prune.seen, Scanned \ {c}) <= left
      /\ SizeOf(prune.seen, Scanned \ {c}) <= prune.total
  <2>1. left = prune.total - prune.seen[c] BY DEF left
  <2>2. ASSUME NEW all \in Nat, NEW one \in Nat, NEW others \in Nat, one + others <= all
        PROVE  all - one \in Nat /\ others <= all - one /\ others <= all
    BY <2>2
  <2>3. prune.seen[c] + SizeOf(prune.seen, Scanned \ {c}) <= prune.total BY <1>2, <1>7
  <2> QED BY <1>1, <1>7, <2>1, <2>2, <2>3
<1>9. \A d \in Capture :
        /\ bytes[d] \in {0, Size[d]}
        /\ write[d] = "open" => d \in Files /\ bytes[d] = 0
        /\ row[d] = "present" =>
             (d \in Files /\ bytes[d] = Size[d]) \/ d \in prune.purged \cup orphaned
  BY DEF CaptureInv, FileOK
<1>10. CASE /\ dir' = Without(dir, c) /\ bytes' = [bytes EXCEPT ![c] = 0]
            /\ estimate' = left
            /\ Continue(Tail(prune.rest), prune.seen, left, prune.purged \cup {c})
            /\ UNCHANGED used
  <2> DEFINE gone == prune.purged \cup {c}
  <2>1. /\ dir' \in Seq(Capture) /\ Distinct(dir') /\ Len(dir') = Len(dir) - 1
        /\ ToSet(dir') = Files \ {c}
    BY <1>1, <1>4, <1>10, WithoutIs
  <2>2. Files' = Files \ {c}
    BY <2>1 DEF Files, ToSet
  <2>3. Cardinality(Files') = Len(dir')
    <3>1. Cardinality(Files \ {c}) = Cardinality(Files) - 1
      BY <1>1, <1>4, FS_RemoveElement
    <3> QED BY <1>1, <2>1, <2>2, <3>1
  <2>4. /\ bytes' \in [Capture -> Nat] /\ bytes'[c] = 0
        /\ \A d \in Capture \ {c} : bytes'[d] = bytes[d]
    BY <1>1, <1>4, <1>10
  <2>5. AfterStep(gone)
    <3>1. write[c] # "open" BY <1>2, <1>4 DEF Protected
    <3>2. \A d \in Capture :
            /\ bytes'[d] \in {0, Size[d]}
            /\ write[d] = "open" => d \in Files' /\ bytes'[d] = 0
            /\ row[d] = "present" =>
                 (d \in Files' /\ bytes'[d] = Size[d]) \/ d \in gone \cup orphaned
      <4> SUFFICES ASSUME NEW d \in Capture
                   PROVE  /\ bytes'[d] \in {0, Size[d]}
                          /\ write[d] = "open" => d \in Files' /\ bytes'[d] = 0
                          /\ row[d] = "present" =>
                               (d \in Files' /\ bytes'[d] = Size[d]) \/ d \in gone \cup orphaned
        OBVIOUS
      <4>1. CASE d = c BY <2>4, <3>1, <4>1
      <4>2. CASE d # c BY <1>9, <2>2, <2>4, <4>2
      <4> QED BY <4>1, <4>2
    <3>3. used' = used /\ estimate' \in Nat BY <1>8, <1>10
    <3>4. gone \subseteq Capture BY <1>1, <1>4
    <3> HIDE DEF gone
    <3> QED BY <1>1, <1>2, <1>6, <2>1, <2>2, <2>3, <2>4, <3>2, <3>3, <3>4 DEF AfterStep
  <2>6. Total' = Total - bytes[c] /\ Total \in Nat /\ bytes[c] \in Nat
    <3>1. \A d \in Files : bytes[d] \in Nat BY <1>1
    <3>2. SizeOf(bytes, Files) = bytes[c] + SizeOf(bytes, Files \ {c})
      BY <1>1, <1>4, <3>1, SumTakesOut
    <3>3. SizeOf(bytes', Files \ {c}) = SizeOf(bytes, Files \ {c})
      <4>1. \A d \in Files \ {c} : bytes[d] \in Nat /\ bytes'[d] = bytes[d]
        BY <1>1, <2>4
      <4>2. Files \ {c} \in SUBSET Capture BY <1>1
      <4> QED BY <4>1, <4>2, SizesAgree
    <3>4. SizeOf(bytes, Files \ {c}) \in Nat /\ SizeOf(bytes, Files) \in Nat
      BY <1>1, <3>1, Sized
    <3>5. bytes[c] \in Nat BY <1>1, <1>4
    <3> QED BY <2>2, <3>2, <3>3, <3>4, <3>5 DEF Total
  <2>7. ASSUME Undisturbed', ~prune.requested
        PROVE  /\ prune.max = max
               /\ \A d \in Files' : write[d] = "ended" => d \in Scanned \ {c}
               /\ \A d \in (Scanned \ {c}) \ Protected : prune.seen[d] = bytes'[d]
               /\ Total' <= left /\ estimate' = left
    <3>1. Undisturbed BY <1>6, <1>10, <2>7 DEF Undisturbed
    <3>2. /\ prune.max = max /\ \A d \in Files : write[d] = "ended" => d \in Scanned
          /\ \A d \in Scanned \ Protected : prune.seen[d] = bytes[d]
          /\ Total <= prune.total
      BY <1>2, <2>7, <3>1 DEF CaptureInv, CapOK
    <3>3. prune.seen[c] = bytes[c] BY <1>2, <1>3, <3>2
    <3>4. \A d \in (Scanned \ {c}) \ Protected : prune.seen[d] = bytes'[d]
      BY <1>4, <2>4, <3>2
    <3>5. Total' <= left
      BY <1>1, <1>8, <2>6, <3>2, <3>3
    <3> QED BY <1>10, <2>2, <3>2, <3>4, <3>5
  <2>8. Scanned \ {c} \subseteq Files' BY <1>2, <2>2
  <2> HIDE DEF gone
  <2>9. Continue(Tail(prune.rest), prune.seen, left, gone) BY <1>10 DEF gone
  <2> QED BY <1>1, <1>3, <1>8, <2>5, <2>7, <2>8, <2>9, ContinueKeeps
<1>11. CASE /\ MayFail /\ Use("failures")
            /\ Continue(Tail(prune.rest), prune.seen, prune.total, prune.purged)
            /\ UNCHANGED <<dir, bytes, estimate>>
  <2>1. Files' = Files BY <1>11 DEF Files
  <2>2. used' \in [{"edits", "restarts", "failures"} -> Nat] /\ used'["failures"] # 0
    BY <1>1, <1>11 DEF Use
  <2>3. AfterStep(prune.purged)
    BY <1>1, <1>2, <1>6, <1>9, <1>11, <2>1, <2>2 DEF AfterStep
  <2>4. ~Undisturbed' BY <2>2 DEF Undisturbed
  <2>5. Scanned \ {c} \subseteq Files' BY <1>2, <2>1
  <2> QED BY <1>1, <1>3, <1>8, <1>11, <2>3, <2>4, <2>5, ContinueKeeps
<1> QED BY <1>5, <1>10, <1>11

LEMMA ConfigureKeeps ==
  ASSUME CaptureInv, Configure
  PROVE  CaptureInv'
<1>1. PICK cap \in Caps : max' = cap /\ prune' = Asked(cap)
  BY DEF Configure
<1>2. /\ prune' \in PruneState
      /\ prune.stage # "none" =>
              /\ prune'.requested
              /\ prune'.stage = prune.stage /\ prune'.rest = prune.rest
              /\ prune'.seen = prune.seen /\ prune'.total = prune.total
      /\ prune.stage = "none" => prune'.stage = "listing" /\ prune'.max = cap
      /\ prune'.purged = prune.purged
  BY <1>1, AskedIs DEF CaptureInv
<1>3. /\ Files' = Files /\ Protected' = Protected /\ UNCHANGED <<row, write, dir, bytes>>
      /\ orphaned' = orphaned
  BY DEF Configure, Files, Protected
<1>4. TypeOK'
  <2>1. used' \in [{"edits", "restarts", "failures"} -> Nat]
    BY DEF Configure, Use, CaptureInv, TypeOK
  <2> QED BY <1>1, <1>2, <1>3, <2>1 DEF Configure, CaptureInv, TypeOK, PruneState
<1>5. \A c \in Capture : FileOK(c)'
  BY <1>2, <1>3 DEF CaptureInv, FileOK
<1>6. PassOK'
  BY <1>2, <1>3 DEF CaptureInv, PassOK, Scanned
<1>7. CapOK'
  BY <1>1, <1>2 DEF CapOK
<1>8. ClosedOK'
  BY DEF ClosedOK, CaptureInv, Configure
<1> QED BY <1>3, <1>4, <1>5, <1>6, <1>7, <1>8 DEF CaptureInv, Distinct

LEMMA RestartKeeps ==
  ASSUME CaptureInv, Restart
  PROVE  CaptureInv'
<1>1. /\ row \in [Capture -> RowStatus] /\ max \in Nat
      /\ write \in [Capture -> WriteStage]
  BY CaptureAssumption DEF CaptureInv, TypeOK
<1>2. /\ prune' \in PruneState /\ prune'.stage = "listing" /\ prune'.purged = {}
      /\ prune'.max = max
  BY <1>1, NothingPruned, PassingIs DEF Restart
<1>3. /\ row' \in [Capture -> RowStatus] /\ write' \in [Capture -> WriteStage]
      /\ \A c \in Capture : /\ write'[c] \in {"idle", "ended"}
                            /\ write[c] \in {"open", "ended"} => write'[c] = "ended"
                            /\ row'[c] # "pending"
                            /\ row'[c] = "present" => row[c] = "present"
  BY <1>1 DEF Restart, RowStatus, WriteStage
<1>4. Files' = Files /\ bytes' = bytes /\ orphaned' = orphaned \cup prune.purged
  BY DEF Restart, Files
<1>5. TypeOK'
  <2>1. used' \in [{"edits", "restarts", "failures"} -> Nat]
    BY DEF Restart, Use, CaptureInv, TypeOK
  <2>2. orphaned' \subseteq Capture BY <1>4 DEF CaptureInv, TypeOK
  <2> QED BY <1>2, <1>3, <1>4, <2>1, <2>2 DEF Restart, CaptureInv, TypeOK, PruneState
<1>6. \A c \in Capture : FileOK(c)'
  <2> SUFFICES ASSUME NEW c \in Capture PROVE FileOK(c)'
    OBVIOUS
  <2>1. FileOK(c) BY DEF CaptureInv
  <2> QED BY <1>2, <1>3, <1>4, <2>1 DEF FileOK
<1>7. PassOK' BY <1>2 DEF PassOK
<1>8. CapOK' BY <1>2 DEF CapOK, Restart
<1>9. ClosedOK' BY DEF ClosedOK, Restart
<1> QED BY <1>5, <1>6, <1>7, <1>8, <1>9 DEF CaptureInv, Restart

LEMMA RowStepsKeep ==
  ASSUME CaptureInv,
         \/ \E c \in Capture : Log(c) \/ ReadFailed(c) \/ RowDeleted(c)
         \/ Stale \/ Stop \/ Close
  PROVE  CaptureInv'
<1>1. /\ row \in [Capture -> RowStatus] /\ write \in [Capture -> WriteStage]
      /\ used \in [{"edits", "restarts", "failures"} -> Nat]
  BY DEF CaptureInv, TypeOK
<1>2. ASSUME NEW c \in Capture, Log(c) PROVE CaptureInv'
  <2>1. TypeOK'
    BY <1>1, <1>2 DEF Log, CaptureInv, TypeOK, Files, RowStatus, WriteStage
  <2>2. ClosedOK' BY <1>2 DEF Log, ClosedOK, CaptureInv
  <2> QED BY <1>1, <1>2, <2>1, <2>2, RowsOnly DEF Log
<1>3. ASSUME NEW c \in Capture, ReadFailed(c) PROVE CaptureInv'
  <2>1. used' \in [{"edits", "restarts", "failures"} -> Nat]
        /\ (used["failures"] = 0 \/ used'["failures"] # 0)
    BY <1>1, <1>3 DEF ReadFailed, Use
  <2>2. TypeOK'
    BY <1>1, <1>3, <2>1 DEF ReadFailed, CaptureInv, TypeOK, Files, RowStatus
  <2>3. ClosedOK' BY <1>3 DEF ReadFailed, ClosedOK, CaptureInv, Protected
  <2> QED BY <1>1, <1>3, <2>1, <2>2, <2>3, RowsOnly DEF ReadFailed
<1>4. ASSUME NEW c \in Capture, RowDeleted(c) PROVE CaptureInv'
  <2>1. TypeOK'
    BY <1>1, <1>4 DEF RowDeleted, CaptureInv, TypeOK, Files, RowStatus
  <2>2. ClosedOK' BY <1>4 DEF RowDeleted, ClosedOK, CaptureInv, Protected
  <2> QED BY <1>1, <1>4, <2>1, <2>2, RowsOnly DEF RowDeleted
<1>5. CASE Stale \/ Stop
  <2>1. TypeOK'
    BY <1>5 DEF Stale, Stop, CaptureInv, TypeOK, Files
  <2>2. ClosedOK' BY <1>5 DEF Stale, Stop, ClosedOK, CaptureInv, Protected
  <2> QED BY <1>5, <2>1, <2>2, RowsOnly DEF Stale, Stop
<1>6. CASE Close
  <2>1. TypeOK'
    BY <1>6 DEF Close, CaptureInv, TypeOK, Files
  <2>2. ClosedOK' BY <1>6 DEF Close, Flushed, ClosedOK, CaptureInv, Protected
  <2> QED BY <1>6, <2>1, <2>2, RowsOnly DEF Close
<1> QED BY <1>2, <1>3, <1>4, <1>5, <1>6

\* Every step keeps it.
LEMMA CapturesKeep == CaptureInv /\ [Next]_captureVars => CaptureInv'
<1> SUFFICES ASSUME CaptureInv, [Next]_captureVars PROVE CaptureInv'
  OBVIOUS
<1>1. CASE UNCHANGED captureVars
  <2>1. /\ Files' = Files /\ Protected' = Protected /\ Total' = Total /\ Scanned' = Scanned
        /\ Undisturbed' = Undisturbed
    BY <1>1 DEF captureVars, Files, Protected, Total, Scanned, Undisturbed
  <2>2. TypeOK' BY <1>1, <2>1 DEF captureVars, CaptureInv, TypeOK
  <2>3. \A c \in Capture : FileOK(c)' BY <1>1, <2>1 DEF captureVars, CaptureInv, FileOK
  <2>4. PassOK' /\ ClosedOK' BY <1>1, <2>1 DEF captureVars, CaptureInv, PassOK, ClosedOK
  <2>5. CapOK' BY <1>1, <2>1 DEF captureVars, CaptureInv, CapOK
  <2> QED BY <1>1, <2>2, <2>3, <2>4, <2>5 DEF captureVars, CaptureInv
<1>2. CASE Next
  <2>1. ASSUME NEW c \in Capture, WriteStep(c) PROVE CaptureInv'
    BY <2>1, OpenKeeps, WroteKeeps, NotWrittenKeeps DEF WriteStep
  <2>2. CASE PruneStep
    BY <2>2, ListKeeps, MeasureKeeps, DeleteKeeps DEF PruneStep
  <2> QED BY <1>2, <2>1, <2>2, RowStepsKeep, ConfigureKeeps, RestartKeeps DEF Next
<1> QED BY <1>1, <1>2

\* And it says what the log and the directory agree on.
LEMMA CapturesAccounted == CaptureInv => CapturesAreAccountedFor
<1> SUFFICES ASSUME CaptureInv PROVE CapturesAreAccountedFor
  OBVIOUS
<1>1. OfferedCapturesExist
  BY DEF CaptureInv, FileOK, OfferedCapturesExist
<1>2. ClosedRowsAreFinal
  <2>1. closed => prune.purged = {} /\ Protected = {}
    BY DEF CaptureInv, ClosedOK, PassOK
  <2> QED BY <2>1 DEF CaptureInv, FileOK, ClosedRowsAreFinal
<1>3. OnlySkippedWritesExceedTheCap
  BY DEF CaptureInv, CapOK, OnlySkippedWritesExceedTheCap, Quiet, Undisturbed
<1> QED BY <1>1, <1>2, <1>3 DEF CapturesAreAccountedFor, CaptureInv

\* A row that offers a capture has its file or a reason why not, the rows of a closed
\* log are final, and a quiet directory is within its cap unless a deletion failed or
\* a write ended while a pass was running (debug-capture.ts, logger.ts), for any
\* number of captures of any sizes, edits of the cap, failures and restarts.
THEOREM CapturesAccountedFor == StudioSpec => []CapturesAreAccountedFor
<1>1. StudioInit => CaptureInv BY CapturesStart DEF StudioInit
<1>2. CaptureInv /\ [StudioNext]_studioVars => CaptureInv'
  <2>1. [StudioNext]_studioVars => [Next]_captureVars BY DEF StudioNext, studioVars
  <2> QED BY <2>1, CapturesKeep
<1> QED BY <1>1, <1>2, CapturesAccounted, PTL DEF StudioSpec

-----------------------------------------------------------------------------
(* LogFeed *)

\* Whatever the Studio page does next to it, and however many rows, events and
\* answers are under way, a log feed on which nothing is left to come shows the
\* newest rows of its query as the server has them and counts them right
\* (useLogFeed.ts and log-utils.ts, fed by studio-events.ts).
THEOREM StudioFeedIsExact == StudioSpec => []QuietFeedIsExact
<1>1. StudioInit => FeedInv BY FeedInitInv DEF StudioInit
<1>2. FeedInv /\ [StudioNext]_studioVars => FeedInv'
  <2>1. [StudioNext]_studioVars => FeedNext \/ UNCHANGED feedVars BY DEF StudioNext, studioVars
  <2> QED BY <2>1, FeedNextInv, FeedStutters
<1> QED BY <1>1, <1>2, QuietIsExact, PTL DEF StudioSpec

=============================================================================
