----------------------- MODULE UpstreamExchangeProofs -----------------------
(***************************************************************************)
(* Proofs about UpstreamExchange, for every set of options, budget and     *)
(* backoff: type correctness, the budget, the release of the upstream, the *)
(* weight of the terminal event, and that the exchange keeps the promise of*)
(* UpstreamAnswer.                                                         *)
(***************************************************************************)
EXTENDS UpstreamExchange, TLAPS

\* Timers never look past the budget.
TimersInBudget == now <= Budget /\ timer <= Budget

\* Between attempts nothing was sent and one more attempt is allowed.
BetweenAttempts ==
    stage \in {"begin", "waiting"} =>
        tries <= opt.retries /\ heads = 0 /\ client # "ended"

\* The upstream is waited for by the attempt alone: for a head that nobody has
\* sent on, for a body, or for the drain of what a client left behind.
Waited ==
    /\ up \in {"asked", "flowing", "paused"} => Pending
    /\ Pending /\ up = "asked" => resp = NoResponse /\ heads = 0
    /\ Pending /\ ~resp.started => up \in {"asked", "flowing"} /\ client = "open"
    /\ up = "flowing" => resp.status # "none"
    /\ resp.started => up \notin {"asked", "flowing"} /\ resp.status # "none"
    /\ up = "paused" => resp.left /\ opt.agent
    /\ up \in {"draining", "reusable"} => resp.left /\ resp.status = "ok" /\ verdict = "resolved"

\* What was written is not what is held back.
Written ==
    /\ heads \in {0, 1}
    /\ stage = "sending" /\ heads = 1 => resp.status # "none" /\ ~Deferred(resp.status)
    /\ stage = "sending" /\ heads = 0 => client # "ended" /\ resp.adapter = "none"
    /\ resp.status # "none" => resp.status \in Status

\* Only streams have a terminal event; an adapter ends with its source.
Observed ==
    /\ resp.source => resp.stream
    /\ resp.left => resp.started
    /\ resp.adapter \in {"ending", "done"} => resp.started
    /\ resp.adapter = "open" => ~resp.started
    /\ Pending /\ resp.adapter = "ending" => up = "ended" \/ TerminalSeen

IInv == /\ TypeOK /\ TimersInBudget /\ BetweenAttempts /\ Waited /\ Written /\ Observed
        /\ TheTerminalDecides

-----------------------------------------------------------------------------

USE DEF Pending, TerminalSeen, Reject, EndOf, Deferred, HoldsBack,
        MustBeComplete, NoResponse, Status, Released, Rejection, ResponseType

LEMMA Initially == Init => IInv
<1> SUFFICES ASSUME Init PROVE IInv
  OBVIOUS
<1>1. opt \in OptionType
  BY ExchangeAssumption DEF Init
<1>2. TypeOK /\ TimersInBudget /\ BetweenAttempts
  BY <1>1, ExchangeAssumption DEF Init, OptionType, TypeOK, TimersInBudget, BetweenAttempts
<1> QED
  BY <1>2 DEF Init, IInv, Waited, Written, Observed, TheTerminalDecides

\* What resolveUpstreamResponse makes of the response it is called for.
LEMMA Begun ==
    ASSUME NEW r \in ResponseType, Resolving(r)
    PROVE  /\ resp' \in ResponseType /\ resp'.started
           /\ resp'.status = r.status /\ resp'.stream = r.stream /\ resp'.cut = r.cut
           /\ resp'.source = r.source /\ resp'.sink = r.sink /\ resp'.left = r.left
           /\ resp'.adapter = IF r.adapter = "open" THEN "ending" ELSE r.adapter
           /\ verdict' = IF r.stream \/ r.adapter # "none" THEN "none" ELSE "resolved"
BY DEF Resolving

LEMMA BeginKeeps == ASSUME IInv, Begin PROVE IInv'
<1> USE DEF IInv
<1>1. opt' = opt /\ opt \in OptionType
  BY ExchangeAssumption DEF TypeOK, Begin
<1>2. TypeOK' /\ TimersInBudget' /\ BetweenAttempts'
  BY <1>1, ExchangeAssumption DEF Begin, Deadline, OptionType, TypeOK, TimersInBudget,
     BetweenAttempts, Written
<1>3. Waited'
  BY <1>1, ExchangeAssumption DEF Begin, Deadline, OptionType, TypeOK, TimersInBudget,
     BetweenAttempts, Waited, Written, Observed, TheTerminalDecides
<1>4. Written'
  BY <1>1 DEF Begin, Deadline, TypeOK, Written, BetweenAttempts, Waited
<1>5. Observed' /\ TheTerminalDecides'
  BY <1>1, ExchangeAssumption DEF Begin, Deadline, OptionType, TypeOK, TimersInBudget,
     BetweenAttempts, Waited, Written, Observed, TheTerminalDecides
<1> QED
  BY <1>2, <1>3, <1>4, <1>5 DEF IInv

LEMMA RequestFailsKeeps == ASSUME IInv, RequestFails PROVE IInv'
<1> USE DEF IInv
<1>1. opt' = opt /\ opt \in OptionType
  BY ExchangeAssumption DEF TypeOK, RequestFails
<1>2. TypeOK' /\ TimersInBudget' /\ BetweenAttempts'
  BY <1>1, ExchangeAssumption DEF RequestFails, OptionType, TypeOK, TimersInBudget,
     BetweenAttempts, Written
<1>3. Waited'
  BY <1>1 DEF RequestFails, TypeOK, Waited, Observed
<1>4. Written'
  BY <1>1 DEF RequestFails, TypeOK, Written, BetweenAttempts, Waited
<1>5. Observed' /\ TheTerminalDecides'
  BY <1>1 DEF RequestFails, TypeOK, Waited, Observed, TheTerminalDecides
<1> QED
  BY <1>2, <1>3, <1>4, <1>5 DEF IInv

LEMMA RespondKeeps == ASSUME IInv, Respond PROVE IInv'
<1> USE DEF IInv
<1>1. /\ opt' = opt /\ opt \in OptionType
      /\ Pending /\ up = "asked" /\ UNCHANGED <<now, stage, tries, timer, client>>
  BY ExchangeAssumption DEF TypeOK, Respond
<1>2. ASSUME Reject("request_error"), UNCHANGED <<resp, heads>>
      PROVE  IInv'
  <2>2. TypeOK' /\ TimersInBudget' /\ BetweenAttempts'
    BY <1>1, <1>2, ExchangeAssumption DEF OptionType, TypeOK, TimersInBudget,
       BetweenAttempts, Written
  <2>3. Waited'
    BY <1>1, <1>2 DEF TypeOK, Waited, Observed
  <2>4. Written'
    BY <1>1, <1>2 DEF TypeOK, Written, BetweenAttempts, Waited
  <2>5. Observed' /\ TheTerminalDecides'
    BY <1>1, <1>2 DEF TypeOK, Waited, Observed, TheTerminalDecides
  <2> QED
    BY <2>2, <2>3, <2>4, <2>5 DEF IInv
<1>3. ASSUME NEW status \in Status, NEW stream \in BOOLEAN,
             resp' = [NoResponse EXCEPT
                        !.status = status, !.stream = stream,
                        !.adapter = IF ~Deferred(status) /\ opt.transform THEN "open" ELSE "none"],
             heads' = IF ~Deferred(status) THEN heads + 1 ELSE heads,
             up' = "flowing", verdict' = verdict
      PROVE  IInv'
  <2>1. /\ resp' \in ResponseType /\ resp'.status = status /\ resp'.stream = stream
        /\ ~resp'.source /\ ~resp'.sink /\ ~resp'.cut /\ ~resp'.started /\ ~resp'.left
        /\ resp'.adapter = IF ~Deferred(status) /\ opt.transform THEN "open" ELSE "none"
        /\ heads' = IF ~Deferred(status) THEN heads + 1 ELSE heads
        /\ up' = "flowing" /\ verdict' = verdict
    BY <1>3
  <2>2. TypeOK' /\ TimersInBudget' /\ BetweenAttempts'
    BY <1>1, <2>1, ExchangeAssumption DEF OptionType, TypeOK, TimersInBudget,
       BetweenAttempts, Written
  <2>3. Waited'
    BY <1>1, <2>1 DEF TypeOK, Waited, Observed
  <2>4. Written'
    BY <1>1, <2>1 DEF TypeOK, Written, BetweenAttempts, Waited
  <2>5. Observed' /\ TheTerminalDecides'
    BY <1>1, <2>1 DEF TypeOK, Waited, Observed, TheTerminalDecides
  <2> QED
    BY <2>2, <2>3, <2>4, <2>5 DEF IInv
<1> QED
  BY <1>2, <1>3 DEF Respond

LEMMA ReceiveKeeps == ASSUME IInv, Receive PROVE IInv'
<1> USE DEF IInv
<1>1. /\ opt' = opt /\ opt \in OptionType
      /\ Pending /\ up = "flowing" /\ ~resp.started /\ UNCHANGED <<now, stage, tries, timer, heads>>
  BY ExchangeAssumption DEF TypeOK, Receive
<1>0. PICK source \in {resp.source, resp.stream}, cut \in {resp.cut, TRUE} : Observe(source, cut)
  BY DEF Receive
<1> DEFINE seen == [resp EXCEPT !.source = @ \/ source, !.cut = cut]
<1>2. /\ seen \in ResponseType /\ seen.status = resp.status /\ seen.stream = resp.stream
      /\ seen.sink = resp.sink /\ seen.started = resp.started /\ seen.left = resp.left
      /\ seen.adapter = resp.adapter /\ seen.cut = cut
      /\ seen.source = (resp.source \/ source) /\ (seen.source => seen.stream)
  BY <1>0 DEF TypeOK, Observed, Receive
<1>3. ASSUME resp' = seen, UNCHANGED <<up, verdict, client>>
      PROVE  IInv'
  <2> HIDE DEF seen
  <2>2. TypeOK' /\ TimersInBudget' /\ BetweenAttempts'
    BY <1>1, <1>2, <1>3, ExchangeAssumption DEF OptionType, TypeOK, TimersInBudget,
       BetweenAttempts, Written
  <2>3. Waited'
    BY <1>1, <1>2, <1>3 DEF TypeOK, Waited, Observed
  <2>4. Written'
    BY <1>1, <1>2, <1>3 DEF TypeOK, Written, BetweenAttempts, Waited
  <2>5. Observed' /\ TheTerminalDecides'
    BY <1>1, <1>2, <1>3 DEF TypeOK, Waited, Observed, TheTerminalDecides
  <2> QED
    BY <2>2, <2>3, <2>4, <2>5 DEF IInv
<1>4. ASSUME resp' = seen, Reject("too_large"), client' = IF heads > 0 THEN "gone" ELSE client
      PROVE  IInv'
  <2> HIDE DEF seen
  <2>2. TypeOK' /\ TimersInBudget' /\ BetweenAttempts'
    BY <1>1, <1>2, <1>4, ExchangeAssumption DEF OptionType, TypeOK, TimersInBudget,
       BetweenAttempts, Written
  <2>3. Waited'
    BY <1>1, <1>2, <1>4 DEF TypeOK, Waited, Observed
  <2>4. Written'
    BY <1>1, <1>2, <1>4 DEF TypeOK, Written, BetweenAttempts, Waited
  <2>5. Observed' /\ TheTerminalDecides'
    BY <1>1, <1>2, <1>4 DEF TypeOK, Waited, Observed, TheTerminalDecides
  <2> QED
    BY <2>2, <2>3, <2>4, <2>5 DEF IInv
<1>5. ASSUME Deferred(resp.status), Resolving(seen), up' = "destroyed", UNCHANGED client
      PROVE  IInv'
  <2>1. /\ resp' \in ResponseType /\ resp'.started /\ resp'.left = seen.left
        /\ resp'.status = seen.status /\ resp'.stream = seen.stream /\ resp'.cut = seen.cut
        /\ resp'.source = seen.source /\ resp'.sink = seen.sink
        /\ resp'.adapter = IF seen.adapter = "open" THEN "ending" ELSE seen.adapter
        /\ verdict' = IF seen.stream \/ seen.adapter # "none" THEN "none" ELSE "resolved"
    <3> HIDE DEF seen
    <3> QED
      BY <1>2, <1>5, Begun
  <2> HIDE DEF seen
  <2>2. TypeOK' /\ TimersInBudget' /\ BetweenAttempts'
    BY <1>1, <1>2, <1>5, <2>1, ExchangeAssumption DEF OptionType, TypeOK,
       TimersInBudget, BetweenAttempts, Written
  <2>3. Waited'
    BY <1>1, <1>2, <1>5, <2>1 DEF TypeOK, Waited, Observed
  <2>4. Written'
    BY <1>1, <1>2, <1>5, <2>1 DEF TypeOK, Written, BetweenAttempts, Waited
  <2>5. Observed' /\ TheTerminalDecides'
    BY <1>1, <1>2, <1>5, <2>1, ExchangeAssumption DEF OptionType, TypeOK,
       TimersInBudget, BetweenAttempts, Waited, Written, Observed, TheTerminalDecides
  <2> QED
    BY <2>2, <2>3, <2>4, <2>5 DEF IInv
<1> QED
  BY <1>0, <1>3, <1>4, <1>5 DEF Observe

LEMMA TranslateKeeps == ASSUME IInv, Translate PROVE IInv'
<1> USE DEF IInv
<1>1. opt' = opt /\ opt \in OptionType
  BY ExchangeAssumption DEF TypeOK, Translate
<1>2. TypeOK' /\ TimersInBudget' /\ BetweenAttempts'
  BY <1>1, ExchangeAssumption DEF Translate, OptionType, TypeOK, TimersInBudget,
     BetweenAttempts, Written
<1>3. Waited'
  BY <1>1 DEF Translate, TypeOK, Waited, Observed
<1>4. Written'
  BY <1>1 DEF Translate, TypeOK, Written, BetweenAttempts, Waited
<1>5. Observed' /\ TheTerminalDecides'
  BY <1>1 DEF Translate, TypeOK, Waited, Observed, TheTerminalDecides
<1> QED
  BY <1>2, <1>3, <1>4, <1>5 DEF IInv

LEMMA ResponseEndsKeeps == ASSUME IInv, ResponseEnds PROVE IInv'
<1> USE DEF IInv
<1>1. /\ opt' = opt /\ opt \in OptionType
      /\ Pending /\ up = "flowing" /\ ~resp.started /\ UNCHANGED <<now, stage, tries, timer, heads>>
  BY ExchangeAssumption DEF TypeOK, ResponseEnds
<1>3. ASSUME Resolving(resp), up' = "ended",
             client' = IF heads > 0 /\ resp.adapter = "none" THEN EndOf(client) ELSE client
      PROVE  IInv'
  <2>1. /\ resp' \in ResponseType /\ resp'.started
        /\ resp'.status = resp.status /\ resp'.stream = resp.stream /\ resp'.cut = resp.cut
        /\ resp'.source = resp.source /\ resp'.sink = resp.sink /\ resp'.left = resp.left
        /\ resp'.adapter = IF resp.adapter = "open" THEN "ending" ELSE resp.adapter
        /\ verdict' = IF resp.stream \/ resp.adapter # "none" THEN "none" ELSE "resolved"
    BY <1>3, Begun DEF TypeOK
  <2>2. TypeOK' /\ TimersInBudget' /\ BetweenAttempts'
    BY <1>1, <1>3, <2>1, ExchangeAssumption DEF OptionType, TypeOK, TimersInBudget,
       BetweenAttempts, Written
  <2>3. Waited'
    BY <1>1, <1>3, <2>1 DEF TypeOK, Waited, Observed
  <2>4. Written'
    BY <1>1, <1>3, <2>1 DEF TypeOK, Written, BetweenAttempts, Waited
  <2>5. Observed' /\ TheTerminalDecides'
    BY <1>1, <1>3, <2>1 DEF TypeOK, Waited, Observed, TheTerminalDecides
  <2> QED
    BY <2>2, <2>3, <2>4, <2>5 DEF IInv
<1> QED
  BY <1>3 DEF ResponseEnds

LEMMA ResponseBreaksKeeps == ASSUME IInv, ResponseBreaks PROVE IInv'
<1> USE DEF IInv
<1>1. /\ opt' = opt /\ opt \in OptionType
      /\ Pending /\ up = "flowing" /\ ~resp.started /\ UNCHANGED <<now, stage, tries, timer, heads>>
  BY ExchangeAssumption DEF TypeOK, ResponseBreaks
<1>3. ASSUME Resolving(resp), TerminalSeen, up' = "destroyed",
             client' = IF heads > 0 /\ resp.adapter = "none" THEN EndOf(client) ELSE client
      PROVE  IInv'
  <2>1. /\ resp' \in ResponseType /\ resp'.started
        /\ resp'.status = resp.status /\ resp'.stream = resp.stream /\ resp'.cut = resp.cut
        /\ resp'.source = resp.source /\ resp'.sink = resp.sink /\ resp'.left = resp.left
        /\ resp'.adapter = IF resp.adapter = "open" THEN "ending" ELSE resp.adapter
        /\ verdict' = IF resp.stream \/ resp.adapter # "none" THEN "none" ELSE "resolved"
    BY <1>3, Begun DEF TypeOK
  <2>2. TypeOK' /\ TimersInBudget' /\ BetweenAttempts'
    BY <1>1, <1>3, <2>1, ExchangeAssumption DEF OptionType, TypeOK, TimersInBudget,
       BetweenAttempts, Written
  <2>3. Waited'
    BY <1>1, <1>3, <2>1 DEF TypeOK, Waited, Observed
  <2>4. Written'
    BY <1>1, <1>3, <2>1 DEF TypeOK, Written, BetweenAttempts, Waited
  <2>5. Observed' /\ TheTerminalDecides'
    BY <1>1, <1>3, <2>1 DEF TypeOK, Waited, Observed, TheTerminalDecides
  <2> QED
    BY <2>2, <2>3, <2>4, <2>5 DEF IInv
<1>4. ASSUME Reject("aborted"), ~TerminalSeen, UNCHANGED <<resp, client>>
      PROVE  IInv'
  <2>2. TypeOK' /\ TimersInBudget' /\ BetweenAttempts'
    BY <1>1, <1>4, ExchangeAssumption DEF OptionType, TypeOK, TimersInBudget,
       BetweenAttempts, Written
  <2>3. Waited'
    BY <1>1, <1>4 DEF TypeOK, Waited, Observed
  <2>4. Written'
    BY <1>1, <1>4 DEF TypeOK, Written, BetweenAttempts, Waited
  <2>5. Observed' /\ TheTerminalDecides'
    BY <1>1, <1>4 DEF TypeOK, Waited, Observed, TheTerminalDecides
  <2> QED
    BY <2>2, <2>3, <2>4, <2>5 DEF IInv
<1> QED
  BY <1>3, <1>4 DEF ResponseBreaks

LEMMA PausedBreaksKeeps == ASSUME IInv, PausedBreaks PROVE IInv'
<1> USE DEF IInv
<1>1. opt' = opt /\ opt \in OptionType
  BY ExchangeAssumption DEF TypeOK, PausedBreaks
<1>2. TypeOK' /\ TimersInBudget' /\ BetweenAttempts'
  BY <1>1, ExchangeAssumption DEF PausedBreaks, OptionType, TypeOK, TimersInBudget,
     BetweenAttempts, Written
<1>3. Waited'
  BY <1>1 DEF PausedBreaks, TypeOK, Waited, Observed
<1>4. Written'
  BY <1>1 DEF PausedBreaks, TypeOK, Written, BetweenAttempts, Waited
<1>5. Observed' /\ TheTerminalDecides'
  BY <1>1 DEF PausedBreaks, TypeOK, Waited, Observed, TheTerminalDecides
<1> QED
  BY <1>2, <1>3, <1>4, <1>5 DEF IInv

LEMMA FlushKeeps == ASSUME IInv, Flush PROVE IInv'
<1> USE DEF IInv
<1>1. opt' = opt /\ opt \in OptionType
  BY ExchangeAssumption DEF TypeOK, Flush
<1>2. TypeOK' /\ TimersInBudget' /\ BetweenAttempts'
  BY <1>1, ExchangeAssumption DEF Flush, OptionType, TypeOK, TimersInBudget,
     BetweenAttempts, Written
<1>3. Waited'
  BY <1>1 DEF Flush, TypeOK, Waited, Observed
<1>4. Written'
  BY <1>1 DEF Flush, TypeOK, Written, BetweenAttempts, Waited
<1>5. Observed' /\ TheTerminalDecides'
  BY <1>1 DEF Flush, TypeOK, Waited, Observed, TheTerminalDecides
<1> QED
  BY <1>2, <1>3, <1>4, <1>5 DEF IInv

LEMMA ResolveKeeps == ASSUME IInv, Resolve PROVE IInv'
<1> USE DEF IInv
<1>1. opt' = opt /\ opt \in OptionType
  BY ExchangeAssumption DEF TypeOK, Resolve
<1>2. TypeOK' /\ TimersInBudget' /\ BetweenAttempts'
  BY <1>1, ExchangeAssumption DEF Resolve, Release, OptionType, TypeOK, TimersInBudget,
     BetweenAttempts, Written
<1>3. Waited'
  BY <1>1 DEF Resolve, Release, TypeOK, Waited, Observed
<1>4. Written'
  BY <1>1 DEF Resolve, Release, TypeOK, Written, BetweenAttempts, Waited
<1>5. Observed' /\ TheTerminalDecides'
  BY <1>1 DEF Resolve, Release, TypeOK, Waited, Observed, TheTerminalDecides
<1> QED
  BY <1>2, <1>3, <1>4, <1>5 DEF IInv

LEMMA DrainEndsKeeps == ASSUME IInv, DrainEnds PROVE IInv'
<1> USE DEF IInv
<1>1. opt' = opt /\ opt \in OptionType
  BY ExchangeAssumption DEF TypeOK, DrainEnds
<1>2. TypeOK' /\ TimersInBudget' /\ BetweenAttempts'
  BY <1>1, ExchangeAssumption DEF DrainEnds, OptionType, TypeOK, TimersInBudget,
     BetweenAttempts, Written
<1>3. Waited'
  BY <1>1 DEF DrainEnds, TypeOK, Waited, Observed
<1>4. Written'
  BY <1>1 DEF DrainEnds, TypeOK, Written, BetweenAttempts, Waited
<1>5. Observed' /\ TheTerminalDecides'
  BY <1>1 DEF DrainEnds, TypeOK, Waited, Observed, TheTerminalDecides
<1> QED
  BY <1>2, <1>3, <1>4, <1>5 DEF IInv

LEMMA ClientLeavesKeeps == ASSUME IInv, ClientLeaves PROVE IInv'
<1> USE DEF IInv
<1>1. /\ opt' = opt /\ opt \in OptionType
      /\ client = "open" /\ client' = "gone" /\ UNCHANGED <<now, tries, timer, heads>>
  BY ExchangeAssumption DEF TypeOK, ClientLeaves
<1> DEFINE r == [resp EXCEPT !.left = TRUE]
<1>2. /\ r \in ResponseType /\ r.status = resp.status /\ r.stream = resp.stream
      /\ r.sink = resp.sink /\ r.source = resp.source /\ r.started = resp.started
      /\ r.adapter = resp.adapter /\ r.cut = resp.cut
      /\ r.left = TRUE
  BY DEF TypeOK
<1>3. ASSUME Resolving(r), TerminalSeen, ~resp.started, Pending, UNCHANGED stage,
             up' = IF opt.agent THEN "paused" ELSE "destroyed"
      PROVE  IInv'
  <2>1. /\ resp' \in ResponseType /\ resp'.started
        /\ resp'.status = resp.status /\ resp'.stream = resp.stream /\ resp'.cut = resp.cut
        /\ resp'.source = resp.source /\ resp'.sink = resp.sink /\ resp'.left
        /\ resp'.adapter = IF resp.adapter = "open" THEN "ending" ELSE resp.adapter
        /\ verdict' = IF resp.stream \/ resp.adapter # "none" THEN "none" ELSE "resolved"
    <3> HIDE DEF r
    <3> QED
      BY <1>2, <1>3, Begun
  <2>2. TypeOK' /\ TimersInBudget' /\ BetweenAttempts'
    BY <1>1, <1>3, <2>1, ExchangeAssumption DEF OptionType, TypeOK, TimersInBudget,
       BetweenAttempts, Written
  <2>3. Waited'
    BY <1>1, <1>3, <2>1 DEF TypeOK, Waited, Observed
  <2>4. Written'
    BY <1>1, <1>3, <2>1 DEF TypeOK, Written, BetweenAttempts, Waited
  <2>5. Observed' /\ TheTerminalDecides'
    BY <1>1, <1>3, <2>1 DEF TypeOK, Waited, Observed, TheTerminalDecides
  <2> QED
    BY <2>2, <2>3, <2>4, <2>5 DEF IInv
<1>4. ASSUME ~Pending \/ resp.started, UNCHANGED <<resp, verdict, up>>,
             stage' = IF stage = "waiting" THEN "begin" ELSE stage
      PROVE  IInv'
  <2>2. TypeOK' /\ TimersInBudget' /\ BetweenAttempts'
    BY <1>1, <1>4, ExchangeAssumption DEF OptionType, TypeOK, TimersInBudget,
       BetweenAttempts, Written
  <2>3. Waited'
    BY <1>1, <1>4 DEF TypeOK, Waited, Observed
  <2>4. Written'
    BY <1>1, <1>4 DEF TypeOK, Written, BetweenAttempts, Waited
  <2>5. Observed' /\ TheTerminalDecides'
    BY <1>1, <1>4 DEF TypeOK, Waited, Observed, TheTerminalDecides
  <2> QED
    BY <2>2, <2>3, <2>4, <2>5 DEF IInv
<1>5. ASSUME Pending, ~resp.started, ~TerminalSeen, Reject("client_cancel"),
             UNCHANGED <<resp, stage>>
      PROVE  IInv'
  <2>2. TypeOK' /\ TimersInBudget' /\ BetweenAttempts'
    BY <1>1, <1>5, ExchangeAssumption DEF OptionType, TypeOK, TimersInBudget,
       BetweenAttempts, Written
  <2>3. Waited'
    BY <1>1, <1>5 DEF TypeOK, Waited, Observed
  <2>4. Written'
    BY <1>1, <1>5 DEF TypeOK, Written, BetweenAttempts, Waited
  <2>5. Observed' /\ TheTerminalDecides'
    BY <1>1, <1>5 DEF TypeOK, Waited, Observed, TheTerminalDecides
  <2> QED
    BY <2>2, <2>3, <2>4, <2>5 DEF IInv
<1> QED
  BY <1>3, <1>4, <1>5 DEF ClientLeaves

LEMMA TimeIsUpKeeps == ASSUME IInv, TimeIsUp PROVE IInv'
<1> USE DEF IInv
<1>1. opt' = opt /\ opt \in OptionType
  BY ExchangeAssumption DEF TypeOK, TimeIsUp
<1>2. TypeOK' /\ TimersInBudget' /\ BetweenAttempts'
  BY <1>1, ExchangeAssumption DEF TimeIsUp, OptionType, TypeOK, TimersInBudget,
     BetweenAttempts, Written
<1>3. Waited'
  BY <1>1 DEF TimeIsUp, TypeOK, Waited, Observed
<1>4. Written'
  BY <1>1 DEF TimeIsUp, TypeOK, Written, BetweenAttempts, Waited
<1>5. Observed' /\ TheTerminalDecides'
  BY <1>1 DEF TimeIsUp, TypeOK, Waited, Observed, TheTerminalDecides
<1> QED
  BY <1>2, <1>3, <1>4, <1>5 DEF IInv

LEMMA TickKeeps == ASSUME IInv, Tick PROVE IInv'
<1> USE DEF IInv
<1>1. opt' = opt /\ opt \in OptionType
  BY ExchangeAssumption DEF TypeOK, Tick
<1>2. TypeOK' /\ TimersInBudget' /\ BetweenAttempts'
  BY <1>1, ExchangeAssumption DEF Tick, OptionType, TypeOK, TimersInBudget,
     BetweenAttempts, Written
<1>3. Waited'
  BY <1>1 DEF Tick, TypeOK, Waited, Observed
<1>4. Written'
  BY <1>1 DEF Tick, TypeOK, Written, BetweenAttempts, Waited
<1>5. Observed' /\ TheTerminalDecides'
  BY <1>1 DEF Tick, TypeOK, Waited, Observed, TheTerminalDecides
<1> QED
  BY <1>2, <1>3, <1>4, <1>5 DEF IInv

LEMMA RetryKeeps == ASSUME IInv, Retry PROVE IInv'
<1> USE DEF IInv
<1>1. opt' = opt /\ opt \in OptionType
  BY ExchangeAssumption DEF TypeOK, Retry
<1>2. TypeOK' /\ TimersInBudget' /\ BetweenAttempts'
  BY <1>1, ExchangeAssumption DEF Retry, Again, Delays, OptionType, TypeOK,
     TimersInBudget, BetweenAttempts, Written
<1>3. Waited'
  BY <1>1 DEF Retry, Again, Delays, TypeOK, Waited, Observed
<1>4. Written'
  BY <1>1 DEF Retry, Again, Delays, TypeOK, Written, BetweenAttempts, Waited
<1>5. Observed' /\ TheTerminalDecides'
  BY <1>1 DEF Retry, Again, Delays, TypeOK, Waited, Observed, TheTerminalDecides
<1> QED
  BY <1>2, <1>3, <1>4, <1>5 DEF IInv

LEMMA WakeKeeps == ASSUME IInv, Wake PROVE IInv'
<1> USE DEF IInv
<1>1. opt' = opt /\ opt \in OptionType
  BY ExchangeAssumption DEF TypeOK, Wake
<1>2. TypeOK' /\ TimersInBudget' /\ BetweenAttempts'
  BY <1>1, ExchangeAssumption DEF Wake, OptionType, TypeOK, TimersInBudget,
     BetweenAttempts, Written
<1>3. Waited'
  BY <1>1 DEF Wake, TypeOK, Waited, Observed
<1>4. Written'
  BY <1>1 DEF Wake, TypeOK, Written, BetweenAttempts, Waited
<1>5. Observed' /\ TheTerminalDecides'
  BY <1>1 DEF Wake, TypeOK, Waited, Observed, TheTerminalDecides
<1> QED
  BY <1>2, <1>3, <1>4, <1>5 DEF IInv

LEMMA AnswerKeeps == ASSUME IInv, Answer PROVE IInv'
<1> USE DEF IInv
<1>1. opt' = opt /\ opt \in OptionType
  BY ExchangeAssumption DEF TypeOK, Answer
<1>2. TypeOK' /\ TimersInBudget' /\ BetweenAttempts'
  BY <1>1, ExchangeAssumption DEF Answer, Again, OptionType, TypeOK, TimersInBudget,
     BetweenAttempts, Written
<1>3. Waited'
  BY <1>1 DEF Answer, Again, TypeOK, Waited, Observed
<1>4. Written'
  BY <1>1 DEF Answer, Again, TypeOK, Written, BetweenAttempts, Waited
<1>5. Observed' /\ TheTerminalDecides'
  BY <1>1 DEF Answer, Again, TypeOK, Waited, Observed, TheTerminalDecides
<1> QED
  BY <1>2, <1>3, <1>4, <1>5 DEF IInv

-----------------------------------------------------------------------------

LEMMA StepKeeps == ASSUME IInv, [Next]_exchangeVars PROVE IInv'
<1>1. CASE UNCHANGED exchangeVars
  BY <1>1 DEF exchangeVars, IInv, TypeOK, TimersInBudget, BetweenAttempts, Waited, Written,
     Observed, TheTerminalDecides
<1>2. CASE Attempt
  BY <1>2, RequestFailsKeeps, RespondKeeps, ReceiveKeeps, TranslateKeeps, ResponseEndsKeeps,
     ResponseBreaksKeeps, PausedBreaksKeeps, FlushKeeps, ResolveKeeps DEF Attempt
<1>3. CASE Begin \/ DrainEnds \/ ClientLeaves \/ TimeIsUp \/ Tick \/ Retry \/ Wake \/ Answer
  BY <1>3, BeginKeeps, DrainEndsKeeps, ClientLeavesKeeps, TimeIsUpKeeps, TickKeeps, RetryKeeps,
     WakeKeeps, AnswerKeeps
<1> QED
  BY <1>1, <1>2, <1>3 DEF Next

\* The inductive invariant holds in every state of the exchange.
THEOREM ExchangeInvariant == Spec => []IInv
<1>1. Init => IInv
  BY Initially
<1>2. IInv /\ [Next]_exchangeVars => IInv'
  BY StepKeeps
<1> QED
  BY <1>1, <1>2, PTL DEF Spec

\* The state of the exchange keeps its shape, and the loop makes one attempt more
\* than the retries it was given, at the most.
THEOREM ExchangeTypeCorrect == Spec => []TypeOK
<1>1. IInv => TypeOK
  BY DEF IInv
<1> QED
  BY <1>1, ExchangeInvariant, PTL

\* All attempts and all delays fit into the budget of one request, whatever the
\* upstream asks for.
THEOREM BudgetIsShared == Spec => []WithinBudget
<1>1. IInv => WithinBudget
  BY DEF IInv, TimersInBudget, WithinBudget
<1> QED
  BY <1>1, ExchangeInvariant, PTL

\* Whoever settles an attempt, its upstream request is released.
THEOREM UpstreamIsReleased == Spec => []NothingIsLeftOpen
<1>1. IInv => NothingIsLeftOpen
  BY DEF IInv, TypeOK, Waited, NothingIsLeftOpen
<1> QED
  BY <1>1, ExchangeInvariant, PTL

\* Disconnects after the terminal event fail nothing, and nothing is passed on as
\* whole that is not.
THEOREM TerminalDecides == Spec => []TheTerminalDecides
<1>1. IInv => TheTerminalDecides
  BY DEF IInv
<1> QED
  BY <1>1, ExchangeInvariant, PTL

-----------------------------------------------------------------------------

\* What the client sees of a step is a step of the promise.
LEMMA StepKeepsPromise ==
    ASSUME IInv, [Next]_exchangeVars
    PROVE  [Promise!Next]_(Promise!answerVars)
<1> USE DEF IInv, Given, Promise!answerVars, Promise!Next
<1>1. CASE UNCHANGED exchangeVars
  BY <1>1 DEF exchangeVars
<1>2. CASE Begin
  BY <1>2 DEF Begin, BetweenAttempts, Promise!Ask, TypeOK
<1>3. CASE Respond
  <2>1. client = "open" /\ client' = client /\ tries' = tries /\ heads = 0
    BY <1>3 DEF Respond, Waited
  <2>2. heads' = heads \/ heads' = heads + 1
    BY <1>3 DEF Respond
  <2> QED
    BY <2>1, <2>2 DEF Promise!Head
<1>4. CASE Receive
  BY <1>4 DEF Receive, Observe, Resolving, TypeOK, Written, Promise!Break, Waited
<1>5. CASE Translate
  BY <1>5 DEF Translate, TypeOK, Written, Observed, Waited, Promise!Break
<1>6. CASE ResponseEnds \/ ResponseBreaks
  BY <1>6 DEF ResponseEnds, ResponseBreaks, TypeOK, Written, Promise!Complete
<1>7. CASE Flush
  <2>1. heads = 1 /\ heads' = heads /\ tries' = tries
    BY <1>7 DEF Flush, Written
  <2>2. client' = client \/ client' = EndOf(client) \/ client' = "gone"
    BY <1>7 DEF Flush
  <2> QED
    BY <2>1, <2>2 DEF TypeOK, Promise!Complete, Promise!Break
<1>8. CASE ClientLeaves
  BY <1>8 DEF ClientLeaves, Promise!Break
<1>9. CASE Answer
  BY <1>9 DEF Answer, TypeOK, Written, Promise!Head, Promise!Break
<1>10. CASE RequestFails \/ PausedBreaks \/ Resolve \/ DrainEnds \/ TimeIsUp
             \/ Tick \/ Retry \/ Wake
  BY <1>10 DEF RequestFails, PausedBreaks, Resolve, DrainEnds, TimeIsUp, Tick, Retry, Wake
<1> QED
  BY <1>1, <1>2, <1>3, <1>4, <1>5, <1>6, <1>7, <1>8, <1>9, <1>10 DEF Next, Attempt

\* The client gets one head at the most, and the upstream is not asked again once
\* the client has got anything.
THEOREM AnswersOnce == Spec => OneAnswer
<1>1. Init => Promise!Init
  BY DEF Init, Given, Promise!Init
<1>2. IInv => heads <= 1
  BY DEF IInv, Written
<1> QED
  BY <1>1, <1>2, StepKeepsPromise, ExchangeInvariant, PTL DEF Spec, OneAnswer, Promise!Spec
=============================================================================
