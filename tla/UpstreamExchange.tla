-------------------------- MODULE UpstreamExchange --------------------------
(***************************************************************************)
(* One request on its way to an upstream and back:                         *)
(* sendBufferedUpstreamRequest, the attempt, and sendOpenAiUpstreamRequest,*)
(* the loop around it (src/server/upstream-client.ts), with the handler    *)
(* that answers the client when the loop is over (openai-proxy.ts,         *)
(* claude-proxy.ts).                                                       *)
(*                                                                         *)
(* An attempt ends in one of many ways, which race: the response ends, is  *)
(* cut off or grows too large, the adapter that translates it finishes or  *)
(* fails, the client leaves, the time is up.  The first to call resolveOnce*)
(* or rejectOnce gives the verdict; every other has to find nothing left   *)
(* to do.                                                                  *)
(*                                                                         *)
(* A body is what its observers make of it: whether the terminal event of  *)
(* a stream was seen, and whether it outgrew the buffer.  A timer does not *)
(* fire late: time passes between the callbacks, never past a due timer.   *)
(***************************************************************************)
EXTENDS Integers, FiniteSets

CONSTANTS
    Option,         \* what callers ask for: see OptionType
    Budget,         \* timeoutMs, for all attempts together
    BackoffBase,    \* RETRY_BACKOFF_BASE_MS
    BackoffMax      \* RETRY_BACKOFF_MAX_MS

\* mode: retry of HTTP statuses, of empty streams, or none; retries of them;
\* defer: deferHttpErrors; complete: requireCompleteResponse; agent: the
\* upstream is reached through a pooled proxy; transform: its answer has to be
\* translated.
OptionType == [mode : {"status", "empty", "single"}, retries : Nat, defer : BOOLEAN,
               complete : BOOLEAN, agent : BOOLEAN, transform : BOOLEAN]

ASSUME ExchangeAssumption ==
    /\ Option \subseteq OptionType
    /\ \A o \in Option :
         /\ o.mode = "single" => o.retries = 0
         /\ o.mode = "empty" => o.retries = 1
         /\ o.defer => o.mode = "single"
    /\ Budget \in Nat /\ BackoffBase \in Nat /\ BackoffMax \in Nat

VARIABLES
    opt,        \* options
    now,        \* performance.now() - startedAt
    stage,      \* where the loop is
    tries,      \* attempts that reached the upstream
    timer,      \* when the deadline, or the delay before a retry, ends
    up,         \* the upstream request, then its response
    resp,       \* activeResponse
    verdict,    \* settled, and how
    heads,      \* writeHead calls on the client's response
    client      \* the client's response: res

exchangeVars == <<opt, now, stage, tries, timer, up, resp, verdict, heads, client>>

\* Statuses: below 400, below 500, and from 500 on those that the loop retries.
Status == {"ok", "refused", "failed", "again"}

NoResponse == [status |-> "none", stream |-> FALSE, source |-> FALSE, sink |-> FALSE,
               cut |-> FALSE, started |-> FALSE, left |-> FALSE, adapter |-> "none"]

\* source, sink: the terminal event was observed in the upstream's stream, in the
\* adapter's; cut: the body outgrew its buffer; started: responseResolutionStarted;
\* left: clientDisconnectPhase is after_terminal.
ResponseType ==
    [status : Status \cup {"none"}, stream : BOOLEAN, source : BOOLEAN, sink : BOOLEAN,
     cut : BOOLEAN, started : BOOLEAN, left : BOOLEAN,
     adapter : {"none", "open", "ending", "done"}]

Rejection == {"client_cancel", "timeout", "request_error", "aborted", "too_large",
              "transform_failed"}
Released == {"none", "ended", "draining", "reusable", "destroyed"}

TypeOK ==
    /\ opt \in Option /\ now \in Nat /\ timer \in Nat /\ tries \in Nat
    /\ stage \in {"begin", "sending", "waiting", "answered"}
    /\ up \in Released \cup {"asked", "flowing", "paused"}
    /\ tries <= opt.retries + 1
    /\ resp \in ResponseType
    /\ verdict \in {"none", "resolved"} \cup Rejection
    /\ heads \in Nat /\ client \in {"open", "ended", "gone"}

Init ==
    /\ opt \in Option /\ now = 0 /\ stage = "begin" /\ tries = 0 /\ timer = 0
    /\ up = "none" /\ resp = NoResponse /\ verdict = "none"
    /\ heads = 0 /\ client = "open"

Pending == stage = "sending" /\ verdict = "none"

\* The deadline of an attempt is that of the request.
Deadline == Budget

\* deferRetryableStreamErrors: set for all attempts but the last.
HoldsBack == tries <= opt.retries

\* Variant: retried statuses are passed on as they come.
DeferredOnRequest(status) == opt.defer /\ status # "ok"

\* A response that is buffered and not written as it comes.
Deferred(status) ==
    \/ opt.defer /\ status # "ok"
    \/ HoldsBack /\ opt.mode # "single" /\ status \in {"failed", "again"}

MustBeComplete == opt.complete \/ (resp.status = "ok" /\ ~resp.stream)

\* The terminal event as the client would see it.
TerminalSeen == IF resp.adapter = "none" THEN resp.source ELSE resp.sink

\* rejectOnce, whose callers made sure that nothing was settled before.
Reject(kind) == verdict' = kind /\ up' = "destroyed"

-----------------------------------------------------------------------------
(* An attempt.                                                             *)

Begin ==
    /\ stage = "begin" /\ stage' = "sending" /\ resp' = NoResponse
    /\ \/ client = "gone" /\ Reject("client_cancel") /\ UNCHANGED <<tries, timer>>
       \/ client # "gone" /\ now >= Budget /\ Reject("timeout") /\ UNCHANGED <<tries, timer>>
       \/ /\ client # "gone" /\ now < Budget
          /\ verdict' = "none" /\ up' = "asked"
          /\ tries' = tries + 1 /\ timer' = Deadline
    /\ UNCHANGED <<opt, now, heads, client>>

RequestFails ==
    /\ Pending /\ up = "asked" /\ Reject("request_error")
    /\ UNCHANGED <<opt, now, stage, tries, timer, resp, heads, client>>

\* The head of the response. It is passed on unless the response is deferred;
\* an answer that is no API's, or that no adapter takes, is given up.
Respond ==
    /\ Pending /\ up = "asked"
    /\ \/ \E status \in Status, stream \in BOOLEAN :
            LET written == ~Deferred(status)
            IN  /\ resp' = [NoResponse EXCEPT
                              !.status = status, !.stream = stream,
                              !.adapter = IF written /\ opt.transform THEN "open" ELSE "none"]
                /\ heads' = IF written THEN heads + 1 ELSE heads
                /\ up' = "flowing" /\ UNCHANGED verdict
       \/ Reject("request_error") /\ UNCHANGED <<resp, heads>>
    /\ UNCHANGED <<opt, now, stage, tries, timer, client>>

\* resolveUpstreamResponse begins. It awaits an adapter or the observer of a
\* stream; without either it resolves at once.
Resolving(r) ==
    /\ resp' = [r EXCEPT !.started = TRUE,
                         !.adapter = IF @ = "open" THEN "ending" ELSE @]
    /\ verdict' = IF r.stream \/ r.adapter # "none" THEN "none" ELSE "resolved"

\* The pipe ends the client's response with its source.
EndOf(res) == IF res = "open" THEN "ended" ELSE res

\* The observers have taken a piece of the body. Too large for an answer that has to
\* be whole, it fails; for an error that is only kept, what has come is enough.
Observe(source, cut) ==
    LET seen == [resp EXCEPT !.source = @ \/ source, !.cut = cut]
    IN  IF ~cut \/ (~MustBeComplete /\ ~Deferred(resp.status))
        THEN resp' = seen /\ UNCHANGED <<up, verdict, client>>
        ELSE IF MustBeComplete
        THEN /\ resp' = seen /\ Reject("too_large")
             /\ client' = IF heads > 0 THEN "gone" ELSE client
        ELSE Resolving(seen) /\ up' = "destroyed" /\ UNCHANGED client

Receive ==
    /\ Pending /\ up = "flowing" /\ ~resp.started
    /\ \E source \in {resp.source, resp.stream}, cut \in {resp.cut, TRUE} : Observe(source, cut)
    /\ UNCHANGED <<opt, now, stage, tries, timer, heads>>

\* The adapter puts out a piece of its own; the terminal event after it came in.
Translate ==
    /\ Pending /\ resp.adapter = "open"
    /\ \/ /\ resp.source /\ resp' = [resp EXCEPT !.sink = TRUE]
          /\ UNCHANGED <<up, verdict, client>>
       \/ /\ MustBeComplete /\ Reject("too_large") /\ client' = "gone"
          /\ UNCHANGED resp
       \/ Reject("transform_failed") /\ UNCHANGED <<resp, client>>
    /\ UNCHANGED <<opt, now, stage, tries, timer, heads>>

ResponseEnds ==
    /\ Pending /\ up = "flowing" /\ ~resp.started
    /\ up' = "ended" /\ Resolving(resp)
    /\ client' = IF heads > 0 /\ resp.adapter = "none" THEN EndOf(client) ELSE client
    /\ UNCHANGED <<opt, now, stage, tries, timer, heads>>

\* Variant: a response that breaks is always a failure.
ResponseBreaksForGood ==
    /\ Pending /\ up = "flowing" /\ ~resp.started
    /\ Reject("aborted")
    /\ UNCHANGED <<opt, now, stage, tries, timer, resp, heads, client>>

\* aborted, error: after the terminal event nothing is missing.
ResponseBreaks ==
    /\ Pending /\ up = "flowing" /\ ~resp.started
    /\ IF TerminalSeen
       THEN /\ Resolving(resp) /\ up' = "destroyed"
            /\ client' = IF heads > 0 /\ resp.adapter = "none" THEN EndOf(client) ELSE client
       ELSE Reject("aborted") /\ UNCHANGED <<resp, client>>
    /\ UNCHANGED <<opt, now, stage, tries, timer, heads>>

\* A response that waits to be drained is closed by the other side.
PausedBreaks ==
    /\ up = "paused" /\ up' = "destroyed"
    /\ UNCHANGED <<opt, now, stage, tries, timer, resp, verdict, heads, client>>

\* The adapter is through with what it was given, or fails, or outgrows its limit.
Flush ==
    /\ Pending /\ resp.adapter = "ending"
    /\ \/ /\ \E sink \in BOOLEAN :
               resp' = [resp EXCEPT !.adapter = "done", !.sink = @ \/ sink]
          /\ client' = IF resp.left THEN client ELSE EndOf(client)
          /\ UNCHANGED <<up, verdict>>
       \/ MustBeComplete /\ Reject("too_large") /\ client' = "gone" /\ UNCHANGED resp
       \/ Reject("transform_failed") /\ UNCHANGED <<resp, client>>
    /\ UNCHANGED <<opt, now, stage, tries, timer, heads>>

\* Variant: only a success is seen to.
ReleaseSuccess ==
    IF resp.left /\ opt.agent /\ resp.status = "ok" /\ up = "paused"
    THEN up' = "draining"
    ELSE UNCHANGED up

\* A response whose client left is drained for reuse if it was a success and
\* the agent takes it, and destroyed otherwise.
Release ==
    IF resp.left /\ opt.agent
    THEN \/ up' = "destroyed"
         \/ resp.status = "ok" /\ up = "paused" /\ up' = "draining"
    ELSE UNCHANGED up

\* The observers have finished: resolveOnce.
Resolve ==
    /\ Pending /\ resp.started /\ resp.adapter \in {"none", "done"}
    /\ verdict' = "resolved" /\ Release
    /\ UNCHANGED <<opt, now, stage, tries, timer, resp, heads, client>>

DrainEnds ==
    /\ up = "draining" /\ up' \in {"reusable", "destroyed"}
    /\ UNCHANGED <<opt, now, stage, tries, timer, resp, verdict, heads, client>>

-----------------------------------------------------------------------------
(* The client and the clock.                                               *)

\* The client's connection closes or fails. After the terminal event this ends a
\* success; a delay before a retry is cut short.
ClientLeaves ==
    /\ client = "open" /\ client' = "gone"
    /\ IF ~Pending \/ resp.started
       THEN UNCHANGED <<resp, verdict, up>>
       ELSE IF TerminalSeen
       THEN /\ Resolving([resp EXCEPT !.left = TRUE])
            /\ up' = IF opt.agent THEN "paused" ELSE "destroyed"
       ELSE Reject("client_cancel") /\ UNCHANGED resp
    /\ stage' = IF stage = "waiting" THEN "begin" ELSE stage
    /\ UNCHANGED <<opt, now, tries, timer, heads>>

\* Variant: a response that is being resolved is waited for.
TimeIsUpUnlessResolving ==
    /\ Pending /\ ~resp.started /\ now >= timer /\ Reject("timeout")
    /\ UNCHANGED <<opt, now, stage, tries, timer, resp, heads, client>>

TimeIsUp ==
    /\ Pending /\ now >= timer /\ Reject("timeout")
    /\ UNCHANGED <<opt, now, stage, tries, timer, resp, heads, client>>

Tick ==
    /\ Pending \/ stage = "waiting"
    /\ now < timer /\ now' = now + 1
    /\ UNCHANGED <<opt, stage, tries, timer, up, resp, verdict, heads, client>>

-----------------------------------------------------------------------------
(* The loop.                                                               *)

\* Another attempt is due: the answer is one to retry, and all of it is known.
Again ==
    /\ verdict = "resolved" /\ HoldsBack /\ opt.mode # "single"
    /\ resp.status = "again" /\ (opt.mode = "status" => ~resp.cut)

\* delayBeforeRetry: what the upstream asks for or the backoff says, within both
\* bounds. An empty stream is retried at once.
Delays ==
    LET left == Budget - now - BackoffBase
    IN  IF opt.mode = "empty" THEN {0}
        ELSE {d \in 0..BackoffMax : d = 0 \/ d <= left}

Retry ==
    /\ stage = "sending" /\ Again
    /\ \E d \in Delays :
         /\ timer' = now + d
         /\ stage' = IF d = 0 THEN "begin" ELSE "waiting"
    /\ UNCHANGED <<opt, now, tries, up, resp, verdict, heads, client>>

Wake ==
    /\ stage = "waiting" /\ now >= timer /\ stage' = "begin"
    /\ UNCHANGED <<opt, now, tries, timer, up, resp, verdict, heads, client>>

\* The loop is over. What was kept from the client is written now, or an error in
\* its place; an answer that had begun is broken off. Its last bytes may be out.
Answer ==
    /\ stage = "sending" /\ verdict # "none" /\ ~Again
    /\ stage' = "answered"
    /\ IF heads = 0
       THEN heads' = 1 /\ client' = EndOf(client)
       ELSE /\ UNCHANGED heads
            /\ client' \in IF verdict = "resolved" THEN {client}
                           ELSE {"gone"} \cup ({client} \ {"open"})
    /\ UNCHANGED <<opt, now, tries, timer, up, resp, verdict>>

Attempt == RequestFails \/ Respond \/ Receive \/ Translate \/ ResponseEnds
           \/ ResponseBreaks \/ PausedBreaks \/ Flush \/ Resolve

Next == Begin \/ Attempt \/ DrainEnds \/ ClientLeaves \/ TimeIsUp \/ Tick
        \/ Retry \/ Wake \/ Answer

Spec == Init /\ [][Next]_exchangeVars

\* Time passes, timers fire and continuations run. Neither the upstream nor the
\* client nor an adapter owes anything.
FairSpec ==
    /\ Spec
    /\ WF_exchangeVars(Begin) /\ WF_exchangeVars(Retry) /\ WF_exchangeVars(Wake)
    /\ WF_exchangeVars(Answer) /\ WF_exchangeVars(Tick) /\ WF_exchangeVars(TimeIsUp)
    /\ WF_exchangeVars(DrainEnds)

-----------------------------------------------------------------------------
(* Properties.                                                             *)

\* No matter how often a request is retried and how long an upstream asks to be
\* waited for, its client is answered within the time of one request: timeoutMs is
\* the budget of all attempts, delays included.
WithinBudget == now <= Budget

\* Whoever settles an attempt, nothing of it stays behind: its upstream request has
\* ended or is destroyed, or is being drained because a success was cut short by
\* its client.
NothingIsLeftOpen ==
    /\ verdict # "none" => up \in Released
    /\ up \in {"draining", "reusable"} => resp.left /\ resp.status = "ok" /\ verdict = "resolved"

\* A stream whose terminal event was forwarded is not charged with the disconnects
\* that follow: neither a client that hangs up nor an upstream that drops its
\* connection makes a failure of it. If the event is still in the adapter the
\* client has not got it, and leaving is a cancellation. The other way round, an
\* answer is closed as if it were whole only if it is: the upstream has ended it, or
\* its terminal event is there.
TheTerminalDecides ==
    /\ verdict \in {"client_cancel", "aborted"} => ~TerminalSeen
    /\ resp.left => TerminalSeen /\ verdict \in {"none", "resolved", "timeout", "too_large",
                                                   "transform_failed"}
    /\ client = "ended" /\ stage = "sending" /\ verdict \in {"none", "resolved"}
         => up = "ended" \/ TerminalSeen

\* What the client has of its answer.
Given ==
    CASE client = "gone" -> "broken"
      [] client = "ended" -> "complete"
      [] client = "open" /\ heads > 0 -> "streaming"
      [] OTHER -> "none"

Promise == INSTANCE UpstreamAnswer WITH answer <- Given, asked <- tries

\* Through every retry and race the client gets one head at the most, and no
\* attempt is made once it has got anything.
OneAnswer == Promise!Spec /\ [](heads <= 1)

\* Every request ends, whatever its upstream and its client do: the client's
\* response is closed and the upstream's connection is free or gone.
EveryRequestEnds ==
    <>(stage = "answered" /\ client # "open" /\ up \in (Released \ {"draining"}))
=============================================================================
