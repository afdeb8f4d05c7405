---------------------------- MODULE OAuthStore ----------------------------
(***************************************************************************)
(* OAuth connections: class OAuthStore (src/server/oauth-store.ts).        *)
(*                                                                         *)
(* A session leads through the provider to one account.  Accounts are then *)
(* refreshed and disconnected.  Every change of the accounts is a job of   *)
(* one write queue, which rebuilds the map, writes the file and only then  *)
(* moves memory; everything else happens while jobs wait or are written.   *)
(*                                                                         *)
(* An account has the name of the session that made it.  Its identity as a *)
(* JavaScript object, which the code compares, is a number.  The clock is  *)
(* the set of sessions whose time is over.                                 *)
(***************************************************************************)
EXTENDS Integers, FiniteSets, Sequences

CONSTANTS
    Session,
    MaxPending,    \* sessions that may be pending at once: 8 in the code
    None,
    MaxCalls       \* bound: refreshes and disconnects that are asked for

ASSUME OAuthAssumption == MaxPending \in Nat \ {0} /\ MaxCalls \in Nat

VARIABLES
    accounts,   \* the accounts in memory
    file,       \* the accounts in the file
    status,     \* of each session; "starting" is pending before it has a flow
    saved,      \* the sessions whose account the session shows (accountId)
    overdue,    \* the sessions with now() >= expiresAt
    asking,     \* the sessions with a call to the provider under way
    refreshes,  \* the refresh of each account that is under way, if any
    queue,      \* writeQueue: the jobs that wait
    writing,    \* the job whose file is being written, and its accounts
    closed,
    issued,     \* tokens the provider has issued
    made,       \* account objects made
    calls

oauthVars == <<accounts, file, status, saved, overdue, asking, refreshes,
               queue, writing, closed, issued, made, calls>>

sessionVars == <<status, saved, overdue, asking>>
accountVars == <<accounts, file, made>>

Account ==
    [state : {"active", "needs_reauth", "disconnected"},
     token : Nat,        \* 0 when there is none
     object : Nat]
Status ==
    {"unused", "starting", "pending", "exchanging", "saving",
     "connected", "cancelled", "expired", "error", "gone"}
\* base is the account object the refresh began with.
Refresh ==
    [base : Account, stage : {"fetching", "queued"}, aborted : BOOLEAN]
Job ==
    [kind : {"connect", "refresh", "record", "disconnect"},
     of : Session, token : Nat, base : Account \cup {None}, reauth : BOOLEAN]
Accounts == [Session -> {None} \cup Account]
Write == [job : Job, next : Accounts]

ASSUME OAuthSentinelAssumption == None \notin Account /\ None \notin Refresh /\ None \notin Write

TypeOK ==
    /\ accounts \in Accounts /\ file \in Accounts
    /\ status \in [Session -> Status]
    /\ saved \subseteq Session /\ overdue \subseteq Session
    /\ asking \subseteq Session
    /\ refreshes \in [Session -> {None} \cup Refresh]
    /\ queue \in Seq(Job)
    /\ writing \in {None} \cup Write
    /\ closed \in BOOLEAN
    /\ issued \in Nat /\ made \in Nat /\ calls \in Nat

Init ==
    /\ accounts = [s \in Session |-> None] /\ file = accounts
    /\ status = [s \in Session |-> "unused"]
    /\ saved = {} /\ overdue = {} /\ asking = {}
    /\ refreshes = [s \in Session |-> None]
    /\ queue = <<>> /\ writing = None
    /\ closed = FALSE
    /\ issued = 0 /\ made = 0 /\ calls = 0

-----------------------------------------------------------------------------
(* Sessions.                                                               *)

Underway(st) == st \in {"starting", "pending", "exchanging", "saving"}
IsPending(s) == Underway(status[s])

Finish(s, st) == status' = [status EXCEPT ![s] = st]

\* requireSession and the timer give up a session that is still pending ...
Lapsed(s) == IsPending(s) /\ s \in overdue /\ status[s] # "saving"

\* ... and assertPending whatever is not being saved, also what has ended; a
\* closed store (assertOpen) has no sessions left.
PastDeadline(s) == s \in overdue /\ status[s] \notin {"saving", "gone"}

Pending(s) == IsPending(s) /\ ~PastDeadline(s)

\* assertPending, of a session that it does not find pending in time.
Refused(s) == IF PastDeadline(s) THEN Finish(s, "expired") ELSE UNCHANGED status

\* start: the session exists while the provider is asked for its flow.
Start(s) ==
    /\ status[s] = "unused" /\ ~closed
    /\ Cardinality({x \in Session : IsPending(x)}) < MaxPending
    /\ Finish(s, "starting")
    /\ asking' = asking \cup {s}
    /\ UNCHANGED <<accountVars, saved, overdue, refreshes, queue, writing, closed,
                   issued, calls>>

\* The client of start has gone while it waits.
Abandoned(s) ==
    /\ status[s] = "starting"
    /\ Finish(s, "cancelled")
    /\ UNCHANGED <<accountVars, saved, overdue, asking, refreshes, queue,
                   writing, closed, issued, calls>>

\* beginOAuthFlow has answered, or failed.
Begun(s) ==
    /\ status[s] = "starting"
    /\ asking' = asking \ {s}
    /\ \/ Pending(s) /\ Finish(s, "pending")
       \/ ~Pending(s) /\ Refused(s)
       \/ Finish(s, "error")
    /\ UNCHANGED <<accountVars, saved, overdue, refreshes, queue, writing, closed,
                   issued, calls>>

\* DELETE of a session: not while its account is being written.
Cancel(s) ==
    /\ IsPending(s) /\ status[s] \notin {"starting", "saving"} /\ ~closed
    /\ Finish(s, IF Lapsed(s) THEN "expired" ELSE "cancelled")
    /\ UNCHANGED <<accountVars, saved, overdue, asking, refreshes, queue,
                   writing, closed, issued, calls>>

\* poll or complete: the code or device is exchanged for tokens.
Exchange(s) ==
    /\ status[s] = "pending" /\ ~closed
    /\ IF Lapsed(s)
       THEN Finish(s, "expired") /\ UNCHANGED asking
       ELSE Finish(s, "exchanging") /\ asking' = asking \cup {s}
    /\ UNCHANGED <<accountVars, saved, overdue, refreshes, queue, writing,
                   closed, issued, calls>>

\* The callback carried an error.
Denied(s) ==
    /\ status[s] = "pending" /\ ~closed
    /\ Finish(s, IF Lapsed(s) THEN "expired" ELSE "error")
    /\ UNCHANGED <<accountVars, saved, overdue, asking, refreshes, queue,
                   writing, closed, issued, calls>>

\* The provider answers: with tokens, or that the user has not decided yet, in
\* time or too late; or the call fails.
Exchanged(s) ==
    /\ s \in asking /\ status[s] = "exchanging"
    /\ asking' = asking \ {s}
    /\ \/ /\ Pending(s)
          /\ queue' = Append(queue,
                [kind |-> "connect", of |-> s, token |-> issued + 1,
                 base |-> None, reauth |-> FALSE])
          /\ issued' = issued + 1
          /\ UNCHANGED status
       \/ /\ \/ Pending(s) /\ Finish(s, "pending")
             \/ ~Pending(s) /\ Refused(s)
             \/ Finish(s, "error")
          /\ UNCHANGED <<queue, issued>>
    /\ UNCHANGED <<accountVars, saved, overdue, refreshes, writing, closed, calls>>

\* A call ends whose session has ended meanwhile: it was aborted, or its answer
\* is dropped by assertPending.
AnsweredLate(s) ==
    /\ s \in asking /\ ~IsPending(s)
    /\ asking' = asking \ {s}
    /\ UNCHANGED status \/ Refused(s)
    /\ UNCHANGED <<accountVars, saved, overdue, refreshes, queue, writing, closed,
                   issued, calls>>

\* Time passes the session's deadline; its timer fires then or later.  Time
\* also passes for a session that has ended.
Overdue(s) ==
    /\ status[s] \notin {"unused", "gone"} /\ s \notin overdue
    /\ overdue' = overdue \cup {s}
    /\ UNCHANGED <<accountVars, status, saved, asking, refreshes, queue,
                   writing, closed, issued, calls>>

Expire(s) ==
    /\ Lapsed(s)
    /\ Finish(s, "expired")
    /\ UNCHANGED <<accountVars, saved, overdue, asking, refreshes, queue,
                   writing, closed, issued, calls>>

-----------------------------------------------------------------------------
(* Accounts.                                                               *)

\* Callers for the same account share the refresh that is under way.
RefreshAsked(a) ==
    /\ ~closed /\ calls < MaxCalls
    /\ accounts[a] # None /\ accounts[a].state = "active"
    /\ refreshes[a] = None
    /\ refreshes' = [refreshes EXCEPT ![a] =
          [base |-> accounts[a], stage |-> "fetching", aborted |-> FALSE]]
    /\ calls' = calls + 1
    /\ UNCHANGED <<accountVars, sessionVars, queue, writing, closed, issued>>

Fetching(a) == refreshes[a] # None /\ refreshes[a].stage = "fetching"

Queued(a) == refreshes' = [refreshes EXCEPT ![a].stage = "queued"]

\* The provider gave new tokens.
Fetched(a) ==
    /\ Fetching(a) /\ ~refreshes[a].aborted
    /\ queue' = Append(queue,
          [kind |-> "refresh", of |-> a, token |-> issued + 1,
           base |-> refreshes[a].base, reauth |-> FALSE])
    /\ issued' = issued + 1
    /\ Queued(a)
    /\ UNCHANGED <<accountVars, sessionVars, writing, closed, calls>>

\* Variant: whatever the account has become.
AnyAccount(a, base, mem) == TRUE

\* The account is still the object that the refresh began with.
StillCurrent(a, base, mem) == mem[a] = base

\* The catch of refreshAccount: what is queued after rest, and whether the
\* refresh is over.  mem is the memory it finds.
RefreshThrew(a, mem, rest) ==
    IF /\ refreshes[a] # None /\ ~refreshes[a].aborted
       /\ StillCurrent(a, refreshes[a].base, mem)
    THEN /\ \E reauth \in BOOLEAN :
              queue' = Append(rest,
                 [kind |-> "record", of |-> a, token |-> refreshes[a].base.token,
                  base |-> refreshes[a].base, reauth |-> reauth])
         /\ Queued(a)
    ELSE /\ queue' = rest
         /\ refreshes' = [refreshes EXCEPT ![a] = None]

FetchFailed(a) ==
    /\ Fetching(a)
    /\ RefreshThrew(a, accounts, queue)
    /\ UNCHANGED <<accountVars, sessionVars, writing, closed, issued, calls>>

Aborted(r) == [r EXCEPT !.aborted = TRUE]

Disconnect(a) ==
    /\ ~closed /\ calls < MaxCalls
    /\ accounts[a] # None
    /\ refreshes' = IF refreshes[a] = None THEN refreshes
                    ELSE [refreshes EXCEPT ![a] = Aborted(@)]
    /\ queue' = Append(queue,
          [kind |-> "disconnect", of |-> a, token |-> 0, base |-> None,
           reauth |-> FALSE])
    /\ calls' = calls + 1
    /\ UNCHANGED <<accountVars, sessionVars, writing, closed, issued>>

-----------------------------------------------------------------------------
(* The write queue: mutate.                                                *)

\* Variant: the tokens are saved if nobody aborted the refresh.
OnlyNotAborted(job) == ~refreshes[job.of].aborted

\* refreshAccount, when its turn to write has come.
RefreshValid(job) ==
    /\ ~refreshes[job.of].aborted
    /\ StillCurrent(job.of, job.base, accounts)

\* Variant: a session is not looked at again when its turn has come.
AnySession(s) == TRUE

\* assertPending in saveSession's turn.
StillPending(s) == Pending(s)

\* The account that a job makes of the present one.
Rebuilt(job) ==
    CASE job.kind \in {"connect", "refresh"} ->
           [state |-> "active", token |-> job.token, object |-> made + 1]
      [] job.kind = "record" ->
           [state |-> IF job.reauth THEN "needs_reauth" ELSE job.base.state,
            token |-> job.token, object |-> made + 1]
      [] job.kind = "disconnect" ->
           [state |-> "disconnected", token |-> 0, object |-> made + 1]

Replaced(job) == [accounts EXCEPT ![job.of] = Rebuilt(job)]

\* A job whose map is built and whose file is written.
BeginWrite ==
    /\ writing = None /\ queue # <<>> /\ ~closed
    /\ LET job == Head(queue)
       IN  /\ job.kind = "connect" => StillPending(job.of)
           /\ job.kind = "refresh" => RefreshValid(job)
           /\ job.kind = "record" => StillCurrent(job.of, job.base, accounts)
           /\ writing' = [job |-> job, next |-> Replaced(job)]
           /\ IF job.kind = "connect" THEN Finish(job.of, "saving") ELSE UNCHANGED status
    /\ made' = made + 1
    /\ queue' = Tail(queue)
    /\ UNCHANGED <<accounts, file, saved, overdue, asking, refreshes, closed,
                   issued, calls>>

\* A job that its caller gives up, or that the store refuses, before a file is
\* written: the session was cancelled, the account changed meanwhile, the
\* provider moved its endpoint, or the store was closed.
RefuseWrite ==
    /\ writing = None /\ queue # <<>>
    /\ LET job == Head(queue)
           rest == Tail(queue)
       IN  CASE job.kind = "connect" ->
                  /\ closed \/ ~StillPending(job.of)
                  /\ Refused(job.of)
                  /\ queue' = rest /\ UNCHANGED refreshes
             [] job.kind = "refresh" ->
                  /\ RefreshThrew(job.of, accounts, rest)
                  /\ UNCHANGED status
             [] job.kind = "record" ->
                  /\ closed \/ ~StillCurrent(job.of, job.base, accounts)
                  /\ queue' = rest
                  /\ refreshes' = [refreshes EXCEPT ![job.of] = None]
                  /\ UNCHANGED status
             [] job.kind = "disconnect" ->
                  /\ closed
                  /\ queue' = rest /\ UNCHANGED <<refreshes, status>>
    /\ UNCHANGED <<accountVars, saved, overdue, asking, writing, closed,
                   issued, calls>>

\* Variant: a session that fails in its last step is left as it is.
OnlyExchanging(s) == status[s] = "exchanging"

\* The catch in poll and complete.
Failing(s) == IsPending(s)

\* Variant: a session shows its account when it is confirmed.
ShownIfConfirmed(s, ok, mem) == ok

\* The finally of saveSession: whether the session shows its account.
Shown(s, ok, mem) == mem[s] # None

\* What follows a job that was written, or not.
Follow(job, ok, mem) ==
    CASE job.kind = "connect" ->
           /\ saved' = IF Shown(job.of, ok, mem) THEN saved \cup {job.of} ELSE saved
           /\ IF status[job.of] = "gone" \/ (~ok /\ ~Failing(job.of))
              THEN UNCHANGED status
              ELSE Finish(job.of, IF ok THEN "connected" ELSE "error")
           /\ UNCHANGED <<refreshes, queue>>
      [] job.kind = "refresh" /\ ~ok ->
           /\ RefreshThrew(job.of, mem, queue)
           /\ UNCHANGED <<saved, status>>
      [] job.kind = "record" \/ (job.kind = "refresh" /\ ok) ->
           /\ refreshes' = [refreshes EXCEPT ![job.of] = None]
           /\ UNCHANGED <<saved, status, queue>>
      [] job.kind = "disconnect" ->
           UNCHANGED <<saved, status, refreshes, queue>>

Written ==
    /\ writing # None
    /\ file' = writing.next /\ accounts' = writing.next
    /\ Follow(writing.job, TRUE, writing.next)
    /\ writing' = None
    /\ UNCHANGED <<overdue, asking, closed, issued, made, calls>>

\* The file was replaced although its durability is in doubt.
MemoryFollows == accounts' = writing.next /\ Follow(writing.job, FALSE, writing.next)

WrittenInDoubt ==
    /\ writing # None
    /\ file' = writing.next
    /\ MemoryFollows
    /\ writing' = None
    /\ UNCHANGED <<overdue, asking, closed, issued, made, calls>>

NotWritten ==
    /\ writing # None
    /\ UNCHANGED <<file, accounts>>
    /\ Follow(writing.job, FALSE, accounts)
    /\ writing' = None
    /\ UNCHANGED <<overdue, asking, closed, issued, made, calls>>

-----------------------------------------------------------------------------
(* Shutdown and restart.                                                   *)

SessionsGone ==
    status' = [s \in Session |-> IF status[s] = "unused" THEN "unused" ELSE "gone"]

\* close: a file that is being written is still finished, for flush.
Close ==
    /\ ~closed /\ closed' = TRUE
    /\ SessionsGone
    /\ refreshes' = [a \in Session |->
          IF refreshes[a] = None THEN None ELSE Aborted(refreshes[a])]
    /\ UNCHANGED <<accountVars, saved, overdue, asking, queue, writing,
                   issued, calls>>

\* A new process loads the file, which a crash found replaced or not.
Restart ==
    /\ \E f \in {file} \cup (IF writing = None THEN {} ELSE {writing.next}) :
          file' = f /\ accounts' = f
    /\ SessionsGone
    /\ saved' = {} /\ overdue' = {} /\ asking' = {}
    /\ refreshes' = [a \in Session |-> None]
    /\ queue' = <<>> /\ writing' = None
    /\ closed' = FALSE
    /\ UNCHANGED <<made, issued, calls>>

SessionStep(s) ==
    \/ Start(s) \/ Abandoned(s) \/ Begun(s) \/ Cancel(s) \/ Exchange(s)
    \/ Denied(s) \/ Exchanged(s) \/ AnsweredLate(s) \/ Overdue(s) \/ Expire(s)

AccountStep(a) == RefreshAsked(a) \/ Fetched(a) \/ FetchFailed(a) \/ Disconnect(a)

EndWrite == Written \/ WrittenInDoubt \/ NotWritten
WriteStep == BeginWrite \/ RefuseWrite \/ EndWrite

Next ==
    \/ \E s \in Session : SessionStep(s) \/ AccountStep(s)
    \/ WriteStep \/ Close \/ Restart

Spec == Init /\ [][Next]_oauthVars

\* Time passes, timers fire and a file is written or not.
FairSpec ==
    /\ Spec
    /\ WF_oauthVars(WriteStep)
    /\ \A s \in Session : WF_oauthVars(Overdue(s)) /\ WF_oauthVars(Expire(s))

-----------------------------------------------------------------------------
(* Properties.                                                             *)

\* A session tells the truth when it is over: connected means that the file
\* has its account; cancelled, expired, or an error that shows no account
\* means that there is none, neither now nor in a file being written.
EndedSessionsTellTheTruth ==
    \A s \in Session :
        /\ status[s] = "connected" => s \in saved /\ file[s] # None /\ accounts[s] # None
        /\ \/ status[s] \in {"cancelled", "expired"}
           \/ status[s] = "error" /\ s \notin saved
           =>
              /\ accounts[s] = None /\ file[s] = None
              /\ writing # None => writing.next[s] = None

\* An ended session stays as it ended: what the provider or the queue does
\* after a cancellation or a deadline does not connect it after all, nor make
\* it pending again.  One thing changes: a cancelled session that its late
\* answer or its queued account finds past its deadline says that it expired.
EndedSessionsStayEnded ==
    [][ \A s \in Session :
          ~Underway(status[s]) /\ status[s] # "unused" =>
              \/ status'[s] \in {status[s], "gone"}
              \/ status[s] = "cancelled" /\ status'[s] = "expired" /\ PastDeadline(s) ]_oauthVars

\* Between writes memory and the file hold the same accounts, also after a
\* write in doubt: what requests use is what a restart will find.
AccountsMatchFile == writing = None => accounts = file

\* A disconnected account never gets its tokens back, from a refresh or a
\* failure's record that was under way or queued when it was disconnected.
DisconnectedStaysDisconnected ==
    [][ \A a \in Session :
          accounts[a] # None /\ accounts[a].state = "disconnected" =>
              accounts'[a] # None /\ accounts'[a].state = "disconnected" ]_oauthVars

\* New tokens are never overwritten by old ones, which the provider may have
\* revoked when it issued them: not by the record of a failure, and not by a
\* restart.
TokensNeverGoBack ==
    [][ \A a \in Session :
          accounts[a] # None =>
              /\ accounts'[a] # None
              /\ \/ accounts'[a].state = "disconnected"
                 \/ accounts'[a].token >= accounts[a].token ]_oauthVars

\* Every session comes to an end, also one whose account cannot be written
\* after its deadline has passed, when no timer ends it any more.
SessionsEnd == \A s \in Session : IsPending(s) ~> ~IsPending(s)

===========================================================================
