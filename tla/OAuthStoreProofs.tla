------------------------- MODULE OAuthStoreProofs -------------------------
(***************************************************************************)
(* Proofs about OAuthStore, for any number of sessions, refreshes and      *)
(* disconnects.  The invariant says three things: memory and file move     *)
(* together; a session has no account before its own write has begun; and  *)
(* whoever wants to write an account back began with an active one.  Two   *)
(* more stand on it: what an ended session says of its account is true,    *)
(* and whoever wants to replace a token has one that is not older.         *)
(***************************************************************************)
EXTENDS OAuthStore, SequenceTheorems, TLAPS

Together == accounts = file

\* A session without an outcome has no account, and gets one only by the
\* write that made it "saving".
Untouched ==
    \A s \in Session :
        /\ status[s] \in {"unused", "starting", "pending", "exchanging", "saving"} =>
              accounts[s] = None
        /\ status[s] \in {"unused", "starting", "pending", "exchanging"} /\ writing # None =>
              writing.next[s] = None
        /\ status[s] = "saving" =>
              writing # None /\ writing.job.kind = "connect" /\ writing.job.of = s

\* Refreshes begin with an active account, and so do the jobs they queue.
FromActive ==
    /\ \A a \in Session : refreshes[a] # None => refreshes[a].base.state = "active"
    /\ \A i \in DOMAIN queue :
          queue[i].kind \in {"refresh", "record"} =>
              queue[i].base \in Account /\ queue[i].base.state = "active"

\* What is being written keeps every account, and keeps it disconnected.
WriteKeeps ==
    writing # None =>
        \A a \in Session : accounts[a] # None =>
            /\ writing.next[a] # None
            /\ accounts[a].state = "disconnected" => writing.next[a].state = "disconnected"

\* Sessions that the provider still has to answer, or that wait for their write:
\* under way, given up, or gone with their process, but neither connected nor
\* failed.
AskingStatus == {"starting", "exchanging", "cancelled", "expired", "gone"}
QueuedStatus == AskingStatus \ {"starting"}

\* At most one account of a session is queued.
OneConnect(q) ==
    \A i, j \in DOMAIN q :
        q[i].kind = "connect" /\ q[j].kind = "connect" /\ q[i].of = q[j].of => i = j

\* A session is exchanged for tokens once: it is not waiting for the provider
\* any more when its account is queued or written.  And only what is there is
\* disconnected.
Traded ==
    /\ \A s \in asking : status[s] \in AskingStatus
    /\ \A i \in DOMAIN queue :
          queue[i].kind = "connect" =>
              queue[i].of \notin asking /\ status[queue[i].of] \in QueuedStatus
    /\ OneConnect(queue)
    /\ writing # None /\ writing.job.kind = "connect" =>
          status[writing.job.of] \in {"saving", "gone"}
    /\ \A i \in DOMAIN queue :
          queue[i].kind = "disconnect" => accounts[queue[i].of] # None

OAuthInv == TypeOK /\ Together /\ Untouched /\ FromActive /\ WriteKeeps /\ Traded

-----------------------------------------------------------------------------

LEMMA HeadTail ==
    ASSUME NEW S, NEW q \in Seq(S), q # <<>>
    PROVE  /\ Head(q) \in S /\ Head(q) = q[1] /\ 1 \in DOMAIN q
           /\ Tail(q) \in Seq(S)
           /\ \A i \in DOMAIN Tail(q) : Tail(q)[i] = q[i + 1] /\ i + 1 \in DOMAIN q
  OBVIOUS

LEMMA Appended ==
    ASSUME NEW S, NEW q \in Seq(S), NEW x \in S
    PROVE  /\ Append(q, x) \in Seq(S)
           /\ \A i \in DOMAIN Append(q, x) :
                 (i \in DOMAIN q /\ Append(q, x)[i] = q[i]) \/ Append(q, x)[i] = x
  OBVIOUS

\* A queue of jobs that began with active accounts, or connect a session each.
Fit(q) ==
    /\ q \in Seq(Job)
    /\ OneConnect(q)
    /\ \A i \in DOMAIN q : q[i].kind \in {"refresh", "record"} =>
           q[i].base \in Account /\ q[i].base.state = "active"

LEMMA FitTail ==
    ASSUME NEW q, Fit(q), q # <<>>
    PROVE  /\ Fit(Tail(q)) /\ Head(q) \in Job
           /\ Head(q).kind \in {"refresh", "record"} =>
                  Head(q).base \in Account /\ Head(q).base.state = "active"
  <1>1. OneConnect(Tail(q))
    <2> SUFFICES ASSUME NEW i \in DOMAIN Tail(q), NEW j \in DOMAIN Tail(q),
                        Tail(q)[i].kind = "connect", Tail(q)[j].kind = "connect",
                        Tail(q)[i].of = Tail(q)[j].of
                 PROVE  i = j
      BY DEF OneConnect
    <2>1. /\ Tail(q)[i] = q[i + 1] /\ i + 1 \in DOMAIN q
          /\ Tail(q)[j] = q[j + 1] /\ j + 1 \in DOMAIN q
      BY HeadTail DEF Fit
    <2>2. i + 1 = j + 1
      BY <2>1 DEF Fit, OneConnect
    <2>3. i \in Int /\ j \in Int
      BY DEF Fit
    <2> QED BY <2>2, <2>3
  <1> QED BY <1>1, HeadTail DEF Fit

LEMMA FitAppend ==
    ASSUME NEW q, Fit(q), NEW j \in Job,
           j.kind \in {"refresh", "record"} => j.base \in Account /\ j.base.state = "active",
           j.kind = "connect" =>
               \A i \in DOMAIN q : q[i].kind = "connect" => q[i].of # j.of
    PROVE  Fit(Append(q, j))
  <1>1. OneConnect(Append(q, j))
    <2>1. q \in Seq(Job) /\ OneConnect(q)
      BY DEF Fit
    <2>2. \A i \in DOMAIN Append(q, j) :
              \/ i \in DOMAIN q /\ Append(q, j)[i] = q[i]
              \/ i = Len(q) + 1 /\ Append(q, j)[i] = j
      BY <2>1
    <2> QED BY <2>1, <2>2 DEF OneConnect
  <1> QED BY <1>1, Appended DEF Fit

\* What q has over p concerns accounts that are there.
NoNewJob(q, p) ==
    \A i \in DOMAIN q :
        \/ q[i].kind \notin {"connect", "disconnect"}
        \/ q[i].kind = "disconnect" /\ accounts[q[i].of] # None
        \/ \E j \in DOMAIN p : p[j] = q[i]

LEMMA ConnectsStay ==
    ASSUME NEW q, Fit(q), NEW x \in Job, x.kind # "connect",
           x.kind = "disconnect" => accounts[x.of] # None
    PROVE  NoNewJob(Append(q, x), q) /\ NoNewJob(q, q)
  BY Appended DEF Fit, NoNewJob

LEMMA QueueFit == OAuthInv => Fit(queue)
  BY DEF OAuthInv, TypeOK, FromActive, Traded, Fit

\* The catch of a refresh keeps queue and refreshes in shape.
LEMMA ThrewFits ==
    ASSUME OAuthInv, NEW a \in Session, NEW mem, NEW rest, Fit(rest),
           RefreshThrew(a, mem, rest)
    PROVE  /\ Fit(queue')
           /\ refreshes' \in [Session -> {None} \cup Refresh]
           /\ \A x \in Session : refreshes'[x] # None => refreshes'[x].base.state = "active"
           /\ NoNewJob(queue', rest)
  <1>1. /\ refreshes[a] # None =>
              /\ refreshes[a] \in Refresh /\ refreshes[a].base \in Account
              /\ refreshes[a].base.state = "active" /\ refreshes[a].base.token \in Nat
        /\ refreshes \in [Session -> {None} \cup Refresh]
    BY DEF OAuthInv, TypeOK, FromActive, Refresh, Account
  <1>2. CASE refreshes' = [refreshes EXCEPT ![a] = None] /\ queue' = rest
    BY <1>1, <1>2 DEF OAuthInv, FromActive, NoNewJob
  <1>3. CASE /\ refreshes[a] # None /\ Queued(a)
             /\ \E reauth \in BOOLEAN :
                  queue' = Append(rest,
                     [kind |-> "record", of |-> a, token |-> refreshes[a].base.token,
                      base |-> refreshes[a].base, reauth |-> reauth])
    <2>1. Fit(queue') /\ NoNewJob(queue', rest)
      <3>1. PICK reauth \in BOOLEAN :
                queue' = Append(rest,
                   [kind |-> "record", of |-> a, token |-> refreshes[a].base.token,
                    base |-> refreshes[a].base, reauth |-> reauth])
        BY <1>3
      <3> DEFINE job == [kind |-> "record", of |-> a, token |-> refreshes[a].base.token,
                         base |-> refreshes[a].base, reauth |-> reauth]
      <3>2. /\ job \in Job /\ job.kind \notin {"connect", "disconnect"}
            /\ job.base \in Account /\ job.base.state = "active"
        BY <1>1, <1>3 DEF Job
      <3> HIDE DEF job
      <3>3. queue' = Append(rest, job)
        BY <3>1 DEF job
      <3> QED BY <3>2, <3>3, FitAppend, ConnectsStay
    <2>2. /\ refreshes' \in [Session -> {None} \cup Refresh]
          /\ \A x \in Session : refreshes'[x] # None => refreshes'[x].base.state = "active"
      BY <1>1, <1>3 DEF Queued, Refresh, OAuthInv, FromActive
    <2> QED BY <2>1, <2>2
  <1> QED BY <1>2, <1>3 DEF RefreshThrew

-----------------------------------------------------------------------------
(* The steps.                                                              *)

LEMMA OAuthInit == Init => OAuthInv
  <1> SUFFICES ASSUME Init PROVE OAuthInv
    OBVIOUS
  <1>1. accounts \in Accounts /\ file \in Accounts
    BY DEF Init, Accounts
  <1>2. /\ status \in [Session -> Status]
        /\ refreshes \in [Session -> {None} \cup Refresh]
    BY DEF Init, Status
  <1>3. queue \in Seq(Job)
    BY DEF Init
  <1>4. TypeOK
    BY <1>1, <1>2, <1>3 DEF Init, TypeOK
  <1> QED BY <1>4 DEF Init, OAuthInv, Together, Untouched, FromActive, WriteKeeps, Traded,
                      OneConnect

\* Steps of the sessions.
LEMMA SessionKeeps ==
    ASSUME OAuthInv, NEW s \in Session, SessionStep(s)
    PROVE  OAuthInv'
  <1>1. /\ UNCHANGED <<accounts, file, saved, refreshes, writing, closed, made, calls>>
        /\ overdue' \subseteq Session /\ asking' \subseteq Session
    BY DEF SessionStep, Start, Abandoned, Begun, Cancel, Exchange, Denied, Exchanged, AnsweredLate, Overdue, Expire, Refused,
           accountVars, OAuthInv, TypeOK
  <1>2. status' = status \/ \E st \in Status \ {"unused", "saving", "connected", "gone"} :
                                status' = [status EXCEPT ![s] = st]
    BY DEF SessionStep, Start, Abandoned, Begun, Cancel, Exchange, Denied, Exchanged, AnsweredLate, Overdue, Expire, Refused,
           Finish, Status
  \* Only what has no outcome changes, or what was given up when it is past its deadline.
  <1>3. \/ status' = status
        \/ status[s] \in {"unused", "starting", "pending", "exchanging"}
        \/ /\ status[s] \in {"cancelled", "expired"}
           /\ status' = [status EXCEPT ![s] = "expired"]
    <2>2. CASE \/ Start(s) \/ Abandoned(s) \/ Begun(s) \/ Exchange(s) \/ Denied(s)
               \/ Exchanged(s) \/ Overdue(s)
      BY <2>2 DEF Start, Abandoned, Begun, Exchange, Denied, Exchanged, Overdue
    <2>3. CASE Cancel(s) \/ Expire(s)
      BY <2>3 DEF Cancel, Expire, Lapsed, IsPending, Underway
    <2>4. CASE AnsweredLate(s)
      BY <2>4 DEF AnsweredLate, Refused, Finish, PastDeadline, IsPending, Underway, OAuthInv,
                  Traded, AskingStatus
    <2> QED BY <2>2, <2>3, <2>4 DEF SessionStep
  <1>4. Fit(queue') /\ issued' \in Nat
    <2>1. CASE UNCHANGED <<queue, issued>>
      BY <2>1, QueueFit DEF OAuthInv, TypeOK
    <2>2. CASE /\ queue' = Append(queue,
                     [kind |-> "connect", of |-> s, token |-> issued + 1,
                      base |-> None, reauth |-> FALSE])
               /\ issued' = issued + 1
      <3> DEFINE job == [kind |-> "connect", of |-> s, token |-> issued + 1,
                         base |-> None, reauth |-> FALSE]
      <3>1. issued \in Nat
        BY DEF OAuthInv, TypeOK
      <3>2. job \in Job /\ job.kind = "connect"
        BY <3>1 DEF Job
      <3>3. CASE s \in asking
        <4>1. \A i \in DOMAIN queue : queue[i].kind = "connect" => queue[i].of # job.of
          BY <3>3 DEF OAuthInv, Traded
        <4>2. Fit(Append(queue, job))
          <5> HIDE DEF job
          <5> QED BY <3>2, <4>1, QueueFit, FitAppend
        <4> QED BY <2>2, <3>1, <4>2
      <3>4. CASE s \notin asking
        <4>1. UNCHANGED <<queue, issued>>
          BY <3>4 DEF SessionStep, Start, Abandoned, Begun, Cancel, Exchange, Denied,
                      Exchanged, AnsweredLate, Overdue, Expire, accountVars
        <4> QED BY <4>1, QueueFit DEF OAuthInv, TypeOK
      <3> QED BY <3>3, <3>4
    <2> QED BY <2>1, <2>2 DEF SessionStep, Start, Abandoned, Begun, Cancel, Exchange, Denied,
                              Exchanged, AnsweredLate, Overdue, Expire, accountVars
  <1>5. TypeOK'
    BY <1>1, <1>2, <1>4 DEF OAuthInv, TypeOK, Fit
  <1>6. Untouched'
    BY <1>1, <1>2, <1>3 DEF OAuthInv, TypeOK, Untouched
  <1>7. FromActive'
    BY <1>1, <1>4 DEF OAuthInv, FromActive, Fit
  \* A session whose account is being written does not move.
  <1>9. /\ OneConnect(queue')
        /\ writing' # None /\ writing'.job.kind = "connect" =>
              status'[writing'.job.of] \in {"saving", "gone"}
    <2>1. writing # None => writing.job.of \in Session
      BY DEF OAuthInv, TypeOK, Write, Job
    <2>2. writing # None /\ writing.job.kind = "connect" =>
              status[writing.job.of] \in {"saving", "gone"}
      BY DEF OAuthInv, Traded
    <2> QED BY <1>1, <1>2, <1>3, <1>4, <2>1, <2>2 DEF Fit, OAuthInv, TypeOK
  <1>8. Traded'
    <2>0. /\ \A x \in asking : x \in Session
          /\ \A i \in DOMAIN queue : queue[i].of \in Session
          /\ queue \in Seq(Job)
      <3>1. \A i \in DOMAIN queue : queue[i] \in Job
        BY QueueFit DEF Fit
      <3> QED BY <3>1, QueueFit DEF OAuthInv, TypeOK, Fit, Job
    <2>1. CASE Abandoned(s) \/ Cancel(s) \/ Denied(s) \/ Overdue(s) \/ Expire(s)
      <3>1. UNCHANGED <<asking, queue>>
        BY <2>1 DEF Abandoned, Cancel, Denied, Overdue, Expire
      <3>2. \/ status' = status
            \/ \E st \in Status :
                  /\ status' = [status EXCEPT ![s] = st]
                  /\ status[s] = "pending" \/ st \in {"expired", "cancelled"}
        BY <2>1 DEF Abandoned, Cancel, Denied, Overdue, Expire, Finish, Status
      <3>3. /\ s \in asking => status[s] # "pending"
            /\ \A i \in DOMAIN queue :
                  queue[i].kind = "connect" /\ queue[i].of = s => status[s] # "pending"
        BY DEF OAuthInv, Traded, AskingStatus, QueuedStatus
      <3> QED BY <1>1, <1>9, <3>1, <3>2, <3>3, <2>0
              DEF OAuthInv, TypeOK, Traded, AskingStatus, QueuedStatus
    <2>2. CASE Start(s) \/ Exchange(s)
      <3>1. /\ status[s] \in {"unused", "pending"} /\ queue' = queue
            /\ \/ status' = [status EXCEPT ![s] = "expired"] /\ asking' = asking
               \/ /\ \E st \in {"starting", "exchanging"} : status' = [status EXCEPT ![s] = st]
                  /\ asking' = asking \cup {s}
        BY <2>2 DEF Start, Exchange, Finish
      <3>2. \A i \in DOMAIN queue : queue[i].kind = "connect" => queue[i].of # s
        BY <3>1 DEF OAuthInv, Traded, AskingStatus, QueuedStatus
      <3> QED BY <1>1, <1>9, <3>1, <3>2, <2>0
              DEF OAuthInv, TypeOK, Traded, AskingStatus, QueuedStatus
    <2>3. CASE Begun(s) \/ Exchanged(s) \/ AnsweredLate(s)
      <3> DEFINE job == [kind |-> "connect", of |-> s, token |-> issued + 1,
                         base |-> None, reauth |-> FALSE]
      <3>1. /\ s \in asking \/ status[s] = "starting"
            /\ asking' = asking \ {s}
            /\ \/ /\ status[s] = "exchanging" /\ status' = status
                  /\ queue' = Append(queue, job)
               \/ status' = status /\ queue' = queue
               \/ /\ \E st \in Status : status' = [status EXCEPT ![s] = st]
                  /\ queue' = queue
        BY <2>3 DEF Begun, Exchanged, AnsweredLate, Refused, Finish, Status
      <3>2. job \in Job /\ job.of = s /\ job.kind = "connect"
        <4>1. issued \in Nat
          BY DEF OAuthInv, TypeOK
        <4> QED BY <4>1 DEF Job
      <3>3. \A i \in DOMAIN queue : queue[i].kind = "connect" => queue[i].of # s
        BY <3>1 DEF OAuthInv, Traded, AskingStatus, QueuedStatus
      <3> HIDE DEF job
      <3>4. CASE queue' = queue
        BY <1>1, <1>9, <3>1, <3>3, <3>4, <2>0 DEF OAuthInv, TypeOK, Traded
      <3>5. CASE /\ status[s] = "exchanging" /\ status' = status
                 /\ queue' = Append(queue, job)
        BY <1>1, <1>9, <3>1, <3>2, <3>3, <3>5, <2>0, Appended
           DEF OAuthInv, TypeOK, Traded, AskingStatus, QueuedStatus
      <3> QED BY <3>1, <3>4, <3>5
    <2> QED BY <2>1, <2>2, <2>3 DEF SessionStep
  <1> QED BY <1>1, <1>5, <1>6, <1>7, <1>8 DEF OAuthInv, Together, WriteKeeps

\* Requests for refreshes and disconnects, and what the provider answers.
LEMMA AccountFits ==
    ASSUME OAuthInv, NEW a \in Session, AccountStep(a)
    PROVE  /\ Fit(queue')
           /\ refreshes' \in [Session -> {None} \cup Refresh]
           /\ \A x \in Session : refreshes'[x] # None => refreshes'[x].base.state = "active"
           /\ NoNewJob(queue', queue)
  <1>1. /\ refreshes \in [Session -> {None} \cup Refresh] /\ issued \in Nat
        /\ accounts \in Accounts
        /\ \A x \in Session : refreshes[x] # None => refreshes[x].base.state = "active"
    BY DEF OAuthInv, TypeOK, FromActive
  <1>2. CASE RefreshAsked(a)
    <2> DEFINE r == [base |-> accounts[a], stage |-> "fetching", aborted |-> FALSE]
    <2>1. accounts[a] \in Account /\ accounts[a].state = "active"
      BY <1>1, <1>2 DEF RefreshAsked, Accounts
    <2>2. r \in Refresh /\ r.base.state = "active"
      BY <2>1 DEF Refresh
    <2>3. refreshes' = [refreshes EXCEPT ![a] = r] /\ queue' = queue
      BY <1>2 DEF RefreshAsked
    <2> HIDE DEF r
    <2> QED BY <1>1, <2>2, <2>3, QueueFit DEF NoNewJob
  <1>3. CASE Fetched(a)
    <2> DEFINE job == [kind |-> "refresh", of |-> a, token |-> issued + 1,
                       base |-> refreshes[a].base, reauth |-> FALSE]
               r == [refreshes[a] EXCEPT !.stage = "queued"]
    <2>1. refreshes[a] \in Refresh /\ refreshes[a].base.state = "active"
      BY <1>1, <1>3 DEF Fetched, Fetching
    <2>2. r \in Refresh /\ r.base.state = "active" /\ refreshes[a].base \in Account
      BY <2>1 DEF Refresh
    <2>3. /\ job \in Job /\ job.kind \notin {"connect", "disconnect"}
          /\ job.base \in Account /\ job.base.state = "active"
      BY <1>1, <2>1, <2>2 DEF Job
    <2>4. refreshes' = [refreshes EXCEPT ![a] = r] /\ queue' = Append(queue, job)
      BY <1>1, <1>3 DEF Fetched, Queued
    <2> HIDE DEF job, r
    <2>5. Fit(queue') /\ NoNewJob(queue', queue)
      BY <2>3, <2>4, QueueFit, FitAppend, ConnectsStay
    <2> QED BY <1>1, <2>2, <2>4, <2>5
  <1>4. CASE FetchFailed(a)
    BY <1>4, QueueFit, ThrewFits DEF FetchFailed
  <1>5. CASE Disconnect(a)
    <2> DEFINE job == [kind |-> "disconnect", of |-> a, token |-> 0, base |-> None,
                       reauth |-> FALSE]
    <2>1. /\ job \in Job /\ job.kind = "disconnect"
          /\ job.of = a /\ accounts[a] # None
      BY <1>5 DEF Job, Disconnect
    <2>2. /\ queue' = Append(queue, job)
          /\ refreshes' = IF refreshes[a] = None THEN refreshes
                          ELSE [refreshes EXCEPT ![a] = Aborted(refreshes[a])]
      BY <1>1, <1>5 DEF Disconnect
    <2>3. refreshes[a] # None =>
              /\ Aborted(refreshes[a]) \in Refresh
              /\ Aborted(refreshes[a]).base = refreshes[a].base
      BY <1>1 DEF Aborted, Refresh
    <2> HIDE DEF job
    <2>4. Fit(queue') /\ NoNewJob(queue', queue)
      BY <2>1, <2>2, QueueFit, FitAppend, ConnectsStay
    <2> QED BY <1>1, <2>2, <2>3, <2>4
  <1> QED BY <1>2, <1>3, <1>4, <1>5 DEF AccountStep

LEMMA AccountKeeps ==
    ASSUME OAuthInv, NEW a \in Session, AccountStep(a)
    PROVE  OAuthInv'
  <1>1. UNCHANGED <<accounts, file, made, status, saved, overdue, asking, writing, closed>>
    BY DEF AccountStep, RefreshAsked, Fetched, FetchFailed, Disconnect, accountVars, sessionVars
  <1>2. issued' \in Nat /\ calls' \in Nat
    BY DEF AccountStep, RefreshAsked, Fetched, FetchFailed, Disconnect, OAuthInv, TypeOK
  <1>3. TypeOK'
    BY <1>1, <1>2, AccountFits DEF OAuthInv, TypeOK, Fit
  <1>4. FromActive'
    BY AccountFits DEF FromActive, Fit
  <1>5. Traded'
    BY <1>1, AccountFits DEF OAuthInv, Traded, NoNewJob, Fit
  <1> QED BY <1>1, <1>3, <1>4, <1>5 DEF OAuthInv, Together, Untouched, WriteKeeps

\* What a job makes of its account.
LEMMA RebuiltAccount ==
    ASSUME OAuthInv, NEW job \in Job,
           job.kind \in {"refresh", "record"} =>
               job.base \in Account /\ job.base.state = "active"
    PROVE  /\ Rebuilt(job) \in Account
           /\ job.kind = "disconnect" => Rebuilt(job).state = "disconnected"
           /\ Replaced(job) \in Accounts
           /\ \A a \in Session :
                 Replaced(job)[a] = IF a = job.of THEN Rebuilt(job) ELSE accounts[a]
  <1>1. /\ job.kind \in {"connect", "refresh", "record", "disconnect"}
        /\ job.of \in Session /\ job.token \in Nat /\ job.reauth \in BOOLEAN
    BY DEF Job
  <1>2. made + 1 \in Nat /\ accounts \in [Session -> {None} \cup Account]
    BY DEF OAuthInv, TypeOK, Accounts
  <1>3. job.kind = "record" => job.base.state \in {"active", "needs_reauth", "disconnected"}
    OBVIOUS
  <1>4. /\ Rebuilt(job) \in Account
        /\ job.kind = "disconnect" => Rebuilt(job).state = "disconnected"
    BY <1>1, <1>2, <1>3 DEF Rebuilt, Account
  <1> QED BY <1>1, <1>2, <1>4 DEF Replaced, Accounts

\* A write begins.
LEMMA BeginKeeps ==
    ASSUME OAuthInv, BeginWrite
    PROVE  OAuthInv'
  <1> DEFINE job == Head(queue)
  <1>1. /\ queue # <<>> /\ writing = None /\ queue' = Tail(queue)
        /\ UNCHANGED <<accounts, file, saved, overdue, asking, refreshes, closed,
                       issued, calls>>
        /\ writing' = [job |-> job, next |-> Replaced(job)]
        /\ made' = made + 1
        /\ job.kind = "connect" => Pending(job.of)
        /\ job.kind \in {"refresh", "record"} => accounts[job.of] = job.base
        /\ status' = IF job.kind = "connect" THEN [status EXCEPT ![job.of] = "saving"]
                                             ELSE status
    BY DEF BeginWrite, StillPending, RefreshValid, StillCurrent, Finish
  <1>2. /\ job \in Job /\ Fit(Tail(queue)) /\ Fit(queue)
        /\ job.kind \in {"refresh", "record"} =>
              job.base \in Account /\ job.base.state = "active"
        /\ job.of \in Session
    BY <1>1, QueueFit, FitTail DEF Job
  <1>3. /\ Rebuilt(job) \in Account
        /\ job.kind = "disconnect" => Rebuilt(job).state = "disconnected"
        /\ Replaced(job) \in Accounts
        /\ \A a \in Session :
              Replaced(job)[a] = IF a = job.of THEN Rebuilt(job) ELSE accounts[a]
    BY <1>2, RebuiltAccount
  <1>4. job \in Job /\ job.kind \in {"connect", "refresh", "record", "disconnect"}
    BY <1>2 DEF Job
  <1>5. /\ queue \in Seq(Job) /\ job = queue[1] /\ 1 \in DOMAIN queue
        /\ \A i \in DOMAIN Tail(queue) :
              Tail(queue)[i] = queue[i + 1] /\ i + 1 \in DOMAIN queue
    BY <1>1, <1>2, HeadTail DEF Fit
  <1> HIDE DEF job
  <1>6. /\ writing' \in Write /\ writing' # None
        /\ writing'.job = job /\ writing'.next = Replaced(job)
    BY <1>1, <1>3, <1>4, OAuthSentinelAssumption DEF Write
  \* A connect job's session has no account yet and is not being exchanged.
  <1>7. job.kind = "connect" =>
            /\ status[job.of] = "exchanging" /\ accounts[job.of] = None
            /\ job.of \notin asking
    <2>1. job.kind = "connect" =>
              /\ status[job.of] \in {"starting", "pending", "exchanging", "saving"}
              /\ status[job.of] \in QueuedStatus
              /\ job.of \notin asking
      BY <1>1, <1>5 DEF OAuthInv, Traded, Pending, IsPending, Underway
    <2> QED BY <1>1, <1>2, <2>1 DEF OAuthInv, Untouched, AskingStatus, QueuedStatus
  \* The other jobs are of sessions that have an account.
  <1>8. job.kind # "connect" => accounts[job.of] # None
    BY <1>1, <1>2, <1>4, <1>5, OAuthSentinelAssumption DEF OAuthInv, Traded
  <1>9. TypeOK'
    BY <1>1, <1>2, <1>6 DEF OAuthInv, TypeOK, Fit, Status
  <1>10. Untouched'
    BY <1>1, <1>2, <1>3, <1>6, <1>7, <1>8 DEF OAuthInv, TypeOK, Untouched
  <1>11. FromActive'
    BY <1>1, <1>2 DEF OAuthInv, FromActive, Fit
  <1>12. WriteKeeps'
    <2>1. SUFFICES ASSUME NEW a \in Session, accounts[a] # None
                   PROVE  /\ Replaced(job)[a] # None
                          /\ accounts[a].state = "disconnected" =>
                                 Replaced(job)[a].state = "disconnected"
      BY <1>1, <1>6 DEF WriteKeeps
    <2> QED BY <1>1, <1>2, <1>3, <1>4, <1>7, <2>1, OAuthSentinelAssumption
  <1>13. Traded'
    <2>1. \A i \in DOMAIN Tail(queue) :
              /\ Tail(queue)[i] \in Job
              /\ Tail(queue)[i].kind = "connect" /\ job.kind = "connect" =>
                     Tail(queue)[i].of # job.of
      <3>1. ASSUME NEW i \in DOMAIN Tail(queue) PROVE i + 1 # 1
        BY <1>5, <3>1
      <3> QED BY <1>2, <1>5, <3>1 DEF Fit, OneConnect
    <2>2. \A i \in DOMAIN Tail(queue) : Tail(queue)[i].of \in Session
      BY <2>1 DEF Job
    <2>3. OneConnect(Tail(queue))
      BY <1>2 DEF Fit
    <2>4. \A i \in DOMAIN queue' : queue'[i].kind = "connect" =>
              queue'[i].of \notin asking' /\ status'[queue'[i].of] \in QueuedStatus
      BY <1>1, <1>5, <2>1, <2>2 DEF OAuthInv, TypeOK, Traded
    <2>5. \A i \in DOMAIN queue' : queue'[i].kind = "disconnect" => accounts'[queue'[i].of] # None
      BY <1>1, <1>5 DEF OAuthInv, Traded
    <2>6. \A x \in asking' : status'[x] \in AskingStatus
      BY <1>1, <1>2, <1>7 DEF OAuthInv, TypeOK, Traded
    <2>7. writing'.job.kind = "connect" => status'[writing'.job.of] \in {"saving", "gone"}
      BY <1>1, <1>2, <1>6 DEF OAuthInv, TypeOK
    <2> QED BY <1>1, <2>3, <2>4, <2>5, <2>6, <2>7 DEF Traded
  <1> QED BY <1>1, <1>9, <1>10, <1>11, <1>12, <1>13 DEF OAuthInv, Together

\* Traded survives whatever ends sessions and adds no connect job.
LEMMA TradedStays ==
    ASSUME OAuthInv, NoNewJob(queue', queue), asking' = asking,
           \A s \in Session : accounts[s] # None => accounts'[s] # None,
           \A s \in Session :
               \/ status'[s] = status[s]
               \/ status'[s] \in {"expired", "gone"}
               \/ status[s] = "saving",
           writing' # None => writing' = writing,
           \A s \in Session : status[s] \in {"saving", "gone"} /\ writing' # None =>
               status'[s] \in {"saving", "gone"},
           Fit(queue')
    PROVE  Traded'
  <1>1. \A x \in asking : x \in Session
    BY DEF OAuthInv, TypeOK
  <1>2. \A i \in DOMAIN queue' : queue'[i] \in Job /\ queue'[i].of \in Session
    <2>1. \A i \in DOMAIN queue' : queue'[i] \in Job
      BY DEF Fit
    <2> QED BY <2>1 DEF Job
  <1>3. \A i \in DOMAIN queue' :
            /\ queue'[i].kind = "connect" =>
                  /\ queue'[i].of \notin asking
                  /\ status[queue'[i].of] \in QueuedStatus
            /\ queue'[i].kind = "disconnect" => accounts[queue'[i].of] # None
    BY DEF OAuthInv, Traded, NoNewJob
  <1>4. \A s \in Session :
            /\ status[s] \in AskingStatus => status'[s] \in AskingStatus
            /\ status[s] \in QueuedStatus => status'[s] \in QueuedStatus
    BY DEF AskingStatus, QueuedStatus
  <1>5. writing' # None /\ writing'.job.kind = "connect" =>
            status'[writing'.job.of] \in {"saving", "gone"}
    <2>1. writing # None => writing.job.of \in Session
      BY DEF OAuthInv, TypeOK, Write, Job
    <2> QED BY <2>1 DEF OAuthInv, Traded
  <1> QED BY <1>1, <1>2, <1>3, <1>4, <1>5 DEF OAuthInv, Traded, Fit

\* A write that is refused.
LEMMA RefuseKeeps ==
    ASSUME OAuthInv, RefuseWrite
    PROVE  OAuthInv'
  <1> DEFINE job == Head(queue)
             rest == Tail(queue)
  <1>1. /\ queue # <<>> /\ writing = None
        /\ UNCHANGED <<accounts, file, made, saved, overdue, asking, writing, closed,
                       issued, calls>>
    BY DEF RefuseWrite, accountVars
  <1>2. /\ job \in Job /\ Fit(rest) /\ Fit(queue) /\ job.of \in Session
        /\ job.kind \in {"connect", "refresh", "record", "disconnect"}
        /\ NoNewJob(rest, queue)
    <2>1. job \in Job /\ Fit(rest) /\ Fit(queue)
      BY <1>1, QueueFit, FitTail
    <2>2. \A i \in DOMAIN rest : rest[i] = queue[i + 1] /\ i + 1 \in DOMAIN queue
      BY <1>1, <2>1, HeadTail DEF Fit
    <2>3. NoNewJob(rest, queue)
      BY <2>2 DEF NoNewJob
    <2>4. job.of \in Session /\ job.kind \in {"connect", "refresh", "record", "disconnect"}
      BY <2>1 DEF Job
    <2> QED BY <2>1, <2>3, <2>4
  \* In each case the queue only loses a job or gains a record.
  <1>3. /\ Fit(queue') /\ NoNewJob(queue', rest)
        /\ refreshes' \in [Session -> {None} \cup Refresh]
        /\ \A x \in Session : refreshes'[x] # None => refreshes'[x].base.state = "active"
    <2>1. CASE job.kind = "connect" \/ job.kind = "record" \/ job.kind = "disconnect"
      <3>1. /\ queue' = rest
            /\ \/ refreshes' = refreshes
               \/ refreshes' = [refreshes EXCEPT ![job.of] = None]
        BY <2>1 DEF RefuseWrite
      <3> QED BY <1>2, <3>1 DEF OAuthInv, TypeOK, FromActive, NoNewJob
    <2>2. CASE job.kind = "refresh"
      <3>1. RefreshThrew(job.of, accounts, rest)
        BY <2>2 DEF RefuseWrite
      <3> HIDE DEF job, rest
      <3> QED BY <1>2, <3>1, ThrewFits
    <2> QED BY <1>2, <2>1, <2>2
  <1>4. \/ status' = status
        \/ /\ status[job.of] \notin {"saving", "gone"}
           /\ status' = [status EXCEPT ![job.of] = "expired"]
    BY <1>2 DEF RefuseWrite, Refused, PastDeadline, Finish
  <1> HIDE DEF job, rest
  <1>5. NoNewJob(queue', queue)
    BY <1>2, <1>3 DEF NoNewJob
  <1>6. TypeOK'
    BY <1>1, <1>3, <1>4 DEF OAuthInv, TypeOK, Fit, Status
  <1>7. Untouched'
    BY <1>1, <1>2, <1>4 DEF OAuthInv, TypeOK, Untouched
  <1>8. FromActive'
    BY <1>3 DEF FromActive, Fit
  <1>9. Traded'
    BY <1>1, <1>2, <1>3, <1>4, <1>5, TradedStays DEF OAuthInv, TypeOK
  <1> QED BY <1>1, <1>6, <1>7, <1>8, <1>9 DEF OAuthInv, Together, WriteKeeps

\* A write that ends, one way or the other: memory becomes what was being
\* written, or stays.
LEMMA EndKeeps ==
    ASSUME OAuthInv, EndWrite
    PROVE  OAuthInv'
  <1> DEFINE job == writing.job
  <1>1. PICK ok \in BOOLEAN, mem \in {accounts, writing.next} :
            /\ accounts' = mem /\ file' = mem
            /\ Follow(job, ok, mem)
    BY DEF EndWrite, Written, WrittenInDoubt, MemoryFollows, NotWritten, OAuthInv, Together
  <1>2. /\ writing # None /\ writing' = None
        /\ UNCHANGED <<overdue, asking, closed, issued, made, calls>>
    BY DEF EndWrite, Written, WrittenInDoubt, NotWritten
  <1>3. writing \in Write
    BY <1>2 DEF OAuthInv, TypeOK
  <1>4. job \in Job /\ writing.next \in Accounts /\ mem \in Accounts
    BY <1>3 DEF Write, OAuthInv, TypeOK
  <1>5. job.of \in Session /\ job.kind \in {"connect", "refresh", "record", "disconnect"}
    BY <1>4 DEF Job
  <1>6. \A a \in Session :
            /\ accounts[a] # None => mem[a] # None
            /\ status[a] \in {"unused", "starting", "pending", "exchanging"} => mem[a] = None
            /\ status[a] = "saving" => job.kind = "connect" /\ job.of = a
    BY <1>2 DEF OAuthInv, WriteKeeps, Untouched
  <1> HIDE DEF job
  <1>7. /\ Fit(queue') /\ NoNewJob(queue', queue)
        /\ refreshes' \in [Session -> {None} \cup Refresh]
        /\ \A x \in Session : refreshes'[x] # None => refreshes'[x].base.state = "active"
    <2>1. CASE \/ job.kind = "connect" \/ job.kind = "record" \/ job.kind = "disconnect"
               \/ job.kind = "refresh" /\ ok
      <3>1. /\ queue' = queue
            /\ \/ refreshes' = refreshes
               \/ refreshes' = [refreshes EXCEPT ![job.of] = None]
        BY <1>1, <2>1 DEF Follow
      <3> QED BY <3>1, QueueFit DEF OAuthInv, TypeOK, FromActive, NoNewJob
    <2>2. CASE job.kind = "refresh" /\ ~ok
      <3>1. RefreshThrew(job.of, mem, queue)
        BY <1>1, <2>2 DEF Follow
      <3> QED BY <1>5, <3>1, QueueFit, ThrewFits
    <2> QED BY <1>5, <2>1, <2>2
  <1>8. /\ saved' = saved \/ saved' = saved \cup {job.of}
        /\ \/ status' = status /\ (job.kind = "connect" => status[job.of] # "saving")
           \/ /\ status[job.of] = "saving"
              /\ \E st \in {"connected", "error"} : status' = [status EXCEPT ![job.of] = st]
    <2>1. CASE job.kind = "connect"
      <3>1. status[job.of] \in {"saving", "gone"}
        BY <1>2, <2>1 DEF OAuthInv, Traded, job
      <3> QED BY <1>1, <2>1, <3>1 DEF Follow, Finish, Failing, IsPending, Underway
    <2>2. CASE job.kind # "connect"
      BY <1>1, <1>5, <2>2 DEF Follow
    <2> QED BY <2>1, <2>2
  <1>9. TypeOK'
    BY <1>1, <1>2, <1>4, <1>5, <1>7, <1>8 DEF OAuthInv, TypeOK, Fit, Status
  <1>10. Untouched'
    BY <1>1, <1>2, <1>5, <1>6, <1>8 DEF OAuthInv, TypeOK, Untouched
  <1>11. FromActive'
    BY <1>7 DEF FromActive, Fit
  <1>12. Traded'
    BY <1>1, <1>2, <1>5, <1>6, <1>7, <1>8, TradedStays DEF OAuthInv, TypeOK
  <1> QED BY <1>1, <1>2, <1>9, <1>10, <1>11, <1>12 DEF OAuthInv, Together, WriteKeeps

LEMMA CloseKeeps ==
    ASSUME OAuthInv, Close
    PROVE  OAuthInv'
  <1>1. /\ UNCHANGED <<accounts, file, made, saved, overdue, asking, queue, writing,
                       issued, calls>>
        /\ closed' = TRUE
        /\ \A s \in Session : status'[s] = IF status[s] = "unused" THEN "unused" ELSE "gone"
        /\ status' \in [Session -> Status]
    BY DEF Close, SessionsGone, accountVars, Status
  <1>2. /\ refreshes' \in [Session -> {None} \cup Refresh]
        /\ \A x \in Session : refreshes'[x] # None => refreshes'[x].base.state = "active"
    <2>1. \A a \in Session : refreshes[a] # None =>
              /\ Aborted(refreshes[a]) \in Refresh
              /\ Aborted(refreshes[a]).base = refreshes[a].base
      BY DEF OAuthInv, TypeOK, Aborted, Refresh
    <2>2. refreshes' = [a \in Session |->
              IF refreshes[a] = None THEN None ELSE Aborted(refreshes[a])]
      BY DEF Close
    <2> QED BY <2>1, <2>2 DEF OAuthInv, TypeOK, FromActive
  <1>3. TypeOK'
    BY <1>1, <1>2 DEF OAuthInv, TypeOK
  <1>4. Untouched'
    BY <1>1 DEF OAuthInv, TypeOK, Untouched
  <1>5. Traded'
    <2>1. Fit(queue') /\ NoNewJob(queue', queue)
      BY <1>1, QueueFit DEF NoNewJob
    <2> QED BY <1>1, <2>1, TradedStays
  <1> QED BY <1>1, <1>2, <1>3, <1>4, <1>5 DEF OAuthInv, Together, FromActive, WriteKeeps

\* A restart loads the old accounts or those that were being written.
LEMMA RestartKeeps ==
    ASSUME OAuthInv, Restart
    PROVE  OAuthInv'
  <1>1. /\ accounts' = file' /\ writing' = None /\ queue' = <<>>
        /\ saved' = {} /\ overdue' = {} /\ asking' = {} /\ closed' = FALSE
        /\ refreshes' = [a \in Session |-> None]
        /\ UNCHANGED <<made, issued, calls>>
        /\ \A s \in Session : status'[s] = IF status[s] = "unused" THEN "unused" ELSE "gone"
        /\ status' \in [Session -> Status]
        /\ accounts' = accounts \/ (writing # None /\ accounts' = writing.next)
    BY DEF Restart, SessionsGone, Status, OAuthInv, Together
  <1>2. writing # None => writing.next \in Accounts
    BY DEF OAuthInv, TypeOK, Write
  <1>3. queue' \in Seq(Job)
    BY <1>1
  <1>4. TypeOK'
    BY <1>1, <1>2, <1>3 DEF OAuthInv, TypeOK
  <1>5. Untouched'
    BY <1>1 DEF OAuthInv, TypeOK, Untouched
  <1> QED BY <1>1, <1>4, <1>5 DEF OAuthInv, Together, FromActive, WriteKeeps, Traded,
                                  OneConnect

LEMMA OAuthStep == OAuthInv /\ [Next]_oauthVars => OAuthInv'
  <1> SUFFICES ASSUME OAuthInv, [Next]_oauthVars PROVE OAuthInv'
    OBVIOUS
  <1>1. CASE \E s \in Session : SessionStep(s)
    BY <1>1, SessionKeeps
  <1>2. CASE \E a \in Session : AccountStep(a)
    BY <1>2, AccountKeeps
  <1>3. CASE BeginWrite
    BY <1>3, BeginKeeps
  <1>4. CASE RefuseWrite
    BY <1>4, RefuseKeeps
  <1>5. CASE EndWrite
    BY <1>5, EndKeeps
  <1>6. CASE Close
    BY <1>6, CloseKeeps
  <1>7. CASE Restart
    BY <1>7, RestartKeeps
  <1>8. CASE UNCHANGED oauthVars
    BY <1>8 DEF oauthVars, OAuthInv, TypeOK, Together, Untouched, FromActive, WriteKeeps,
                Traded, OneConnect
  <1> QED BY <1>1, <1>2, <1>3, <1>4, <1>5, <1>6, <1>7, <1>8 DEF Next, WriteStep

LEMMA OAuthInvariant == Spec => []OAuthInv
  BY OAuthInit, OAuthStep, PTL DEF Spec

\* What memory becomes: itself, or what was being written.
LEMMA AccountsMove ==
    ASSUME OAuthInv, Next
    PROVE  accounts' = accounts \/ (writing # None /\ accounts' = writing.next)
  BY DEF Next, SessionStep, Start, Abandoned, Begun, Cancel, Exchange, Denied, Exchanged,
         AnsweredLate, Overdue, Expire, Refused, AccountStep, RefreshAsked, Fetched, FetchFailed, Disconnect, WriteStep,
         BeginWrite, RefuseWrite, EndWrite, Written, WrittenInDoubt, MemoryFollows,
         NotWritten, Close, Restart, accountVars, OAuthInv, Together

-----------------------------------------------------------------------------
(* What ended sessions say.                                                *)

Waiting == {"unused", "starting", "pending", "exchanging"}

\* A session that was given up, or that failed and shows no account.
Fruitless(s) ==
    \/ status[s] \in {"cancelled", "expired"}
    \/ status[s] = "error" /\ s \notin saved

\* A write gives its account something; what ended sessions say is true.
Truthful ==
    /\ writing # None => writing.next[writing.job.of] # None
    /\ \A s \in Session :
          /\ status[s] = "connected" => s \in saved /\ accounts[s] # None
          /\ Fruitless(s) => accounts[s] = None /\ (writing # None => writing.next[s] = None)

\* A session without an outcome moves, or one that was given up is found past its
\* deadline.
LEMMA SessionMoves ==
    ASSUME OAuthInv, NEW s \in Session, SessionStep(s)
    PROVE  /\ UNCHANGED <<accounts, file, saved, writing>>
           /\ \/ status' = status
              \/ /\ status[s] \in Waiting
                 /\ \E st \in Status \ {"unused", "saving", "connected", "gone"} :
                        status' = [status EXCEPT ![s] = st]
              \/ /\ status[s] \in {"cancelled", "expired"} /\ PastDeadline(s)
                 /\ status' = [status EXCEPT ![s] = "expired"]
  <1>1. /\ UNCHANGED <<accounts, file, saved, writing>>
    BY DEF SessionStep, Start, Abandoned, Begun, Cancel, Exchange, Denied, Exchanged,
           AnsweredLate, Overdue, Expire, accountVars
  <1>2. status' = status \/ \E st \in Status \ {"unused", "saving", "connected", "gone"} :
                                status' = [status EXCEPT ![s] = st]
    BY DEF SessionStep, Start, Abandoned, Begun, Cancel, Exchange, Denied, Exchanged,
           AnsweredLate, Overdue, Expire, Refused, Finish, Status
  <1>3. \/ status' = status \/ status[s] \in Waiting
        \/ /\ status[s] \in {"cancelled", "expired"} /\ PastDeadline(s)
           /\ status' = [status EXCEPT ![s] = "expired"]
    <2>1. CASE \/ Start(s) \/ Abandoned(s) \/ Begun(s) \/ Exchange(s) \/ Denied(s)
               \/ Exchanged(s) \/ Overdue(s)
      BY <2>1 DEF Start, Abandoned, Begun, Exchange, Denied, Exchanged, Overdue, Waiting
    <2>2. CASE Cancel(s) \/ Expire(s)
      BY <2>2 DEF Cancel, Expire, Lapsed, IsPending, Underway, Waiting
    <2>3. CASE AnsweredLate(s)
      <3>1. status[s] \in AskingStatus /\ ~IsPending(s)
        BY <2>3 DEF AnsweredLate, OAuthInv, Traded
      <3>2. status' = status \/ (PastDeadline(s) /\ Finish(s, "expired"))
        BY <2>3 DEF AnsweredLate, Refused
      <3> QED BY <3>1, <3>2 DEF AskingStatus, IsPending, Underway, Finish, PastDeadline
    <2> QED BY <2>1, <2>2, <2>3 DEF SessionStep
  <1> QED BY <1>1, <1>2, <1>3

\* The job whose write begins: of a session that has exchanged its code and has
\* no account, or of one that has an account, the one it began with.
LEMMA JobBegins ==
    ASSUME OAuthInv, BeginWrite
    PROVE  LET job == Head(queue)
           IN  /\ job \in Job /\ job.of \in Session
               /\ job.kind \in {"connect", "refresh", "record", "disconnect"}
               /\ UNCHANGED <<accounts, file, saved, issued, refreshes>>
               /\ queue # <<>> /\ queue' = Tail(queue)
               /\ writing' = [job |-> job, next |-> Replaced(job)] /\ writing' # None
               /\ Rebuilt(job) \in Account
               /\ \A a \in Session :
                     Replaced(job)[a] = IF a = job.of THEN Rebuilt(job) ELSE accounts[a]
               /\ job.kind \in {"refresh", "record"} => accounts[job.of] = job.base
               /\ job.kind = "connect" => status[job.of] = "exchanging" /\ accounts[job.of] = None
               /\ job.kind # "connect" => accounts[job.of] # None
               /\ status' = IF job.kind = "connect" THEN [status EXCEPT ![job.of] = "saving"]
                                                    ELSE status
  <1> DEFINE job == Head(queue)
  <1>1. /\ queue # <<>> /\ writing = None /\ queue' = Tail(queue)
        /\ UNCHANGED <<accounts, file, saved, issued, refreshes>>
        /\ writing' = [job |-> job, next |-> Replaced(job)]
        /\ job.kind = "connect" => Pending(job.of)
        /\ job.kind \in {"refresh", "record"} => accounts[job.of] = job.base
        /\ status' = IF job.kind = "connect" THEN [status EXCEPT ![job.of] = "saving"]
                                             ELSE status
    BY DEF BeginWrite, StillPending, RefreshValid, StillCurrent, Finish
  <1>2. /\ job \in Job /\ Fit(queue) /\ job.of \in Session
        /\ job.kind \in {"refresh", "record"} =>
              job.base \in Account /\ job.base.state = "active"
        /\ job.kind \in {"connect", "refresh", "record", "disconnect"}
    BY <1>1, QueueFit, FitTail DEF Job
  <1>3. /\ Rebuilt(job) \in Account /\ Replaced(job) \in Accounts
        /\ \A a \in Session :
              Replaced(job)[a] = IF a = job.of THEN Rebuilt(job) ELSE accounts[a]
    BY <1>2, RebuiltAccount
  <1>4. job = queue[1] /\ 1 \in DOMAIN queue
    BY <1>1, <1>2, HeadTail DEF Fit
  <1> HIDE DEF job
  <1>5. writing' # None
    BY <1>1, <1>2, <1>3, OAuthSentinelAssumption DEF Write
  <1>6. job.kind = "connect" => status[job.of] = "exchanging" /\ accounts[job.of] = None
    <2>1. job.kind = "connect" =>
              /\ status[job.of] \in {"starting", "pending", "exchanging", "saving"}
              /\ status[job.of] \in QueuedStatus
      BY <1>1, <1>4 DEF OAuthInv, Traded, Pending, IsPending, Underway
    <2> QED BY <1>1, <1>2, <2>1 DEF OAuthInv, Untouched, AskingStatus, QueuedStatus
  <1>7. job.kind # "connect" => accounts[job.of] # None
    BY <1>1, <1>2, <1>4, OAuthSentinelAssumption DEF OAuthInv, Traded
  <1> QED BY <1>1, <1>2, <1>3, <1>5, <1>6, <1>7 DEF job

\* How a write ends.
LEMMA WriteEnds ==
    ASSUME OAuthInv, Truthful, EndWrite
    PROVE  LET of == writing.job.of
           IN  /\ of \in Session /\ writing # None /\ writing' = None /\ issued' = issued
               /\ \E ok \in BOOLEAN, mem \in {accounts, writing.next} :
                     /\ accounts' = mem /\ (ok => mem = writing.next)
                     /\ \/ /\ status' = status /\ (saved' = saved \/ saved' = saved \cup {of})
                           /\ writing.job.kind = "connect" => status[of] = "gone"
                        \/ /\ status[of] = "saving"
                           /\ status' = [status EXCEPT ![of] = IF ok THEN "connected" ELSE "error"]
                           /\ saved' = IF mem[of] # None THEN saved \cup {of} ELSE saved
  <1> DEFINE job == writing.job
  <1>1. PICK ok \in BOOLEAN, mem \in {accounts, writing.next} :
            /\ accounts' = mem /\ (ok => mem = writing.next)
            /\ Follow(job, ok, mem)
    BY DEF EndWrite, Written, WrittenInDoubt, MemoryFollows, NotWritten
  <1>2. /\ writing # None /\ writing' = None /\ issued' = issued
    BY DEF EndWrite, Written, WrittenInDoubt, NotWritten
  <1>3. job \in Job
    BY <1>2 DEF OAuthInv, TypeOK, Write
  <1>4. job.of \in Session /\ job.kind \in {"connect", "refresh", "record", "disconnect"}
    BY <1>3 DEF Job
  <1>5. job.kind = "connect" => status[job.of] \in {"saving", "gone"}
    BY <1>2 DEF OAuthInv, Traded
  <1> HIDE DEF job
  <1>6. \/ /\ status' = status /\ (saved' = saved \/ saved' = saved \cup {job.of})
           /\ job.kind = "connect" => status[job.of] = "gone"
        \/ /\ status[job.of] = "saving"
           /\ status' = [status EXCEPT ![job.of] = IF ok THEN "connected" ELSE "error"]
           /\ saved' = IF mem[job.of] # None THEN saved \cup {job.of} ELSE saved
    <2>1. CASE job.kind = "connect"
      BY <1>1, <1>5, <2>1 DEF Follow, Finish, Failing, IsPending, Underway, Shown
    <2>2. CASE job.kind # "connect"
      BY <1>1, <1>4, <2>2 DEF Follow
    <2> QED BY <2>1, <2>2
  <1> QED BY <1>1, <1>2, <1>4, <1>6 DEF job

\* What the write queue finds past its deadline.
LEMMA QueuedMayLapse ==
    ASSUME OAuthInv, queue # <<>>, Head(queue).kind = "connect", PastDeadline(Head(queue).of)
    PROVE  status[Head(queue).of] \in {"exchanging", "cancelled", "expired"}
  <1>1. Head(queue) = queue[1] /\ 1 \in DOMAIN queue
    BY QueueFit, HeadTail DEF Fit
  <1> QED BY <1>1 DEF OAuthInv, Traded, AskingStatus, QueuedStatus, PastDeadline

LEMMA TruthfulStep == OAuthInv /\ Truthful /\ [Next]_oauthVars => Truthful'
  <1> SUFFICES ASSUME OAuthInv, Truthful, [Next]_oauthVars PROVE Truthful'
    OBVIOUS
  <1>0. status \in [Session -> Status]
    BY DEF OAuthInv, TypeOK
  <1>1. ASSUME NEW s \in Session, SessionStep(s) PROVE Truthful'
    <2>1. /\ UNCHANGED <<accounts, saved, writing>>
          /\ \/ status' = status
             \/ /\ status[s] \in Waiting
                /\ \E st \in Status \ {"unused", "saving", "connected", "gone"} :
                       status' = [status EXCEPT ![s] = st]
             \/ /\ status[s] \in {"cancelled", "expired"}
                /\ status' = [status EXCEPT ![s] = "expired"]
      BY <1>1, SessionMoves
    <2>2. status[s] \in Waiting => accounts[s] = None /\ (writing # None => writing.next[s] = None)
      BY DEF OAuthInv, Untouched, Waiting
    <2>3. CASE status' = status
      BY <2>1, <2>3 DEF Truthful, Fruitless
    <2>4. ASSUME status[s] \in Waiting,
                 NEW st \in Status \ {"unused", "saving", "connected", "gone"},
                 status' = [status EXCEPT ![s] = st]
          PROVE  Truthful'
      <3>1. status'[s] = st /\ \A x \in Session : x # s => status'[x] = status[x]
        BY <1>0, <2>4
      <3>3. \A x \in Session : x # s /\ Fruitless(x)' => Fruitless(x)
        BY <2>1, <3>1 DEF Fruitless
      <3> QED BY <2>1, <2>2, <2>4, <3>1, <3>3 DEF Truthful
    <2>5. CASE /\ status[s] \in {"cancelled", "expired"}
               /\ status' = [status EXCEPT ![s] = "expired"]
      BY <1>0, <2>1, <2>5 DEF Truthful, Fruitless
    <2> QED BY <2>1, <2>3, <2>4, <2>5
  <1>2. ASSUME NEW a \in Session, AccountStep(a) PROVE Truthful'
    <2>1. UNCHANGED <<accounts, saved, writing, status>>
      BY <1>2 DEF AccountStep, RefreshAsked, Fetched, FetchFailed, Disconnect, accountVars,
                  sessionVars
    <2> QED BY <2>1 DEF Truthful, Fruitless
  <1>3. CASE BeginWrite
    <2> DEFINE job == Head(queue)
    <2>1. /\ job.of \in Session
          /\ UNCHANGED <<accounts, file, saved>>
          /\ writing' = [job |-> job, next |-> Replaced(job)] /\ writing' # None
          /\ Rebuilt(job) \in Account
          /\ \A a \in Session :
                Replaced(job)[a] = IF a = job.of THEN Rebuilt(job) ELSE accounts[a]
          /\ job.kind = "connect" => status[job.of] = "exchanging"
          /\ job.kind # "connect" => accounts[job.of] # None
          /\ status' = IF job.kind = "connect" THEN [status EXCEPT ![job.of] = "saving"]
                                               ELSE status
      BY <1>3, JobBegins
    <2> HIDE DEF job
    <2>2. writing'.job = job /\ writing'.next = Replaced(job) /\ Rebuilt(job) # None
      BY <2>1, OAuthSentinelAssumption
    <2>3. \A s \in Session : Fruitless(s)' => Fruitless(s) /\ s # job.of
      BY <1>0, <2>1 DEF Truthful, Fruitless
    <2>4. \A s \in Session : status'[s] = "connected" => status[s] = "connected"
      BY <1>0, <2>1
    <2>5. job.kind = "connect" => status'[job.of] = "saving"
      BY <1>0, <2>1
    <2> QED BY <2>1, <2>2, <2>3, <2>4, <2>5 DEF Truthful
  <1>4. CASE RefuseWrite
    <2> DEFINE job == Head(queue)
    <2>1. writing = None /\ UNCHANGED <<accounts, saved, writing>> /\ queue # <<>>
      BY <1>4 DEF RefuseWrite, accountVars
    <2>2. job \in Job
      BY <2>1, QueueFit, FitTail
    <2>3. job.of \in Session /\ job.kind \in {"connect", "refresh", "record", "disconnect"}
      BY <2>2 DEF Job
    <2>4. \/ status' = status
          \/ /\ job.kind = "connect" /\ PastDeadline(job.of)
             /\ status' = [status EXCEPT ![job.of] = "expired"]
      BY <1>4, <2>3 DEF RefuseWrite, Refused, Finish
    \* What is found past its deadline is under way, or was given up before.
    <2>5. job.kind = "connect" /\ PastDeadline(job.of) =>
              status[job.of] \in {"exchanging", "cancelled", "expired"}
      BY <2>1, QueuedMayLapse DEF job
    <2> HIDE DEF job
    <2>6. job.kind = "connect" /\ PastDeadline(job.of) => accounts[job.of] = None
      BY <2>3, <2>5 DEF OAuthInv, Untouched, Truthful, Fruitless
    <2> QED BY <1>0, <2>1, <2>3, <2>4, <2>6 DEF Truthful, Fruitless
  <1>5. CASE EndWrite
    <2> DEFINE of == writing.job.of
    <2>1. of \in Session /\ writing # None /\ writing' = None
      BY <1>5, WriteEnds
    <2>2. PICK ok \in BOOLEAN, mem \in {accounts, writing.next} :
              /\ accounts' = mem /\ (ok => mem = writing.next)
              /\ \/ /\ status' = status /\ (saved' = saved \/ saved' = saved \cup {of})
                    /\ writing.job.kind = "connect" => status[of] = "gone"
                 \/ /\ status[of] = "saving"
                    /\ status' = [status EXCEPT ![of] = IF ok THEN "connected" ELSE "error"]
                    /\ saved' = IF mem[of] # None THEN saved \cup {of} ELSE saved
      BY <1>5, WriteEnds
    <2>3. \A s \in Session : /\ accounts[s] # None => mem[s] # None
                             /\ Fruitless(s) => mem[s] = None
      BY <2>1 DEF OAuthInv, WriteKeeps, Truthful
    <2>4. writing.next[of] # None
      BY <2>1 DEF Truthful
    <2> HIDE DEF of
    <2>5. ASSUME NEW s \in Session, status'[s] = "connected"
          PROVE  s \in saved' /\ accounts'[s] # None
      BY <1>0, <2>1, <2>2, <2>3, <2>4, <2>5 DEF Truthful
    <2>6. ASSUME NEW s \in Session, Fruitless(s)' PROVE accounts'[s] = None
      BY <1>0, <2>1, <2>2, <2>3, <2>6 DEF Fruitless
    <2> QED BY <2>1, <2>5, <2>6 DEF Truthful
  <1>6. CASE Close
    <2>1. /\ UNCHANGED <<accounts, saved, writing>>
          /\ \A s \in Session : status'[s] = IF status[s] = "unused" THEN "unused" ELSE "gone"
      BY <1>6 DEF Close, SessionsGone, accountVars
    <2>2. writing # None => writing.job.of \in Session
      BY DEF OAuthInv, TypeOK, Write, Job
    <2> QED BY <2>1, <2>2 DEF Truthful, Fruitless
  <1>7. CASE Restart
    <2>1. /\ writing' = None
          /\ \A s \in Session : status'[s] = IF status[s] = "unused" THEN "unused" ELSE "gone"
      BY <1>7 DEF Restart, SessionsGone
    <2> QED BY <2>1 DEF Truthful, Fruitless
  <1>8. CASE UNCHANGED oauthVars
    BY <1>8 DEF oauthVars, Truthful, Fruitless
  <1> QED BY <1>1, <1>2, <1>3, <1>4, <1>5, <1>6, <1>7, <1>8 DEF Next, WriteStep

LEMMA TruthfulInvariant == Spec => [](OAuthInv /\ Truthful)
  <1>1. Init => Truthful
    BY DEF Init, Truthful, Fruitless
  <1> QED BY <1>1, OAuthInit, OAuthStep, TruthfulStep, PTL DEF Spec

-----------------------------------------------------------------------------
(* The order of tokens.                                                    *)

\* Jobs with tokens that n admits, none of them older than the one it replaces.
Ordered(q, n) ==
    \A i \in DOMAIN q :
        /\ q[i].token <= n
        /\ q[i].kind \in {"refresh", "record"} => q[i].base.token <= q[i].token

\* A token is as new as the provider's last or older; whoever wants to replace
\* one, in the queue or in a file being written, has one that is not older.
TokensInOrder ==
    /\ \A a \in Session :
          /\ accounts[a] # None => accounts[a].token <= issued
          /\ refreshes[a] # None => refreshes[a].base.token <= issued
    /\ Ordered(queue, issued)
    /\ writing # None =>
          \A a \in Session : writing.next[a] # None =>
              /\ writing.next[a].token <= issued
              /\ accounts[a] # None =>
                    \/ writing.next[a].state = "disconnected"
                    \/ writing.next[a].token >= accounts[a].token

LEMMA OrderedTail ==
    ASSUME NEW q, Fit(q), q # <<>>, NEW n, Ordered(q, n)
    PROVE  /\ Ordered(Tail(q), n) /\ Head(q).token <= n
           /\ Head(q).kind \in {"refresh", "record"} => Head(q).base.token <= Head(q).token
  BY HeadTail DEF Fit, Ordered

LEMMA OrderedAppend ==
    ASSUME NEW q, Fit(q), NEW n \in Nat, NEW m \in Nat, n <= m, Ordered(q, n),
           NEW j \in Job, j.token <= m,
           j.kind \in {"refresh", "record"} => j.base.token <= j.token
    PROVE  Ordered(Append(q, j), m)
  <1>1. \A i \in DOMAIN q : q[i] \in Job /\ q[i].token \in Nat
    <2>1. \A i \in DOMAIN q : q[i] \in Job
      BY DEF Fit
    <2> QED BY <2>1 DEF Job
  <1>2. \A i \in DOMAIN q : q[i].token <= m
    BY <1>1 DEF Ordered
  <1> QED BY <1>2, Appended DEF Fit, Ordered

\* The catch of a refresh records the token that the refresh began with.
LEMMA ThrewOrdered ==
    ASSUME OAuthInv, TokensInOrder, NEW a \in Session, NEW mem,
           NEW rest, Fit(rest), Ordered(rest, issued), RefreshThrew(a, mem, rest)
    PROVE  /\ Ordered(queue', issued)
           /\ \A x \in Session : refreshes'[x] # None => refreshes'[x].base.token <= issued
  <1>1. /\ refreshes[a] # None =>
              /\ refreshes[a] \in Refresh /\ refreshes[a].base \in Account
              /\ refreshes[a].base.token \in Nat /\ refreshes[a].base.token <= issued
        /\ refreshes \in [Session -> {None} \cup Refresh]
        /\ issued \in Nat
        /\ \A x \in Session : refreshes[x] # None => refreshes[x].base.token <= issued
    BY DEF OAuthInv, TypeOK, TokensInOrder, Refresh, Account
  <1>2. CASE refreshes' = [refreshes EXCEPT ![a] = None] /\ queue' = rest
    BY <1>1, <1>2
  <1>3. CASE /\ refreshes[a] # None /\ Queued(a)
             /\ \E reauth \in BOOLEAN :
                  queue' = Append(rest,
                     [kind |-> "record", of |-> a, token |-> refreshes[a].base.token,
                      base |-> refreshes[a].base, reauth |-> reauth])
    <2>1. PICK reauth \in BOOLEAN :
              queue' = Append(rest,
                 [kind |-> "record", of |-> a, token |-> refreshes[a].base.token,
                  base |-> refreshes[a].base, reauth |-> reauth])
      BY <1>3
    <2> DEFINE job == [kind |-> "record", of |-> a, token |-> refreshes[a].base.token,
                       base |-> refreshes[a].base, reauth |-> reauth]
    <2>2. job \in Job /\ job.token <= issued /\ job.base.token <= job.token
      BY <1>1, <1>3 DEF Job
    <2> HIDE DEF job
    <2>3. queue' = Append(rest, job)
      BY <2>1 DEF job
    <2>4. Ordered(queue', issued)
      BY <1>1, <2>2, <2>3, OrderedAppend
    <2>5. \A x \in Session : refreshes'[x] # None => refreshes'[x].base.token <= issued
      BY <1>1, <1>3 DEF Queued, Refresh
    <2> QED BY <2>4, <2>5
  <1> QED BY <1>2, <1>3 DEF RefreshThrew

\* More tokens are issued while the accounts stay.
LEMMA TokensIssued ==
    ASSUME OAuthInv, TokensInOrder, UNCHANGED <<accounts, writing>>,
           issued' \in Nat, issued' >= issued, Ordered(queue', issued'),
           \A x \in Session : refreshes'[x] # None => refreshes'[x].base.token <= issued'
    PROVE  TokensInOrder'
  <1>1. issued \in Nat /\ \A a \in Session : accounts[a] # None => accounts[a].token \in Nat
    BY DEF OAuthInv, TypeOK, Accounts, Account
  <1>2. writing # None => \A a \in Session : writing.next[a] # None => writing.next[a].token \in Nat
    BY DEF OAuthInv, TypeOK, Write, Accounts, Account
  <1> QED BY <1>1, <1>2 DEF TokensInOrder, Ordered

LEMMA TokensStep == OAuthInv /\ Truthful /\ TokensInOrder /\ [Next]_oauthVars => TokensInOrder'
  <1> SUFFICES ASSUME OAuthInv, Truthful, TokensInOrder, [Next]_oauthVars PROVE TokensInOrder'
    OBVIOUS
  <1>0. /\ issued \in Nat /\ Ordered(queue, issued) /\ Fit(queue)
        /\ \A a \in Session : refreshes[a] # None =>
              /\ refreshes[a] \in Refresh /\ refreshes[a].base \in Account
              /\ refreshes[a].base.token \in Nat /\ refreshes[a].base.token <= issued
        /\ refreshes \in [Session -> {None} \cup Refresh]
    BY QueueFit DEF OAuthInv, TypeOK, TokensInOrder, Refresh, Account
  <1>1. ASSUME NEW s \in Session, SessionStep(s) PROVE TokensInOrder'
    <2>1. UNCHANGED <<accounts, writing, refreshes>>
      BY <1>1 DEF SessionStep, Start, Abandoned, Begun, Cancel, Exchange, Denied, Exchanged,
                  AnsweredLate, Overdue, Expire, Refused, accountVars
    <2>2. \/ UNCHANGED <<queue, issued>>
          \/ /\ issued' = issued + 1
             /\ queue' = Append(queue,
                     [kind |-> "connect", of |-> s, token |-> issued + 1,
                      base |-> None, reauth |-> FALSE])
      BY <1>1 DEF SessionStep, Start, Abandoned, Begun, Cancel, Exchange, Denied, Exchanged,
                  AnsweredLate, Overdue, Expire, Refused, accountVars
    <2>3. issued' \in Nat /\ issued' >= issued /\ Ordered(queue', issued')
      <3> DEFINE job == [kind |-> "connect", of |-> s, token |-> issued + 1,
                         base |-> None, reauth |-> FALSE]
      <3>1. /\ job \in Job /\ job.kind = "connect" /\ job.token = issued + 1
        BY <1>0 DEF Job
      <3> HIDE DEF job
      <3>2. Ordered(Append(queue, job), issued + 1)
        BY <1>0, <3>1, OrderedAppend
      <3> QED BY <1>0, <2>2, <3>2 DEF job, Ordered
    <2>4. \A x \in Session : refreshes'[x] # None => refreshes'[x].base.token <= issued'
      BY <1>0, <2>1, <2>3
    <2> QED BY <2>1, <2>3, <2>4, TokensIssued
  <1>2. ASSUME NEW a \in Session, AccountStep(a) PROVE TokensInOrder'
    <2>1. UNCHANGED <<accounts, writing>>
      BY <1>2 DEF AccountStep, RefreshAsked, Fetched, FetchFailed, Disconnect, accountVars
    <2>2. CASE RefreshAsked(a)
      <3> DEFINE r == [base |-> accounts[a], stage |-> "fetching", aborted |-> FALSE]
      <3>1. /\ r.base.token <= issued /\ refreshes' = [refreshes EXCEPT ![a] = r]
            /\ UNCHANGED <<queue, issued>>
        BY <2>2 DEF RefreshAsked, TokensInOrder
      <3> HIDE DEF r
      <3> QED BY <1>0, <2>1, <3>1, TokensIssued
    <2>3. CASE Fetched(a)
      <3> DEFINE job == [kind |-> "refresh", of |-> a, token |-> issued + 1,
                         base |-> refreshes[a].base, reauth |-> FALSE]
                 r == [refreshes[a] EXCEPT !.stage = "queued"]
      <3>1. refreshes[a] # None
        BY <2>3 DEF Fetched, Fetching
      <3>2. /\ job \in Job /\ job.token = issued + 1 /\ job.base.token <= job.token
            /\ r.base.token <= issued
        BY <1>0, <3>1 DEF Job, Refresh
      <3>3. /\ refreshes' = [refreshes EXCEPT ![a] = r] /\ queue' = Append(queue, job)
            /\ issued' = issued + 1
        BY <1>0, <2>3 DEF Fetched, Queued
      <3> HIDE DEF job, r
      <3>4. Ordered(queue', issued')
        BY <1>0, <3>2, <3>3, OrderedAppend
      <3>5. \A x \in Session : refreshes'[x] # None => refreshes'[x].base.token <= issued
        BY <1>0, <3>2, <3>3
      <3>6. \A x \in Session : refreshes'[x] # None => refreshes'[x].base.token \in Nat
        BY <1>2, AccountFits DEF Refresh, Account
      <3>7. \A x \in Session : refreshes'[x] # None => refreshes'[x].base.token <= issued'
        BY <1>0, <3>3, <3>5, <3>6
      <3> QED BY <1>0, <2>1, <3>3, <3>4, <3>7, TokensIssued
    <2>4. CASE FetchFailed(a)
      BY <1>0, <2>1, <2>4, ThrewOrdered, TokensIssued DEF FetchFailed
    <2>5. CASE Disconnect(a)
      <3> DEFINE job == [kind |-> "disconnect", of |-> a, token |-> 0, base |-> None,
                         reauth |-> FALSE]
      <3>1. job \in Job /\ job.kind = "disconnect" /\ job.token = 0
        BY DEF Job
      <3>2. /\ queue' = Append(queue, job) /\ issued' = issued
            /\ refreshes' = IF refreshes[a] = None THEN refreshes
                            ELSE [refreshes EXCEPT ![a] = Aborted(refreshes[a])]
        BY <1>0, <2>5 DEF Disconnect
      <3>3. refreshes[a] # None => Aborted(refreshes[a]).base = refreshes[a].base
        BY <1>0 DEF Aborted, Refresh
      <3> HIDE DEF job
      <3>4. Ordered(queue', issued)
        <4>1. job.token <= issued /\ job.kind \notin {"refresh", "record"}
          BY <1>0, <3>1
        <4>2. Ordered(Append(queue, job), issued)
          BY <1>0, <3>1, <4>1, OrderedAppend
        <4> QED BY <3>2, <4>2
      <3>5. \A x \in Session : refreshes'[x] # None => refreshes'[x].base.token <= issued
        BY <1>0, <3>2, <3>3
      <3> QED BY <1>0, <2>1, <3>2, <3>4, <3>5, TokensIssued
    <2> QED BY <1>2, <2>2, <2>3, <2>4, <2>5 DEF AccountStep
  <1>3. CASE BeginWrite
    <2> DEFINE job == Head(queue)
    <2>1. /\ job \in Job /\ job.of \in Session /\ queue # <<>> /\ queue' = Tail(queue)
          /\ job.kind \in {"connect", "refresh", "record", "disconnect"}
          /\ UNCHANGED <<accounts, issued, refreshes>>
          /\ writing' = [job |-> job, next |-> Replaced(job)] /\ writing' # None
          /\ Rebuilt(job) \in Account
          /\ \A a \in Session :
                Replaced(job)[a] = IF a = job.of THEN Rebuilt(job) ELSE accounts[a]
          /\ job.kind \in {"refresh", "record"} => accounts[job.of] = job.base
          /\ job.kind = "connect" => accounts[job.of] = None
      BY <1>3, JobBegins
    <2>2. /\ Ordered(queue', issued) /\ job.token <= issued
          /\ job.kind \in {"refresh", "record"} => job.base.token <= job.token
      BY <1>0, <2>1, OrderedTail
    <2> HIDE DEF job
    <2>3. writing'.next = Replaced(job)
      BY <2>1
    <2>4. /\ Rebuilt(job).token <= issued
          /\ accounts[job.of] # None =>
                Rebuilt(job).state = "disconnected" \/ Rebuilt(job).token >= accounts[job.of].token
      <3>1. job.token \in Nat
        BY <2>1 DEF Job
      <3>2. CASE job.kind = "disconnect"
        BY <1>0, <3>2 DEF Rebuilt
      <3>3. CASE job.kind \in {"refresh", "record"}
        <4>1. Rebuilt(job).token = job.token
          BY <3>3 DEF Rebuilt
        <4>2. accounts[job.of] # None => accounts[job.of].token \in Nat
          BY <2>1 DEF OAuthInv, TypeOK, Accounts, Account
        <4> QED BY <2>1, <2>2, <3>1, <3>3, <4>1, <4>2
      <3>4. CASE job.kind = "connect"
        <4>1. Rebuilt(job).token = job.token
          BY <3>4 DEF Rebuilt
        <4> QED BY <2>1, <2>2, <3>4, <4>1
      <3> QED BY <2>1, <3>2, <3>3, <3>4
    <2>5. \A a \in Session : accounts[a] # None =>
              accounts[a].token \in Nat /\ accounts[a].token <= issued
      BY DEF OAuthInv, TypeOK, Accounts, Account, TokensInOrder
    <2>6. \A a \in Session : Replaced(job)[a] # None =>
              /\ Replaced(job)[a].token <= issued
              /\ accounts[a] # None => \/ Replaced(job)[a].state = "disconnected"
                                       \/ Replaced(job)[a].token >= accounts[a].token
      BY <1>0, <2>1, <2>4, <2>5
    <2> QED BY <1>0, <2>1, <2>2, <2>3, <2>5, <2>6 DEF TokensInOrder
  <1>4. CASE RefuseWrite
    <2> DEFINE job == Head(queue)
               rest == Tail(queue)
    <2>1. queue # <<>> /\ UNCHANGED <<accounts, writing, issued>>
      BY <1>4 DEF RefuseWrite, accountVars
    <2>2. job \in Job /\ Fit(rest) /\ Ordered(rest, issued)
      BY <1>0, <2>1, FitTail, OrderedTail
    <2>3. job.of \in Session /\ job.kind \in {"connect", "refresh", "record", "disconnect"}
      BY <2>2 DEF Job
    <2>4. /\ Ordered(queue', issued)
          /\ \A x \in Session : refreshes'[x] # None => refreshes'[x].base.token <= issued
      <3>1. CASE job.kind = "refresh"
        <4>1. RefreshThrew(job.of, accounts, rest)
          BY <1>4, <3>1 DEF RefuseWrite
        <4> HIDE DEF job, rest
        <4> QED BY <2>2, <2>3, <4>1, ThrewOrdered
      <3>2. CASE job.kind # "refresh"
        <4>1. /\ queue' = rest
              /\ \/ refreshes' = refreshes
                 \/ refreshes' = [refreshes EXCEPT ![job.of] = None]
          BY <1>4, <2>3, <3>2 DEF RefuseWrite
        <4> QED BY <1>0, <2>2, <4>1
      <3> QED BY <3>1, <3>2
    <2> QED BY <1>0, <2>1, <2>4, TokensIssued
  <1>5. CASE EndWrite
    <2> DEFINE job == writing.job
    <2>1. job.of \in Session /\ writing # None /\ writing' = None /\ issued' = issued
      BY <1>5, WriteEnds
    <2>2. PICK ok \in BOOLEAN, mem \in {accounts, writing.next} :
              accounts' = mem /\ Follow(job, ok, mem)
      BY <1>5 DEF EndWrite, Written, WrittenInDoubt, MemoryFollows, NotWritten
    <2>3. \A a \in Session : mem[a] # None => mem[a].token <= issued
      BY <2>1 DEF TokensInOrder
    <2>4. job.kind \in {"connect", "refresh", "record", "disconnect"}
      BY <2>1 DEF OAuthInv, TypeOK, Write, Job
    <2> HIDE DEF job
    <2>5. /\ Ordered(queue', issued)
          /\ \A x \in Session : refreshes'[x] # None => refreshes'[x].base.token <= issued
      <3>1. CASE job.kind = "refresh" /\ ~ok
        <4>1. RefreshThrew(job.of, mem, queue)
          BY <2>2, <3>1 DEF Follow
        <4> QED BY <1>0, <2>1, <4>1, ThrewOrdered
      <3>2. CASE ~(job.kind = "refresh" /\ ~ok)
        <4>1. /\ queue' = queue
              /\ \/ refreshes' = refreshes
                 \/ refreshes' = [refreshes EXCEPT ![job.of] = None]
          BY <2>2, <2>4, <3>2 DEF Follow
        <4> QED BY <1>0, <4>1
      <3> QED BY <3>1, <3>2
    <2> QED BY <2>1, <2>2, <2>3, <2>5 DEF TokensInOrder
  <1>6. CASE Close
    <2>1. /\ UNCHANGED <<accounts, queue, writing, issued>>
          /\ refreshes' = [a \in Session |->
                IF refreshes[a] = None THEN None ELSE Aborted(refreshes[a])]
      BY <1>6 DEF Close, accountVars
    <2>2. \A a \in Session : refreshes[a] # None => Aborted(refreshes[a]).base = refreshes[a].base
      BY <1>0 DEF Aborted, Refresh
    <2>3. \A x \in Session : refreshes'[x] # None => refreshes'[x].base.token <= issued
      BY <1>0, <2>1, <2>2
    <2> QED BY <1>0, <2>1, <2>3, TokensIssued
  <1>7. CASE Restart
    <2>1. /\ writing' = None /\ issued' = issued /\ queue' = <<>>
          /\ refreshes' = [a \in Session |-> None]
          /\ accounts' = accounts \/ (writing # None /\ accounts' = writing.next)
      BY <1>7 DEF Restart, OAuthInv, Together
    <2> QED BY <2>1 DEF TokensInOrder, Ordered
  <1>8. CASE UNCHANGED oauthVars
    BY <1>8 DEF oauthVars, TokensInOrder, Ordered
  <1> QED BY <1>1, <1>2, <1>3, <1>4, <1>5, <1>6, <1>7, <1>8 DEF Next, WriteStep

LEMMA TokensInvariant == Spec => [](OAuthInv /\ Truthful /\ TokensInOrder)
  <1>1. Init => TokensInOrder
    BY DEF Init, TokensInOrder, Ordered
  <1> QED BY <1>1, TruthfulInvariant, TokensStep, PTL DEF Spec

-----------------------------------------------------------------------------
(* The theorems.                                                           *)

\* The state of the store is always well formed.
THEOREM OAuthTypeCorrect == Spec => []TypeOK
  BY OAuthInvariant, PTL DEF OAuthInv

\* Memory and the accounts file agree between writes, however writes end
\* (OAuthStore.mutate).
THEOREM MemoryIsTheFile == Spec => []AccountsMatchFile
  <1>1. OAuthInv => AccountsMatchFile
    BY DEF OAuthInv, Together, AccountsMatchFile
  <1> QED BY <1>1, OAuthInvariant, PTL

\* No step of OAuthStore gives a disconnected account its tokens back.
THEOREM DisconnectedForGood == Spec => DisconnectedStaysDisconnected
  <1>1. OAuthInv /\ [Next]_oauthVars =>
            [ \A a \in Session :
                accounts[a] # None /\ accounts[a].state = "disconnected" =>
                    accounts'[a] # None /\ accounts'[a].state = "disconnected" ]_oauthVars
    <2> SUFFICES ASSUME OAuthInv, Next, NEW a \in Session,
                        accounts[a] # None, accounts[a].state = "disconnected"
                 PROVE  accounts'[a] # None /\ accounts'[a].state = "disconnected"
      BY DEF oauthVars
    <2>1. accounts' = accounts \/ (writing # None /\ accounts' = writing.next)
      BY AccountsMove
    <2> QED BY <2>1 DEF OAuthInv, WriteKeeps
  <1> QED BY <1>1, OAuthInvariant, PTL DEF Spec, DisconnectedStaysDisconnected

\* A session that is over tells the truth about its account, in memory, in the
\* file and in a file being written (OAuthStore.saveSession, poll, complete).
THEOREM EndingsAreTrue == Spec => []EndedSessionsTellTheTruth
  <1>1. OAuthInv /\ Truthful => EndedSessionsTellTheTruth
    BY DEF OAuthInv, Together, Truthful, Fruitless, EndedSessionsTellTheTruth
  <1> QED BY <1>1, TruthfulInvariant, PTL

\* No late answer of the provider and no queued write changes how a session ended,
\* but that a cancelled one is found past its deadline and says so
\* (OAuthStore.assertPending).
THEOREM EndingsStand == Spec => EndedSessionsStayEnded
  <1>1. OAuthInv /\ Truthful /\ [Next]_oauthVars =>
            [ \A s \in Session :
                ~Underway(status[s]) /\ status[s] # "unused" =>
                    \/ status'[s] \in {status[s], "gone"}
                    \/ status[s] = "cancelled" /\ status'[s] = "expired" /\ PastDeadline(s)
            ]_oauthVars
    <2> SUFFICES ASSUME OAuthInv, Truthful, Next, NEW x \in Session,
                        ~Underway(status[x]), status[x] # "unused"
                 PROVE  \/ status'[x] \in {status[x], "gone"}
                        \/ /\ status[x] = "cancelled" /\ status'[x] = "expired"
                           /\ PastDeadline(x)
      BY DEF oauthVars
    <2>0. status \in [Session -> Status]
      BY DEF OAuthInv, TypeOK
    <2>1. ASSUME NEW s \in Session, SessionStep(s)
          PROVE  \/ status'[x] = status[x]
                 \/ /\ status[x] = "cancelled" /\ status'[x] = "expired"
                    /\ PastDeadline(x)
      BY <2>0, <2>1, SessionMoves DEF Waiting, Underway
    <2>2. ASSUME NEW a \in Session, AccountStep(a) PROVE status'[x] = status[x]
      BY <2>2 DEF AccountStep, RefreshAsked, Fetched, FetchFailed, Disconnect, sessionVars
    <2>3. CASE BeginWrite
      BY <2>0, <2>3, JobBegins DEF Underway
    <2>4. CASE RefuseWrite
      <3>1. queue # <<>>
        BY <2>4 DEF RefuseWrite
      <3>2. Head(queue).kind \in {"connect", "refresh", "record", "disconnect"}
        BY <3>1, QueueFit, FitTail DEF Job
      <3>3. \/ status' = status
            \/ /\ Head(queue).kind = "connect" /\ PastDeadline(Head(queue).of)
               /\ status' = [status EXCEPT ![Head(queue).of] = "expired"]
        BY <2>4, <3>2 DEF RefuseWrite, Refused, Finish
      <3> QED BY <2>0, <3>1, <3>3, QueuedMayLapse DEF Underway
    <2>5. CASE EndWrite
      <3>1. status' = status \/ \E st : /\ status[writing.job.of] = "saving"
                                        /\ status' = [status EXCEPT ![writing.job.of] = st]
        BY <2>5, WriteEnds
      <3> QED BY <2>0, <3>1 DEF Underway
    <2>6. CASE Close \/ Restart
      BY <2>6 DEF Close, Restart, SessionsGone
    <2> QED BY <2>1, <2>2, <2>3, <2>4, <2>5, <2>6 DEF Next, WriteStep
  <1> QED BY <1>1, TruthfulInvariant, PTL DEF Spec, EndedSessionsStayEnded

\* New tokens are not overwritten by old ones, whatever refreshes, failures,
\* restarts and writes in doubt come between.
THEOREM TokensAdvance == Spec => TokensNeverGoBack
  <1>1. OAuthInv /\ Truthful /\ TokensInOrder /\ [Next]_oauthVars =>
            [ \A a \in Session :
                accounts[a] # None =>
                    /\ accounts'[a] # None
                    /\ \/ accounts'[a].state = "disconnected"
                       \/ accounts'[a].token >= accounts[a].token ]_oauthVars
    <2> SUFFICES ASSUME OAuthInv, TokensInOrder, Next, NEW a \in Session, accounts[a] # None
                 PROVE  /\ accounts'[a] # None
                        /\ \/ accounts'[a].state = "disconnected"
                           \/ accounts'[a].token >= accounts[a].token
      BY DEF oauthVars
    <2>1. accounts' = accounts \/ (writing # None /\ accounts' = writing.next)
      BY AccountsMove
    <2>2. accounts[a].token \in Nat
      BY DEF OAuthInv, TypeOK, Accounts, Account
    <2> QED BY <2>1, <2>2 DEF OAuthInv, WriteKeeps, TokensInOrder
  <1> QED BY <1>1, TokensInvariant, PTL DEF Spec, TokensNeverGoBack
===========================================================================
