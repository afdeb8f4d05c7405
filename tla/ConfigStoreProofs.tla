------------------------- MODULE ConfigStoreProofs -------------------------
(***************************************************************************)
(* Proofs about ConfigStore, for any number of clients, edits, backups and *)
(* restarts.  Waiting says who waits for the queue; with it TypeOK is      *)
(* inductive.  The other invariants say what a mutation that is under way  *)
(* has established so far.                                                 *)
(***************************************************************************)
EXTENDS ConfigStore, FiniteSetTheorems, SequenceTheorems, TLAPS

\* The queue holds the clients with an edit to be run, each of them once,
\* and the mutation that runs is nobody's next one.
Waiting ==
    /\ \A i \in DOMAIN queue : asked[queue[i]] # Nothing
    /\ \A i, j \in DOMAIN queue : queue[i] = queue[j] => i = j
    /\ running # Nothing =>
         /\ asked[running.by] # Nothing
         /\ \A i \in DOMAIN queue : queue[i] # running.by

\* A backup that is being deleted was found in the directory.
RemoveFound == At("remove") => asked[running.by].backup \in Backup

\* A file is renamed into place only after its contents were synced.
FlushedFirst == At("replace") => running.flushed

TypeInv ==
    /\ TypeOK /\ Waiting /\ RemoveFound /\ FlushedFirst
    /\ EveryCrashLeavesAWholeFile

-----------------------------------------------------------------------------
(* The queue as a sequence.                                                *)

LEMMA HeadTail ==
    ASSUME NEW S, NEW q \in Seq(S), q # <<>>
    PROVE  /\ Head(q) \in S /\ Head(q) = q[1]
           /\ 1 \in DOMAIN q
           /\ Tail(q) \in Seq(S)
           /\ \A i \in DOMAIN Tail(q) : Tail(q)[i] = q[i + 1]
                                        /\ i + 1 \in DOMAIN q /\ i + 1 # 1 /\ i \in Nat
  OBVIOUS

LEMMA Appended ==
    ASSUME NEW S, NEW q \in Seq(S), NEW x \in S
    PROVE  /\ Append(q, x) \in Seq(S)
           /\ \A i \in DOMAIN Append(q, x) :
                 \/ i \in DOMAIN q /\ Append(q, x)[i] = q[i]
                 \/ i = Len(q) + 1 /\ Append(q, x)[i] = x
  OBVIOUS

\* What Refuse and Begin leave of the queue.
LEMMA DequeuedWaiting ==
    ASSUME TypeOK, Waiting, running = Nothing, queue # <<>>, queue' = Tail(queue)
    PROVE  /\ Head(queue) \in Client
           /\ asked[Head(queue)] \in Request
           /\ queue' \in Seq(Client)
           /\ \A i \in DOMAIN queue' : queue'[i] # Head(queue) /\ asked[queue'[i]] # Nothing
           /\ \A i, j \in DOMAIN queue' : queue'[i] = queue'[j] => i = j
  BY HeadTail DEF TypeOK, Waiting

-----------------------------------------------------------------------------
(* Types.                                                                  *)

\* The assignments that end a mutation.
LEMMA EndsTyped ==
    ASSUME TypeInv, running # Nothing, Settled(running.by), UNCHANGED queue
    PROVE  /\ asked' \in [Client -> {Nothing} \cup Request]
           /\ running' = Nothing
           /\ Waiting'
           /\ RemoveFound' /\ FlushedFirst'
  BY MutationSentinelAssumption
     DEF TypeInv, TypeOK, Waiting, RemoveFound, FlushedFirst, Settled, At, Mutation

\* The ones that go on to another call.
LEMMA GoesOnTyped ==
    ASSUME TypeInv, running # Nothing, NEW s \in Stage \ {"remove", "replace"}, GoTo(s),
           UNCHANGED clients
    PROVE  /\ running' \in Mutation
           /\ Waiting'
           /\ RemoveFound' /\ FlushedFirst'
  <1>1. running \in Mutation /\ running' \in Mutation
    BY DEF TypeInv, TypeOK, GoTo, Mutation
  <1>2. running'.by = running.by /\ running'.stage = s
    BY <1>1 DEF GoTo, Mutation
  <1>3. Waiting'
    BY <1>1, <1>2, MutationSentinelAssumption DEF TypeInv, Waiting, clients
  <1> QED BY <1>1, <1>2, <1>3 DEF RemoveFound, FlushedFirst, At

LEMMA MovedTyped ==
    ASSUME TypeInv, At("commitSync"), MoveInMemory
    PROVE  current' \in Configuration /\ revision' \in Revision
  <1>1. running.next \in Configuration
    BY DEF TypeInv, TypeOK, At, Mutation
  <1>2. revision \in Revision /\ revision.counter \in Nat
    BY DEF TypeInv, TypeOK, Revision
  <1>3. revision' = [revision EXCEPT !.counter = revision.counter + 1]
    BY DEF MoveInMemory
  <1>4. revision' \in Revision
    BY <1>2, <1>3 DEF Revision
  <1> QED BY <1>1, <1>4 DEF MoveInMemory

LEMMA BuiltTyped ==
    ASSUME TypeOK, NEW r \in Request,
           r.kind \in {"restore", "remove"} => r.backup \in backups
    PROVE  r.kind # "remove" => Built(r) \in Configuration
  <1>1. r.edit \in Edit /\ r.kind \in {"patch", "import", "restore", "remove"}
    BY DEF Request
  <1>2. r.kind = "restore" => r.backup.holds \in Configuration
    BY DEF TypeOK, Backup
  <1>3. current \in SUBSET Edit
    BY DEF TypeOK, Configuration
  <1> QED BY <1>1, <1>2, <1>3 DEF Built, Configuration

LEMMA TypeInit == Init => TypeInv
  <1> SUFFICES ASSUME Init PROVE TypeInv
    OBVIOUS
  <1>1. current \in Configuration
    BY StoreSentinelAssumption DEF Init, Loaded, Configuration
  <1>2. revision \in Revision
    BY DEF Init, Revision
  <1>3. TypeOK
    BY <1>1, <1>2 DEF Init, TypeOK, Configuration
  <1>4. EveryCrashLeavesAWholeFile
    BY StoreSentinelAssumption DEF Init, EveryCrashLeavesAWholeFile, Configuration
  <1> QED BY <1>3, <1>4 DEF Init, TypeInv, Waiting, RemoveFound, FlushedFirst, At

LEMMA TypeRead ==
    ASSUME TypeInv, NEW c \in Client, Read(c)
    PROVE  TypeInv'
  <1>1. TypeOK'
    BY DEF TypeInv, TypeOK, Read, memory, disk
  <1> QED BY <1>1 DEF TypeInv, Waiting, RemoveFound, FlushedFirst, EveryCrashLeavesAWholeFile,
                      Read, disk, At

LEMMA TypeAsk ==
    ASSUME TypeInv, NEW c \in Client,
           NEW kind \in {"patch", "import", "restore", "remove"},
           NEW rev \in Revision \cup {NoRevision}, NEW b \in Backup \cup {Nothing},
           Ask(c, kind, rev, b)
    PROVE  TypeInv'
  <1>1. PICK e \in Edit :
           /\ asked' = [asked EXCEPT ![c] =
                 [kind |-> kind, edit |-> e, rev |-> rev,
                  saw |-> held[c].saw, backup |-> b]]
           /\ used' = used \cup {e}
    BY DEF Ask
  <1>2. /\ asked[c] = Nothing
        /\ queue' = Append(queue, c)
        /\ UNCHANGED <<current, revision, held, running, file, olderFiles,
                       backups, unsettled, made, owed>>
    BY DEF Ask, memory, disk
  <1> DEFINE R == [kind |-> kind, edit |-> e, rev |-> rev,
                   saw |-> held[c].saw, backup |-> b]
  <1>3. R \in Request
    BY DEF TypeInv, TypeOK, Request
  <1> HIDE DEF R
  <1>4. asked' = [asked EXCEPT ![c] = R] /\ R # Nothing
    BY <1>1, <1>3, MutationSentinelAssumption DEF R
  <1>5. TypeOK'
    BY <1>1, <1>2, <1>3, <1>4, Appended DEF TypeInv, TypeOK
  <1>6. \A i \in DOMAIN queue : queue[i] # c /\ queue[i] \in Client
    BY <1>2 DEF TypeInv, TypeOK, Waiting
  <1>7. asked \in [Client -> {Nothing} \cup Request] /\ queue \in Seq(Client)
    BY DEF TypeInv, TypeOK
  <1>8. \A i \in DOMAIN queue' :
           \/ i \in DOMAIN queue /\ queue'[i] = queue[i]
           \/ i = Len(queue) + 1 /\ queue'[i] = c
    BY <1>2, <1>7, Appended
  <1>9. Waiting'
    <2>1. \A i \in DOMAIN queue' : asked'[queue'[i]] # Nothing
      BY <1>4, <1>6, <1>7, <1>8 DEF TypeInv, Waiting
    <2>2. \A i, j \in DOMAIN queue' : queue'[i] = queue'[j] => i = j
      BY <1>6, <1>8 DEF TypeInv, Waiting
    <2>3. running # Nothing => running.by # c /\ running.by \in Client
      BY <1>2 DEF TypeInv, TypeOK, Waiting, Mutation
    <2> QED BY <1>2, <1>4, <1>7, <1>8, <2>1, <2>2, <2>3 DEF TypeInv, Waiting
  <1>10. RemoveFound'
    BY <1>2, <1>4, <1>7 DEF TypeInv, TypeOK, Waiting, RemoveFound, At, Mutation
  <1> QED BY <1>2, <1>5, <1>9, <1>10
          DEF TypeInv, FlushedFirst, EveryCrashLeavesAWholeFile, At

LEMMA TypeRefuse ==
    ASSUME TypeInv, Refuse
    PROVE  TypeInv'
  <1>1. /\ running = Nothing /\ queue # <<>> /\ queue' = Tail(queue)
        /\ asked' = [asked EXCEPT ![Head(queue)] = Nothing]
        /\ UNCHANGED <<current, revision, held, used, running, file, olderFiles,
                       backups, unsettled, made, owed>>
    BY DEF Refuse, memory, disk
  <1>2. /\ Head(queue) \in Client
        /\ queue' \in Seq(Client)
        /\ \A i \in DOMAIN queue' : queue'[i] # Head(queue) /\ asked[queue'[i]] # Nothing
        /\ \A i, j \in DOMAIN queue' : queue'[i] = queue'[j] => i = j
    BY <1>1, DequeuedWaiting DEF TypeInv
  <1>3. TypeOK'
    BY <1>1, <1>2 DEF TypeInv, TypeOK
  <1>4. \A i \in DOMAIN queue' : queue'[i] \in Client
    BY <1>2
  <1> QED BY <1>1, <1>2, <1>3, <1>4 
          DEF TypeInv, TypeOK, Waiting, RemoveFound, FlushedFirst, EveryCrashLeavesAWholeFile, At

LEMMA TypeBegin ==
    ASSUME TypeInv, Begin
    PROVE  TypeInv'
  <1> DEFINE c == Head(queue)
             r == asked[c]
  <1>1. /\ running = Nothing /\ queue # <<>> /\ queue' = Tail(queue)
        /\ r.kind \in {"restore", "remove"} => r.backup \in backups
        /\ running' = [by |-> c,
                       stage |-> IF r.kind = "remove" THEN "remove" ELSE "backup",
                       next |-> IF r.kind = "remove" THEN current ELSE Built(r),
                       flushed |-> FALSE]
        /\ UNCHANGED <<current, revision, asked, held, used, file, olderFiles,
                       backups, unsettled, made, owed>>
    BY DEF Begin, memory, disk
  <1>2. /\ c \in Client
        /\ r \in Request
        /\ queue' \in Seq(Client)
        /\ \A i \in DOMAIN queue' : queue'[i] # c /\ asked[queue'[i]] # Nothing
        /\ \A i, j \in DOMAIN queue' : queue'[i] = queue'[j] => i = j
    BY <1>1, DequeuedWaiting DEF TypeInv
  <1>3. r.kind # "remove" => Built(r) \in Configuration
    BY <1>1, <1>2, BuiltTyped DEF TypeInv
  <1> HIDE DEF c, r
  <1>4. /\ running' \in Mutation /\ running'.by = c
        /\ running'.stage = "remove" => r.kind = "remove"
        /\ running'.stage # "replace"
    BY <1>1, <1>2, <1>3 DEF Mutation, Stage, TypeInv, TypeOK
  <1>5. TypeOK'
    BY <1>1, <1>2, <1>4 DEF TypeInv, TypeOK
  <1>6. Waiting'
    BY <1>1, <1>2, <1>4, MutationSentinelAssumption DEF Waiting, r
  <1>7. RemoveFound'
    BY <1>1, <1>4 DEF RemoveFound, At, TypeInv, TypeOK, r, c
  <1> QED BY <1>1, <1>4, <1>5, <1>6, <1>7
          DEF TypeInv, FlushedFirst, EveryCrashLeavesAWholeFile, At

LEMMA TypeEnd ==
    ASSUME TypeInv, Fail \/ Confirm \/ Unconfirmed \/ Removed
    PROVE  TypeInv'
  <1>1. /\ running # Nothing /\ Settled(running.by) /\ UNCHANGED <<queue, file>>
        /\ olderFiles' \subseteq olderFiles
    BY DEF Fail, Confirm, Unconfirmed, Removed, At, Rejected, disk, DirectorySynced
  <1>2. /\ asked' \in [Client -> {Nothing} \cup Request] /\ running' = Nothing
        /\ Waiting' /\ RemoveFound' /\ FlushedFirst'
    BY <1>1, EndsTyped
  <1>3. EveryCrashLeavesAWholeFile'
    BY <1>1 DEF TypeInv, EveryCrashLeavesAWholeFile
  <1> SUFFICES TypeOK'
    BY <1>2, <1>3 DEF TypeInv
  <1>4. CASE Fail
    BY <1>2, <1>4 DEF Fail, TypeInv, TypeOK, memory, disk
  <1>5. CASE Confirm
    <2>1. current' \in Configuration /\ revision' \in Revision
      BY <1>5, MovedTyped DEF Confirm
    <2>2. running.next \in Configuration
      BY <1>1 DEF TypeInv, TypeOK, Mutation
    <2> QED BY <1>2, <1>5, <2>1, <2>2
            DEF Confirm, DirectorySynced, TypeInv, TypeOK, Configuration
  <1>6. CASE Unconfirmed
    <2>1. current' \in Configuration /\ revision' \in Revision
      BY <1>6, MovedTyped DEF Unconfirmed, MovesInDoubt
    <2> QED BY <1>2, <1>6, <2>1 DEF Unconfirmed, TypeInv, TypeOK, disk
  <1>7. CASE Removed
    BY <1>2, <1>7 DEF Removed, DirectorySynced, TypeInv, TypeOK, memory
  <1> QED BY <1>4, <1>5, <1>6, <1>7

LEMMA TypeBackUp ==
    ASSUME TypeInv, BackUp
    PROVE  TypeInv'
  <1>1. /\ running # Nothing
        /\ GoTo("prune") \/ GoTo("backupSync")
        /\ UNCHANGED clients
        /\ UNCHANGED <<current, revision, owed, file, olderFiles>>
    BY DEF BackUp, At, clients, memory, disk
  <1>2. running' \in Mutation /\ Waiting' /\ RemoveFound' /\ FlushedFirst'
    BY <1>1, GoesOnTyped DEF Stage
  <1>3. EveryCrashLeavesAWholeFile'
    BY <1>1 DEF TypeInv, EveryCrashLeavesAWholeFile
  <1> SUFFICES TypeOK'
    BY <1>2, <1>3 DEF TypeInv
  <1>4. CASE file = Missing
    BY <1>1, <1>2, <1>4 DEF BackUp, disk, clients, TypeInv, TypeOK
  <1>5. CASE file # Missing
    <2> DEFINE copy == [time |-> made + 1, holds |-> file]
    <2>1. copy \in Backup /\ made + 1 \in Nat
      BY <1>5 DEF TypeInv, EveryCrashLeavesAWholeFile, TypeOK, Backup
    <2>2. /\ backups' = backups \cup {copy} /\ unsettled' = unsettled \cup {copy}
          /\ made' = made + 1
      BY <1>5 DEF BackUp
    <2> HIDE DEF copy
    <2> QED BY <1>1, <1>2, <2>1, <2>2 DEF TypeInv, TypeOK, clients
  <1> QED BY <1>4, <1>5

LEMMA TypeGoOn ==
    ASSUME TypeInv, SyncBackups \/ Prune \/ PruneDone \/ Remove
    PROVE  TypeInv'
  <1>1. /\ running # Nothing
        /\ \E s \in Stage \ {"remove", "replace"} : GoTo(s)
        /\ UNCHANGED clients
        /\ UNCHANGED <<current, revision, owed, file, made>>
        /\ olderFiles' \subseteq olderFiles
    BY DEF SyncBackups, Prune, PruneDone, Written, Remove, At, memory, disk,
           DirectorySynced, Stage
  <1>2. running' \in Mutation /\ Waiting' /\ RemoveFound' /\ FlushedFirst'
    BY <1>1, GoesOnTyped
  <1>3. EveryCrashLeavesAWholeFile'
    BY <1>1 DEF TypeInv, EveryCrashLeavesAWholeFile
  <1>4. backups' \subseteq Backup /\ unsettled' \subseteq Backup
    <2>1. CASE SyncBackups
      BY <2>1 DEF SyncBackups, DirectorySynced, TypeInv, TypeOK
    <2>2. CASE Prune
      BY <2>2 DEF Prune, Prunable, TypeInv, TypeOK
    <2>3. CASE PruneDone
      BY <2>3 DEF PruneDone, disk, TypeInv, TypeOK
    <2>4. CASE Remove
      BY <2>4 DEF Remove, RemoveFound, TypeInv, TypeOK
    <2> QED BY <2>1, <2>2, <2>3, <2>4
  <1> QED BY <1>1, <1>2, <1>3, <1>4 DEF TypeInv, TypeOK, clients

LEMMA TypeFlush ==
    ASSUME TypeInv, Flush
    PROVE  TypeInv'
  <1>1. /\ running \in Mutation
        /\ running' = [running EXCEPT !.stage = "replace", !.flushed = TRUE]
        /\ UNCHANGED <<current, revision, queue, asked, held, used, file,
                       olderFiles, backups, unsettled, made, owed>>
    BY DEF Flush, At, TypeInv, TypeOK, memory, clients, disk
  <1>2. /\ running' \in Mutation /\ running'.by = running.by
        /\ running'.stage = "replace" /\ running'.flushed
    BY <1>1 DEF Mutation, Stage
  <1>3. TypeOK'
    BY <1>1, <1>2 DEF TypeInv, TypeOK
  <1>4. Waiting' /\ RemoveFound' /\ FlushedFirst'
    BY <1>1, <1>2, MutationSentinelAssumption DEF TypeInv, Waiting, RemoveFound, FlushedFirst, At
  <1> QED BY <1>1, <1>3, <1>4 DEF TypeInv, EveryCrashLeavesAWholeFile

LEMMA TypeReplace ==
    ASSUME TypeInv, Replace
    PROVE  TypeInv'
  <1>1. /\ running \in Mutation /\ running # Nothing /\ running.flushed
        /\ running.next \in Configuration
    BY DEF Replace, At, TypeInv, TypeOK, FlushedFirst, Mutation
  <1>2. /\ file' = running.next /\ olderFiles' = olderFiles \cup {file}
        /\ owed' \subseteq owed
        /\ UNCHANGED clients
        /\ UNCHANGED <<current, revision, backups, unsettled, made>>
    BY <1>1 DEF Replace, memory
  <1>3. running' \in Mutation /\ Waiting' /\ RemoveFound' /\ FlushedFirst'
    BY <1>1, <1>2, GoesOnTyped DEF Replace, Stage
  <1>4. EveryCrashLeavesAWholeFile'
    BY <1>1, <1>2, StoreSentinelAssumption DEF TypeInv, EveryCrashLeavesAWholeFile
  <1>5. TypeOK'
    BY <1>1, <1>2, <1>3 DEF TypeInv, EveryCrashLeavesAWholeFile, TypeOK, clients
  <1> QED BY <1>3, <1>4, <1>5 DEF TypeInv

LEMMA TypeRestart ==
    ASSUME TypeInv, ProcessRestart \/ MachineRestart
    PROVE  TypeInv'
  <1>1. PICK v \in {file} \cup olderFiles :
           /\ v # Torn /\ Boot(v) /\ file' = v /\ olderFiles' \subseteq olderFiles
    BY DEF ProcessRestart, MachineRestart
  <1>2. v \in {Missing} \cup Configuration
    BY <1>1 DEF TypeInv, TypeOK
  <1>3. current' \in Configuration
    BY <1>1, <1>2 DEF Boot, Loaded, Configuration
  <1>4. revision' \in Revision
    BY <1>1 DEF Boot, TypeInv, TypeOK, Revision
  <1>5. backups' \subseteq Backup /\ unsettled' \subseteq Backup
    BY DEF ProcessRestart, MachineRestart, TypeInv, TypeOK
  <1>6. /\ queue' = <<>> /\ running' = Nothing
        /\ asked' = [c \in Client |-> Nothing]
        /\ UNCHANGED <<held, used, made, owed>>
    BY <1>1 DEF Boot
  <1>7. TypeOK'
    BY <1>1, <1>2, <1>3, <1>4, <1>5, <1>6 DEF TypeInv, TypeOK
  <1> QED BY <1>1, <1>6, <1>7
          DEF TypeInv, EveryCrashLeavesAWholeFile, Waiting, RemoveFound, FlushedFirst, At

LEMMA TypeStep ==
    ASSUME TypeInv, [Next]_storeVars
    PROVE  TypeInv'
  <1>1. CASE ClientStep
    <2>1. ASSUME NEW c \in Client,
                 NEW kind \in {"patch", "import", "restore", "remove"},
                 NEW rev \in {NoRevision, held[c].rev}, NEW b \in backups \cup {Nothing},
                 Ask(c, kind, rev, b)
          PROVE  TypeInv'
      <3>1. rev \in Revision \cup {NoRevision} /\ b \in Backup \cup {Nothing}
        BY DEF TypeInv, TypeOK
      <3> QED BY <2>1, <3>1, TypeAsk
    <2> QED BY <1>1, <2>1, TypeRead DEF ClientStep
  <1>2. CASE ServerStep
    BY <1>2, TypeRefuse, TypeBegin, TypeEnd, TypeBackUp, TypeGoOn, TypeFlush, TypeReplace
       DEF ServerStep
  <1>3. CASE ProcessRestart \/ MachineRestart
    BY <1>3, TypeRestart
  <1>4. CASE UNCHANGED storeVars
    BY <1>4 DEF storeVars, TypeInv, TypeOK, Waiting, RemoveFound, FlushedFirst,
                EveryCrashLeavesAWholeFile, At
  <1> QED BY <1>1, <1>2, <1>3, <1>4 DEF Next

\* The state of the store keeps its shape.
THEOREM StoreTypeCorrect == Spec => []TypeOK
  <1>1. TypeInv => TypeOK
    BY DEF TypeInv
  <1> QED BY <1>1, TypeInit, TypeStep, PTL DEF Spec

\* No crash, in any step of any sequence of saves, leaves half a file.
THEOREM WholeFiles == Spec => []EveryCrashLeavesAWholeFile
  <1>1. TypeInv => EveryCrashLeavesAWholeFile
    BY DEF TypeInv
  <1> QED BY <1>1, TypeInit, TypeStep, PTL DEF Spec

-----------------------------------------------------------------------------
(* What was acknowledged survives.  Between edits memory and file agree;   *)
(* from the rename to the answer the file is one edit ahead.  A patch that *)
(* runs is built on the configuration in memory, so that it covers all     *)
(* that is owed.                                                           *)

Agrees ==
    /\ MemoryMatchesFile
    /\ At("commitSync") => file = running.next

Merging ==
    (running # Nothing /\ ~At("commitSync") /\ asked[running.by].kind = "patch") =>
        running.next = current \cup {asked[running.by].edit}

SaveInv == TypeInv /\ Agrees /\ Merging /\ AcknowledgedEditsSurvive

LEMMA SaveInit == Init => SaveInv
  BY TypeInit DEF Init, SaveInv, Agrees, MemoryMatchesFile, Merging, At,
                  AcknowledgedEditsSurvive

\* A step that leaves configuration, file and debt alone, and the running
\* mutation on this side of the rename.
LEMMA SaveQuiet ==
    ASSUME SaveInv, TypeInv', ~At("commitSync"),
           UNCHANGED <<current, file, owed>>, olderFiles' \subseteq olderFiles,
           \/ running' = Nothing
           \/ /\ running # Nothing /\ running' \in Mutation
              /\ running'.by = running.by /\ running'.next = running.next
              /\ running'.stage # "commitSync"
              /\ asked'[running.by] = asked[running.by]
    PROVE  SaveInv'
  <1>1. ~At("commitSync")'
    BY DEF At
  <1>2. Agrees'
    BY <1>1 DEF SaveInv, Agrees, MemoryMatchesFile, Loaded
  <1>3. Merging'
    BY <1>1 DEF SaveInv, Merging
  <1>4. AcknowledgedEditsSurvive'
    BY DEF SaveInv, AcknowledgedEditsSurvive, Loaded
  <1> QED BY <1>2, <1>3, <1>4 DEF SaveInv

\* A step that leaves the running mutation where it is.
LEMMA SaveElsewhere ==
    ASSUME SaveInv, TypeInv',
           UNCHANGED <<current, file, owed, running, olderFiles>>,
           running # Nothing => asked'[running.by] = asked[running.by]
    PROVE  SaveInv'
  BY DEF SaveInv, Agrees, MemoryMatchesFile, Merging, AcknowledgedEditsSurvive, At, Loaded

LEMMA SaveClient ==
    ASSUME SaveInv, ClientStep, TypeInv'
    PROVE  SaveInv'
  <1>1. UNCHANGED <<current, file, owed, running, olderFiles>>
    BY DEF ClientStep, Read, Ask, memory, disk
  <1>2. running # Nothing => asked'[running.by] = asked[running.by]
    <2>1. ASSUME NEW c \in Client, NEW r, asked[c] = Nothing,
                 asked' = [asked EXCEPT ![c] = r], running # Nothing
          PROVE  asked'[running.by] = asked[running.by]
      BY <2>1 DEF SaveInv, TypeInv, TypeOK, Waiting, Mutation
    <2> QED BY <2>1 DEF ClientStep, Read, Ask
  <1> QED BY <1>1, <1>2, SaveElsewhere

LEMMA SaveBegin ==
    ASSUME SaveInv, Begin, TypeInv'
    PROVE  SaveInv'
  <1>1. /\ UNCHANGED <<current, file, owed, olderFiles, asked>>
        /\ running = Nothing /\ queue # <<>>
    BY DEF Begin, memory, disk
  <1> DEFINE r == asked[Head(queue)]
  <1>2. /\ running'.by = Head(queue)
        /\ running'.stage # "commitSync"
        /\ r.kind = "patch" => running'.next = current \cup {r.edit}
    BY DEF Begin, Built
  <1>3. ~At("commitSync") /\ ~At("commitSync")'
    BY <1>1, <1>2 DEF At
  <1>4. Agrees'
    BY <1>1, <1>3 DEF SaveInv, Agrees, MemoryMatchesFile, Loaded
  <1>5. Merging'
    BY <1>1, <1>2 DEF Merging
  <1>6. AcknowledgedEditsSurvive'
    BY <1>1 DEF SaveInv, AcknowledgedEditsSurvive, Loaded
  <1> QED BY <1>4, <1>5, <1>6 DEF SaveInv

LEMMA SaveOnTheWay ==
    ASSUME SaveInv, TypeInv',
           Refuse \/ Fail \/ Removed \/ BackUp \/ SyncBackups \/ Prune \/ PruneDone
              \/ Flush \/ Remove
    PROVE  SaveInv'
  <1>1. ~At("commitSync")
    BY DEF Refuse, Fail, Removed, BackUp, SyncBackups, Prune, PruneDone, Flush, Remove, At
  <1>2. UNCHANGED <<current, file, owed>> /\ olderFiles' \subseteq olderFiles
    BY DEF Refuse, Fail, Removed, BackUp, SyncBackups, Prune, PruneDone, Flush, Remove,
           memory, disk, DirectorySynced
  <1>3. CASE Refuse \/ Fail \/ Removed
    <2>1. running' = Nothing
      BY <1>3 DEF Refuse, Fail, Removed, Rejected, Settled
    <2> QED BY <2>1, <1>1, <1>2, SaveQuiet
  <1>4. CASE BackUp \/ SyncBackups \/ Prune \/ PruneDone \/ Flush \/ Remove
    <2>1. running \in Mutation /\ running # Nothing
      BY <1>4 DEF SaveInv, TypeInv, TypeOK, BackUp, SyncBackups, Prune, PruneDone, Flush,
                  Remove, At
    <2>2. /\ running' \in Mutation
          /\ running'.by = running.by /\ running'.next = running.next
          /\ running'.stage # "commitSync"
      BY <1>4, <2>1 DEF BackUp, SyncBackups, Prune, PruneDone, Written, Flush, Remove, GoTo,
                        Mutation, Stage
    <2>3. asked' = asked
      BY <1>4 DEF BackUp, SyncBackups, Prune, PruneDone, Flush, Remove, clients
    <2> QED BY <2>1, <2>2, <2>3, <1>1, <1>2, SaveQuiet
  <1> QED BY <1>3, <1>4

LEMMA SaveReplace ==
    ASSUME SaveInv, Replace, TypeInv'
    PROVE  SaveInv'
  <1> DEFINE r == asked[running.by]
  <1>1. /\ running \in Mutation /\ running # Nothing /\ running.flushed
        /\ running.next \in Configuration
        /\ At("replace") /\ ~At("commitSync")
    BY DEF Replace, At, SaveInv, TypeInv, TypeOK, FlushedFirst, Mutation
  <1>2. /\ file' = running.next /\ olderFiles' = olderFiles \cup {file}
        /\ owed' = IF r.kind = "patch" THEN owed ELSE owed \cap running.next
        /\ UNCHANGED <<current, asked>>
    BY <1>1 DEF Replace, memory, clients
  <1>3. /\ running' # Nothing /\ running'.stage = "commitSync"
        /\ running'.next = running.next
    BY <1>1, MutationSentinelAssumption DEF Replace, GoTo, Mutation, Stage
  <1>4. Agrees' /\ Merging'
    BY <1>2, <1>3 DEF Agrees, MemoryMatchesFile, Merging, At
  <1>5. owed' \subseteq running.next
    <2>1. r.kind = "patch" => running.next = current \cup {r.edit}
      BY <1>1 DEF SaveInv, Merging
    <2>2. owed \subseteq current
      <3>1. current = Loaded(file) /\ file # Torn
        BY <1>1 DEF SaveInv, Agrees, MemoryMatchesFile, TypeInv, EveryCrashLeavesAWholeFile
      <3> QED BY <3>1 DEF SaveInv, AcknowledgedEditsSurvive
    <2> QED BY <1>2, <2>1, <2>2
  <1>6. Loaded(running.next) = running.next
    BY <1>1, StoreSentinelAssumption DEF Loaded
  <1>7. AcknowledgedEditsSurvive'
    <2>1. \A v \in ({file} \cup olderFiles) \ {Torn} : owed' \subseteq Loaded(v)
      BY <1>2 DEF SaveInv, AcknowledgedEditsSurvive
    <2> QED BY <1>2, <1>5, <1>6, <2>1 DEF AcknowledgedEditsSurvive, Loaded
  <1> QED BY <1>4, <1>7 DEF SaveInv

LEMMA SaveCommit ==
    ASSUME SaveInv, Confirm \/ Unconfirmed, TypeInv'
    PROVE  SaveInv'
  <1>1. /\ running # Nothing /\ running.next \in Configuration /\ file = running.next
        /\ running' = Nothing
        /\ current' = running.next /\ UNCHANGED file
    BY DEF Confirm, Unconfirmed, Settled, Rejected, MovesInDoubt, MoveInMemory, At, disk,
           SaveInv, Agrees, TypeInv, TypeOK, Mutation
  <1>2. Loaded(file) = file
    BY <1>1, StoreSentinelAssumption DEF Loaded
  <1>3. Agrees' /\ Merging'
    BY <1>1, <1>2 DEF Agrees, MemoryMatchesFile, Merging, At, Loaded
  <1>4. AcknowledgedEditsSurvive'
    <2>1. CASE Confirm
      BY <1>1, <1>2, <2>1 DEF Confirm, DirectorySynced, AcknowledgedEditsSurvive, Loaded
    <2>2. CASE Unconfirmed
      BY <2>2 DEF Unconfirmed, disk, SaveInv, AcknowledgedEditsSurvive, Loaded
    <2> QED BY <2>1, <2>2
  <1> QED BY <1>3, <1>4 DEF SaveInv

LEMMA SaveRestart ==
    ASSUME SaveInv, ProcessRestart \/ MachineRestart, TypeInv'
    PROVE  SaveInv'
  <1>1. PICK v \in {file} \cup olderFiles :
           /\ v # Torn /\ Boot(v) /\ file' = v /\ olderFiles' \subseteq olderFiles
    BY DEF ProcessRestart, MachineRestart
  <1>2. running' = Nothing /\ current' = Loaded(v) /\ owed' = owed
    BY <1>1 DEF Boot
  <1> QED BY <1>1, <1>2 DEF SaveInv, Agrees, MemoryMatchesFile, Merging, At,
                            AcknowledgedEditsSurvive, Loaded

LEMMA SaveStep ==
    ASSUME SaveInv, [Next]_storeVars
    PROVE  SaveInv'
  <1>1. TypeInv'
    BY TypeStep DEF SaveInv
  <1>2. CASE ClientStep
    BY <1>1, <1>2, SaveClient
  <1>3. CASE ServerStep
    BY <1>1, <1>3, SaveBegin, SaveOnTheWay, SaveReplace, SaveCommit DEF ServerStep
  <1>4. CASE ProcessRestart \/ MachineRestart
    BY <1>1, <1>4, SaveRestart
  <1>5. CASE UNCHANGED storeVars
    BY <1>1, <1>5, SaveElsewhere DEF storeVars
  <1> QED BY <1>2, <1>3, <1>4, <1>5 DEF Next

\* What a caller was told is saved is in every configuration that the next
\* boot may find.
THEOREM AcknowledgedStay == Spec => []AcknowledgedEditsSurvive
  <1>1. SaveInv => AcknowledgedEditsSurvive
    BY DEF SaveInv
  <1> QED BY <1>1, SaveInit, SaveStep, PTL DEF Spec

\* Between edits, readers get what the next boot will load.
THEOREM MemoryAgrees == Spec => []MemoryMatchesFile
  <1>1. SaveInv => MemoryMatchesFile
    BY DEF SaveInv, Agrees
  <1> QED BY <1>1, SaveInit, SaveStep, PTL DEF Spec

\* The three together: a restart at any moment keeps every promise of the store.
THEOREM RestartsKeepPromises == Spec => []RestartsFindWhatWasSaved
  <1>1. EveryCrashLeavesAWholeFile /\ AcknowledgedEditsSurvive /\ MemoryMatchesFile
          => RestartsFindWhatWasSaved
    BY DEF RestartsFindWhatWasSaved
  <1> QED BY <1>1, WholeFiles, AcknowledgedStay, MemoryAgrees, PTL

-----------------------------------------------------------------------------
(* Every step of the store is a step of the register, or none.             *)

LEMMA RefineInit == Init => Register!RegisterInit
  BY DEF Init, Loaded, Register!RegisterInit

LEMMA RefineStep ==
    ASSUME SaveInv, SaveInv', [Next]_storeVars
    PROVE  [Register!RegisterNext]_(Register!registerVars)
  <1> USE DEF Register!registerVars
  <1>1. CASE UNCHANGED <<file, owed>>
    BY <1>1 DEF Loaded
  <1>2. CASE Replace
    <2> DEFINE r == asked[running.by]
    <2>1. /\ running \in Mutation /\ running # Nothing /\ running.by \in Client
          /\ running.next \in Configuration /\ ~At("commitSync")
          /\ r \in Request
      BY <1>2 DEF Replace, At, SaveInv, TypeInv, TypeOK, Waiting, Mutation
    <2>2. /\ file' = running.next
          /\ owed' = IF r.kind = "patch" THEN owed ELSE owed \cap running.next
      BY <1>2 DEF Replace
    <2>3. Loaded(file)' = running.next /\ running.next \in SUBSET Edit
      BY <2>1, <2>2, StoreSentinelAssumption DEF Loaded, Configuration
    <2>4. CASE r.kind = "patch"
      <3>1. running.next = Loaded(file) \cup {r.edit} /\ r.edit \in Edit
        BY <2>1, <2>4 DEF SaveInv, Agrees, MemoryMatchesFile, Merging, Request
      <3>2. Register!Apply(r.edit)
        BY <2>2, <2>3, <2>4, <3>1 DEF Register!Apply
      <3> QED BY <3>1, <3>2 DEF Register!RegisterNext
    <2>5. CASE r.kind # "patch"
      <3>1. Register!Supersede(running.next)
        BY <2>2, <2>3, <2>5 DEF Register!Supersede
      <3> QED BY <2>3, <3>1 DEF Register!RegisterNext
    <2> QED BY <2>4, <2>5
  <1>3. CASE Confirm
    <2>1. /\ running.next \in Configuration /\ file = running.next
          /\ file' = file /\ owed' = running.next
      BY <1>3 DEF Confirm, At, SaveInv, Agrees, TypeInv, TypeOK, Mutation
    <2>2. Register!Acknowledge
      BY <2>1, StoreSentinelAssumption DEF Register!Acknowledge, Loaded
    <2> QED BY <2>2 DEF Register!RegisterNext
  <1>4. CASE ProcessRestart \/ MachineRestart
    <2>1. PICK v \in {file} \cup olderFiles : v # Torn /\ Boot(v) /\ file' = v
      BY <1>4 DEF ProcessRestart, MachineRestart
    <2>2. owed \subseteq Loaded(v) /\ Loaded(v) \in SUBSET Edit
      BY <2>1 DEF SaveInv, AcknowledgedEditsSurvive, TypeInv, TypeOK, Loaded, Configuration
    <2>3. Register!Restart(Loaded(v))
      BY <2>1, <2>2 DEF Boot, Register!Restart, Loaded
    <2> QED BY <2>2, <2>3 DEF Register!RegisterNext
  <1>5. CASE ClientStep
    <2>1. UNCHANGED <<file, owed>>
      BY <1>5 DEF ClientStep, Read, Ask, disk
    <2> QED BY <2>1, <1>1
  <1>6. CASE \/ Refuse \/ Begin \/ Fail \/ BackUp \/ SyncBackups \/ Prune \/ PruneDone
             \/ Flush \/ Unconfirmed \/ Remove \/ Removed
    <2>1. UNCHANGED <<file, owed>>
      BY <1>6 DEF Refuse, Begin, Fail, BackUp, SyncBackups, Prune, PruneDone, Flush,
                  Unconfirmed, Remove, Removed, disk
    <2> QED BY <2>1, <1>1
  <1>7. CASE UNCHANGED storeVars
    BY <1>7, <1>1 DEF storeVars
  <1> QED BY <1>2, <1>3, <1>4, <1>5, <1>6, <1>7 DEF Next, ServerStep

\* The store implements the register: edits take effect one at a time and
\* whole, and no restart takes back what was acknowledged.
THEOREM StoreIsARegister == Spec => ImplementsRegister
  <1>1. SaveInv /\ SaveInv' /\ [Next]_storeVars =>
            [Register!RegisterNext]_(Register!registerVars)
    BY RefineStep
  <1> QED BY <1>1, RefineInit, SaveInit, SaveStep, PTL
          DEF Spec, ImplementsRegister, Register!RegisterSpec

-----------------------------------------------------------------------------
(* Patches.  A revision is never reached twice: each boot is later than    *)
(* those before it, and the counter moves with the configuration.          *)

\* What a revision stood for, seen from the present one.
Dated(r, content) ==
    /\ \/ r.boot < revision.boot
       \/ r.boot = revision.boot /\ r.counter <= revision.counter
    /\ r = revision => content = current

RevisionInv ==
    /\ \A c \in Client : Dated(held[c].rev, held[c].saw)
    /\ \A c \in Client :
          asked[c] # Nothing /\ asked[c].rev # NoRevision =>
              Dated(asked[c].rev, asked[c].saw)

\* A patch that runs was checked against the revision it runs on.
Checked ==
    running # Nothing /\ ~At("commitSync") =>
        LET r == asked[running.by]
        IN  r.kind = "patch" /\ r.rev # NoRevision => r.rev = revision

PatchInv == SaveInv /\ RevisionInv /\ Checked

\* The revisions a step leaves behind.
LEMMA DatedMoves ==
    ASSUME PatchInv, NEW r \in Revision, NEW content, Dated(r, content),
           \/ /\ revision' = [revision EXCEPT !.counter = revision.counter + 1]
           \/ revision' = [boot |-> revision.boot + 1, counter |-> 0]
    PROVE  Dated(r, content)'
  <1>1. /\ revision \in Revision /\ revision.boot \in Nat /\ revision.counter \in Nat
        /\ r.boot \in Nat /\ r.counter \in Nat
    BY DEF PatchInv, SaveInv, TypeInv, TypeOK, Revision
  <1>2. CASE revision' = [revision EXCEPT !.counter = revision.counter + 1]
    <2>1. revision'.boot = revision.boot /\ revision'.counter = revision.counter + 1
      BY <1>1, <1>2 DEF Revision
    <2> QED BY <1>1, <2>1 DEF Dated
  <1>3. CASE revision' = [boot |-> revision.boot + 1, counter |-> 0]
    <2>1. revision'.boot = revision.boot + 1
      BY <1>3
    <2> QED BY <1>1, <2>1 DEF Dated
  <1> QED BY <1>2, <1>3

LEMMA PatchInit == Init => PatchInv
  <1> SUFFICES ASSUME Init PROVE PatchInv
    OBVIOUS
  <1>1. revision \in Revision /\ revision.counter \in Nat
    BY DEF Init, Revision
  <1> QED BY <1>1, SaveInit DEF Init, PatchInv, RevisionInv, Dated, Checked

LEMMA RevisionStep ==
    ASSUME PatchInv, [Next]_storeVars, TypeInv'
    PROVE  RevisionInv'
  <1> USE DEF PatchInv, SaveInv, TypeInv, TypeOK
  <1>1. CASE \E c \in Client : Read(c)
    <2>1. PICK c \in Client : Read(c)
      BY <1>1
    <2>2. /\ held' = [held EXCEPT ![c] = [rev |-> revision, saw |-> current]]
          /\ UNCHANGED <<current, revision, asked>>
      BY <2>1 DEF Read, memory
    <2>3. revision.boot \in Nat /\ revision.counter \in Nat
      BY DEF Revision
    <2> QED BY <2>2, <2>3 DEF RevisionInv, Dated
  <1>2. ASSUME NEW c \in Client, NEW kind, NEW b,
               NEW rev \in {NoRevision, held[c].rev}, Ask(c, kind, rev, b)
        PROVE  RevisionInv'
    <2>1. PICK r : /\ asked' = [asked EXCEPT ![c] = r]
                   /\ r.rev = rev /\ r.saw = held[c].saw
      BY <1>2 DEF Ask
    <2>2. UNCHANGED <<current, revision, held>>
      BY <1>2 DEF Ask, memory
    <2> QED BY <1>2, <2>1, <2>2 DEF RevisionInv, Dated
  <1>3. CASE UNCHANGED <<current, revision, held>>
             /\ \A c \in Client : asked'[c] # Nothing => asked'[c] = asked[c]
    BY <1>3 DEF RevisionInv, Dated
  <1>4. CASE /\ \/ revision' = [revision EXCEPT !.counter = revision.counter + 1]
                \/ revision' = [boot |-> revision.boot + 1, counter |-> 0]
             /\ UNCHANGED held
             /\ \A c \in Client : asked'[c] # Nothing => asked'[c] = asked[c]
    <2>1. \A c \in Client : Dated(held[c].rev, held[c].saw)'
      BY <1>4, DatedMoves DEF RevisionInv
    <2>2. ASSUME NEW c \in Client, asked'[c] # Nothing, asked'[c].rev # NoRevision
          PROVE  Dated(asked[c].rev, asked[c].saw)' /\ asked'[c] = asked[c]
      <3>1. asked'[c] = asked[c] /\ asked[c].rev \in Revision
        BY <1>4, <2>2 DEF Request
      <3>2. Dated(asked[c].rev, asked[c].saw)
        BY <2>2, <3>1 DEF RevisionInv
      <3>3. \A r \in Revision : \A content : Dated(r, content) => Dated(r, content)'
        BY <1>4, DatedMoves
      <3> QED BY <3>1, <3>2, <3>3 DEF Dated
    <2> QED BY <1>4, <2>1, <2>2 DEF RevisionInv
  <1>5. CASE \/ Refuse \/ Begin \/ Fail \/ BackUp \/ SyncBackups \/ Prune \/ PruneDone
             \/ Flush \/ Replace \/ Remove \/ Removed
    <2>1. UNCHANGED <<current, revision, held>>
      BY <1>5 DEF Refuse, Begin, Fail, BackUp, SyncBackups, Prune, PruneDone, Flush,
                  Replace, Remove, Removed, memory, clients
    <2>2. \/ asked' = asked
          \/ \E c : asked' = [asked EXCEPT ![c] = Nothing]
      BY <1>5 DEF Refuse, Begin, Fail, BackUp, SyncBackups, Prune, PruneDone, Flush,
                  Replace, Remove, Removed, clients, Rejected, Settled
    <2> QED BY <2>1, <2>2, <1>3
  <1>6. CASE Confirm \/ Unconfirmed
    <2>1. /\ revision' = [revision EXCEPT !.counter = revision.counter + 1]
          /\ UNCHANGED held
          /\ asked' = [asked EXCEPT ![running.by] = Nothing]
      BY <1>6 DEF Confirm, Unconfirmed, MovesInDoubt, MoveInMemory, Rejected, Settled
    <2> QED BY <2>1, <1>4
  <1>7. CASE ProcessRestart \/ MachineRestart
    <2>1. /\ revision' = [boot |-> revision.boot + 1, counter |-> 0]
          /\ UNCHANGED held
          /\ asked' = [c \in Client |-> Nothing]
      BY <1>7 DEF ProcessRestart, MachineRestart, Boot
    <2> QED BY <2>1, <1>4
  <1>8. CASE UNCHANGED storeVars
    BY <1>8, <1>3 DEF storeVars
  <1>9. CASE ClientStep
    BY <1>1, <1>2, <1>9 DEF ClientStep
  <1> QED BY <1>5, <1>6, <1>7, <1>8, <1>9 DEF Next, ServerStep

LEMMA CheckedStep ==
    ASSUME PatchInv, [Next]_storeVars, TypeInv'
    PROVE  Checked'
  <1> USE DEF PatchInv
  <1>1. CASE UNCHANGED <<running, revision>>
             /\ (running # Nothing => asked'[running.by] = asked[running.by])
    BY <1>1 DEF Checked, At
  <1>2. CASE running' = Nothing
    BY <1>2 DEF Checked
  <1>3. CASE ClientStep
    <2>1. UNCHANGED <<running, revision>>
      BY <1>3 DEF ClientStep, Read, Ask, memory
    <2>2. ASSUME NEW c \in Client, NEW r, asked[c] = Nothing,
                 asked' = [asked EXCEPT ![c] = r], running # Nothing
          PROVE  asked'[running.by] = asked[running.by]
      BY <2>2 DEF SaveInv, TypeInv, TypeOK, Waiting, Mutation
    <2>3. running # Nothing => asked'[running.by] = asked[running.by]
      BY <1>3, <2>2 DEF ClientStep, Read, Ask
    <2> QED BY <2>1, <2>3, <1>1
  <1>4. CASE Begin
    BY <1>4 DEF Begin, Superseded, Checked, memory
  <1>5. CASE BackUp \/ SyncBackups \/ Prune \/ PruneDone \/ Flush \/ Replace \/ Remove
    <2>1. running \in Mutation /\ running # Nothing /\ ~At("commitSync")
      BY <1>5 DEF SaveInv, TypeInv, TypeOK, BackUp, SyncBackups, Prune, PruneDone, Flush,
                  Replace, Remove, At
    <2>2. running'.by = running.by /\ UNCHANGED <<asked, revision>>
      BY <1>5, <2>1 DEF BackUp, SyncBackups, Prune, PruneDone, Written, Flush, Replace,
                        Remove, GoTo, Mutation, clients, memory
    <2> QED BY <2>1, <2>2 DEF Checked
  <1>6. CASE Refuse \/ Fail \/ Confirm \/ Unconfirmed \/ Removed
             \/ ProcessRestart \/ MachineRestart
    <2>1. running' = Nothing
      BY <1>6 DEF Refuse, Fail, Confirm, Unconfirmed, Removed, ProcessRestart,
                  MachineRestart, Boot, Rejected, Settled
    <2> QED BY <2>1, <1>2
  <1>7. CASE UNCHANGED storeVars
    BY <1>7, <1>1 DEF storeVars
  <1> QED BY <1>3, <1>4, <1>5, <1>6, <1>7 DEF Next, ServerStep

LEMMA PatchStep ==
    ASSUME PatchInv, [Next]_storeVars
    PROVE  PatchInv'
  <1>1. SaveInv' /\ TypeInv'
    BY SaveStep DEF PatchInv, SaveInv
  <1> QED BY <1>1, RevisionStep, CheckedStep DEF PatchInv

\* At the rename, the file becomes what its author saw with the edit added.
LEMMA PatchLands ==
    ASSUME PatchInv, [Next]_storeVars, NEW c \in Client,
           At("replace"), running.by = c, At("commitSync")',
           asked[c].kind = "patch", asked[c].rev # NoRevision
    PROVE  file' = asked[c].saw \cup {asked[c].edit}
  <1>1. running \in Mutation /\ running # Nothing /\ running.stage = "replace"
    BY DEF PatchInv, SaveInv, TypeInv, TypeOK, At
  <1>2. Replace
    <2>1. ~UNCHANGED running
      BY <1>1 DEF At
    <2>2. running' # Nothing
      BY DEF At
    <2>3. ~ClientStep
      BY <2>1 DEF ClientStep, Read, Ask
    <2>4. ~(ProcessRestart \/ MachineRestart \/ Refuse \/ Fail \/ Confirm
              \/ Unconfirmed \/ Removed)
      BY <2>2 DEF ProcessRestart, MachineRestart, Boot, Refuse, Fail, Confirm, Unconfirmed,
                  Removed, Rejected, Settled
    <2>5. ~(Begin \/ BackUp \/ SyncBackups \/ Prune \/ PruneDone \/ Flush \/ Remove)
      BY <1>1 DEF Begin, BackUp, SyncBackups, Prune, PruneDone, Flush, Remove, At
    <2> QED BY <2>1, <2>2, <2>3, <2>4, <2>5 DEF Next, ServerStep, storeVars
  <1>3. running.next = current \cup {asked[c].edit}
    BY <1>1 DEF PatchInv, SaveInv, Merging, At
  <1>4. asked[c].rev = revision /\ asked[c] # Nothing
    BY <1>1 DEF PatchInv, SaveInv, TypeInv, Waiting, Checked, At
  <1>5. asked[c].saw = current
    BY <1>4 DEF PatchInv, RevisionInv, Dated
  <1> QED BY <1>2, <1>3, <1>5 DEF Replace

\* No patch lands on a configuration its author has not seen.
THEOREM PatchesAreNotBlind == Spec => PatchesLandOnWhatTheirAuthorSaw
  <1>1. PatchInv /\ [Next]_storeVars =>
          [ \A c \in Client :
              At("replace") /\ running.by = c /\ At("commitSync")'
              /\ asked[c].kind = "patch" /\ asked[c].rev # NoRevision =>
                  file' = asked[c].saw \cup {asked[c].edit} ]_storeVars
    BY PatchLands
  <1> QED BY <1>1, PatchInit, PatchStep, PTL DEF Spec, PatchesLandOnWhatTheirAuthorSaw

-----------------------------------------------------------------------------
(* Backups.  The copy that was just made is the latest of all backups, and *)
(* pruning only takes one with as many later ones as are to be kept.       *)

Copied(b) ==
    /\ b \in backups /\ b.holds = file
    /\ \A x \in backups : x.time <= b.time

BackupInv ==
    /\ \A x \in backups \cup unsettled : x.time <= made
    /\ At("remove") => asked[running.by].backup \in backups
    /\ At("backupSync") => \E b \in backups : Copied(b)
    /\ At("prune") \/ At("pruneSync") \/ At("flush") \/ At("replace") =>
         file = Missing \/ \E b \in backups \ unsettled : Copied(b)

LEMMA BackupStep ==
    ASSUME TypeInv, BackupInv, [Next]_storeVars
    PROVE  BackupInv'
  <1> USE DEF TypeInv, TypeOK
  <1>1. CASE UNCHANGED <<running, file, backups, unsettled, made>>
             /\ (running # Nothing => asked'[running.by] = asked[running.by])
    BY <1>1 DEF BackupInv, Copied, At
  <1>2. CASE running' = Nothing
             /\ (backups' \cup unsettled' \subseteq backups \cup unsettled) /\ made' = made
    BY <1>2 DEF BackupInv, At
  <1>3. CASE ClientStep
    <2>1. UNCHANGED <<running, file, backups, unsettled, made>>
      BY <1>3 DEF ClientStep, Read, Ask, disk
    <2>2. ASSUME NEW c \in Client, NEW r, asked[c] = Nothing,
                 asked' = [asked EXCEPT ![c] = r], running # Nothing
          PROVE  asked'[running.by] = asked[running.by]
      BY <2>2 DEF Waiting, Mutation
    <2>3. running # Nothing => asked'[running.by] = asked[running.by]
      BY <1>3, <2>2 DEF ClientStep, Read, Ask
    <2> QED BY <2>1, <2>3, <1>1
  <1>4. CASE Refuse \/ Fail \/ Confirm \/ Unconfirmed \/ Removed
             \/ ProcessRestart \/ MachineRestart
    <2>1. running' = Nothing /\ made' = made
      BY <1>4 DEF Refuse, Fail, Confirm, Unconfirmed, Removed, ProcessRestart,
                  MachineRestart, Boot, Rejected, Settled, disk
    <2>2. backups' \cup unsettled' \subseteq backups \cup unsettled
      BY <1>4 DEF Refuse, Fail, Confirm, Unconfirmed, Removed, ProcessRestart,
                  MachineRestart, DirectorySynced, disk
    <2> QED BY <2>1, <2>2, <1>2
  <1>5. CASE Begin
    <2> DEFINE r == asked[Head(queue)]
    <2>1. /\ running'.by = Head(queue)
          /\ running'.stage = IF r.kind = "remove" THEN "remove" ELSE "backup"
          /\ r.kind = "remove" => r.backup \in backups
          /\ UNCHANGED <<asked, backups, unsettled, made>>
      BY <1>5 DEF Begin, disk
    <2> QED BY <2>1 DEF BackupInv, At
  <1>6. CASE BackUp
    <2>1. running \in Mutation /\ running # Nothing
      BY <1>6 DEF BackUp, At
    <2>2. CASE file = Missing
      <3>1. running'.stage = "prune" /\ UNCHANGED <<file, backups, unsettled, made>>
        BY <1>6, <2>1, <2>2 DEF BackUp, GoTo, Mutation, Stage, disk
      <3> QED BY <2>2, <3>1 DEF BackupInv, At
    <2>3. CASE file # Missing
      <3>0. PICK copy : copy = [time |-> made + 1, holds |-> file]
        OBVIOUS
      <3>1. /\ backups' = backups \cup {copy} /\ unsettled' = unsettled \cup {copy}
            /\ made' = made + 1 /\ file' = file /\ running'.stage = "backupSync"
        BY <1>6, <2>1, <2>3, <3>0 DEF BackUp, GoTo, Mutation, Stage
      <3>2. \A x \in backups \cup unsettled : x.time \in Nat /\ x.time <= made
        BY DEF BackupInv, Backup
      <3>3. copy.time = made + 1 /\ copy.holds = file
        BY <3>0
      <3>4. Copied(copy)'
        BY <3>1, <3>2, <3>3 DEF Copied
      <3>5. \A x \in (backups \cup unsettled)' : x.time <= made'
        BY <3>1, <3>2, <3>3
      <3> QED BY <3>1, <3>4, <3>5 DEF BackupInv, At
    <2> QED BY <2>2, <2>3
  <1>7. CASE SyncBackups
    <2>1. /\ running'.stage = "prune" /\ unsettled' = {}
          /\ UNCHANGED <<file, backups, made>>
      BY <1>7 DEF SyncBackups, DirectorySynced, GoTo, Mutation, Stage, At
    <2>2. file = Missing \/ \E b \in backups : Copied(b)
      BY <1>7 DEF SyncBackups, BackupInv
    <2> QED BY <2>1, <2>2 DEF BackupInv, Copied, At
  <1>8. CASE Prune
    <2>1. PICK d \in Prunable :
             backups' = backups \ {d} /\ unsettled' = unsettled \cup {d}
      BY <1>8 DEF Prune
    <2>2. running'.stage = "pruneSync" /\ UNCHANGED <<file, made>>
      BY <1>8 DEF Prune, GoTo, Mutation, Stage, At
    <2>3. ~Copied(d)
      <3>1. Cardinality({x \in backups : x.time > d.time}) = MAX_CONFIG_BACKUPS
            /\ d \in Backup
        BY DEF Prunable
      <3>2. ASSUME Copied(d) PROVE FALSE
        <4>1. \A x \in backups : x.time \in Nat /\ d.time \in Nat /\ x.time <= d.time
          BY <3>1, <3>2 DEF Copied, Backup
        <4>2. {x \in backups : x.time > d.time} = {}
          BY <4>1
        <4> QED BY <3>1, <4>2, FS_EmptySet, BackupAssumption
      <3> QED BY <3>2
    <2>4. file = Missing \/ \E b \in backups \ unsettled : Copied(b)
      BY <1>8 DEF Prune, BackupInv
    <2>5. d \in backups
      BY DEF Prunable
    <2> QED BY <2>1, <2>2, <2>3, <2>4, <2>5 DEF BackupInv, Copied, At
  <1>9. CASE PruneDone \/ Flush
    <2>1. /\ running'.stage \in {"flush", "replace"}
          /\ UNCHANGED <<file, backups, unsettled, made>>
      BY <1>9 DEF PruneDone, Written, Flush, GoTo, Mutation, Stage, At, disk
    <2>2. file = Missing \/ \E b \in backups \ unsettled : Copied(b)
      BY <1>9 DEF PruneDone, Flush, BackupInv
    <2> QED BY <2>1, <2>2 DEF BackupInv, Copied, At
  <1>10. CASE Replace
    <2>1. running'.stage = "commitSync" /\ UNCHANGED <<backups, unsettled, made>>
      BY <1>10 DEF Replace, GoTo, Mutation, Stage, At
    <2> QED BY <2>1 DEF BackupInv, At
  <1>11. CASE Remove
    <2>1. running'.stage = "removeSync" /\ made' = made
      BY <1>11 DEF Remove, GoTo, Mutation, Stage, At
    <2>2. backups' \cup unsettled' \subseteq backups \cup unsettled
      BY <1>11 DEF Remove, BackupInv
    <2> QED BY <2>1, <2>2 DEF BackupInv, At
  <1>12. CASE UNCHANGED storeVars
    BY <1>12, <1>1 DEF storeVars
  <1> QED BY <1>3, <1>4, <1>5, <1>6, <1>7, <1>8, <1>9, <1>10, <1>11, <1>12
          DEF Next, ServerStep

\* What is about to be overwritten has been copied for good.
THEOREM NothingIsLost == Spec => []ReplacedConfigIsBackedUp
  <1> DEFINE Both == TypeInv /\ BackupInv
  <1>1. Init => Both
    BY TypeInit DEF Init, BackupInv, At
  <1>2. Both /\ [Next]_storeVars => Both'
    BY TypeStep, BackupStep
  <1>3. Both => ReplacedConfigIsBackedUp
    BY DEF BackupInv, Copied, ReplacedConfigIsBackedUp
  <1> QED BY <1>1, <1>2, <1>3, PTL DEF Spec
============================================================================
