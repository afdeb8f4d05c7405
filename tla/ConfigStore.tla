---------------------------- MODULE ConfigStore ----------------------------
(***************************************************************************)
(* The configuration: class ConfigStore (src/server/config.ts) over the    *)
(* file repository (src/server/config-file-repository.ts).                 *)
(*                                                                         *)
(* Edits of several clients are queued and run one at a time.  Each one    *)
(* awaits a chain of file-system calls, any of which may fail; between two *)
(* of them clients read, ask for more edits, or the process dies.  Two     *)
(* kinds of storage are told apart: what the directory shows now, and what *)
(* it may show after the machine stopped before the directory was synced.  *)
(*                                                                         *)
(* A configuration is the set of the edits it incorporates: a patch merges *)
(* one edit into the current configuration, an import starts afresh and a  *)
(* restored backup brings back the set it holds.                           *)
(***************************************************************************)
EXTENDS Integers, FiniteSets, Sequences

CONSTANTS
    Client,             \* the Studio tabs and request handlers that edit
    Edit,               \* the edits they may ask for
    MAX_CONFIG_BACKUPS,
    Missing,            \* there is no configuration file yet
    Torn,               \* a file that is not a whole configuration
    NoRevision, Nothing,
    \* Bounds of the explored instance, used in guards only.
    MaxBoot, Kinds

Configuration == SUBSET Edit

ASSUME BackupAssumption == MAX_CONFIG_BACKUPS \in Nat \ {0}

ASSUME StoreSentinelAssumption ==
    /\ \A v \in Configuration : v # Missing /\ v # Torn
    /\ Missing # Torn
    /\ NoRevision \notin [boot : Nat, counter : Nat]
    /\ MaxBoot \in Nat

VARIABLES
    current,    \* the configuration in memory, which every reader gets
    revision,   \* the boot the process started in and its edits so far
    queue,      \* mutationQueue: the clients whose edits wait, in order
    asked,      \* what each client has asked for and not been told about
    held,       \* the revision each client last read, and what it saw then
    running,    \* the edit being run: by whom, at which call, towards what,
                \* and whether its new file's contents are on disk
    file,       \* the configuration file
    olderFiles, \* what a machine crash may bring back in its place
    backups,    \* the backup files
    unsettled,  \* backups a machine crash may add or take away
    made,       \* how many backups were ever made: the file times
    used,       \* the edits ever asked for
    owed        \* history: acknowledged edits that nothing replaced since

storeVars == <<current, revision, queue, asked, held, running, file,
               olderFiles, backups, unsettled, made, used, owed>>

memory == <<current, revision>>
disk == <<file, olderFiles, backups, unsettled, made>>
clients == <<queue, asked, held, used>>

Revision == [boot : Nat, counter : Nat]
Backup == [time : Nat, holds : Configuration]
Request ==
    [kind : {"patch", "import", "restore", "remove"},
     edit : Edit,
     rev : Revision \cup {NoRevision},
     saw : Configuration,             \* history: the configuration behind rev
     backup : Backup \cup {Nothing}]
Stage ==
    {"backup", "backupSync", "prune", "pruneSync", "flush", "replace",
     "commitSync", "remove", "removeSync"}
Mutation ==
    [by : Client, stage : Stage, next : Configuration, flushed : BOOLEAN]

ASSUME MutationSentinelAssumption == Nothing \notin Mutation /\ Nothing \notin Request

TypeOK ==
    /\ current \in Configuration
    /\ revision \in Revision
    /\ queue \in Seq(Client)
    /\ asked \in [Client -> {Nothing} \cup Request]
    /\ held \in [Client -> [rev : Revision, saw : Configuration]]
    /\ running \in {Nothing} \cup Mutation
    /\ file \in {Missing, Torn} \cup Configuration
    /\ olderFiles \subseteq {Missing, Torn} \cup Configuration
    /\ backups \subseteq Backup
    /\ unsettled \subseteq Backup
    /\ made \in Nat
    /\ used \subseteq Edit
    /\ owed \subseteq Edit

\* ConfigStore.load: without a file the defaults are in force.
Loaded(content) == IF content = Missing THEN {} ELSE content

Init ==
    /\ file \in {Missing, {}}
    /\ current = Loaded(file)
    /\ revision = [boot |-> 0, counter |-> 0]
    /\ queue = <<>>
    /\ asked = [c \in Client |-> Nothing]
    /\ held = [c \in Client |-> [rev |-> revision, saw |-> current]]
    /\ running = Nothing
    /\ olderFiles = {} /\ backups = {} /\ unsettled = {} /\ made = 0
    /\ used = {} /\ owed = {}

-----------------------------------------------------------------------------
(* Clients.                                                                *)

\* GET /api/config: a synchronous copy of the configuration and its revision.
Read(c) ==
    /\ asked[c] = Nothing
    /\ held' = [held EXCEPT ![c] = [rev |-> revision, saw |-> current]]
    /\ UNCHANGED <<memory, queue, asked, used, running, disk, owed>>

\* An edit is queued behind the others.  A patch may carry the revision it
\* was built from; restoring and deleting name a backup.
Ask(c, kind, rev, b) ==
    /\ asked[c] = Nothing /\ kind \in Kinds
    /\ \E e \in Edit \ used :
         /\ asked' = [asked EXCEPT ![c] =
               [kind |-> kind, edit |-> e, rev |-> rev,
                saw |-> held[c].saw, backup |-> b]]
         /\ used' = used \cup {e}
    /\ queue' = Append(queue, c)
    /\ UNCHANGED <<memory, held, running, disk, owed>>

-----------------------------------------------------------------------------
(* The mutation queue.                                                     *)

\* Variant: only the edits of this boot are counted.
SupersededInThisBoot(r) ==
    r.rev # NoRevision /\ r.rev.counter # revision.counter

\* assertRevisionCurrent, which runs when the edit's turn has come.
Superseded(r) == r.rev # NoRevision /\ r.rev # revision

\* Variant: a patch is merged into the configuration its author saw.
BuiltOnWhatItSaw(r) ==
    CASE r.kind = "patch" -> r.saw \cup {r.edit}
      [] r.kind = "import" -> {r.edit}
      [] OTHER -> r.backup.holds

\* The configuration an edit makes of the current one.
Built(r) ==
    CASE r.kind = "patch" -> current \cup {r.edit}
      [] r.kind = "import" -> {r.edit}
      [] OTHER -> r.backup.holds

\* The caller gets its answer and the next edit may run.
Settled(c) ==
    /\ running' = Nothing
    /\ asked' = [asked EXCEPT ![c] = Nothing]

\* Variant: the next edit may run, but the caller is never told.
RejectedSilently(c) == running' = Nothing /\ asked' = asked

\* The same for an edit that failed.
Rejected(c) == Settled(c)

\* Validation may refuse any edit; a stale revision and a backup that is gone
\* are always refused.
Refuse ==
    /\ running = Nothing /\ queue # <<>>
    /\ queue' = Tail(queue)
    /\ asked' = [asked EXCEPT ![Head(queue)] = Nothing]
    /\ UNCHANGED <<memory, held, used, running, disk, owed>>

Begin ==
    /\ running = Nothing /\ queue # <<>>
    /\ LET c == Head(queue)
           r == asked[c]
       IN  /\ ~Superseded(r)
           /\ r.kind \in {"restore", "remove"} => r.backup \in backups
           /\ running' = [by |-> c,
                          stage |-> IF r.kind = "remove" THEN "remove" ELSE "backup",
                          next |-> IF r.kind = "remove" THEN current ELSE Built(r),
                          flushed |-> FALSE]
    /\ queue' = Tail(queue)
    /\ UNCHANGED <<memory, asked, held, used, disk, owed>>

At(stage) == running # Nothing /\ running.stage = stage
GoTo(stage) == running' = [running EXCEPT !.stage = stage]

\* A call failed before the new file was in place: the edit is rejected.
Fail ==
    /\ running # Nothing
    /\ running.stage # "commitSync"
    /\ Rejected(running.by)
    /\ UNCHANGED <<memory, queue, held, used, disk, owed>>

-----------------------------------------------------------------------------
(* Files.  A rename is visible at once and survives a machine crash only   *)
(* when the directory is synced, which covers every rename before it.      *)

\* Variant: the directory is synced for the backup that was written only.
BackupOnlySynced == unsettled' = {} /\ UNCHANGED olderFiles

\* syncDirectory.
DirectorySynced == unsettled' = {} /\ olderFiles' = {}

\* backupCurrentConfig: a copy of the file as it is, if there is one.
BackUp ==
    /\ At("backup")
    /\ IF file = Missing
       THEN GoTo("prune") /\ UNCHANGED disk
       ELSE LET copy == [time |-> made + 1, holds |-> file]
            IN  /\ backups' = backups \cup {copy}
                /\ unsettled' = unsettled \cup {copy}
                /\ made' = made + 1
                /\ GoTo("backupSync")
                /\ UNCHANGED <<file, olderFiles>>
    /\ UNCHANGED <<memory, queue, asked, held, used, owed>>

\* The rename of the backup, or of a pruned one, reaches the disk.
SyncBackups ==
    /\ At("backupSync") \/ At("pruneSync")
    /\ DirectorySynced
    /\ GoTo("prune")
    /\ UNCHANGED <<memory, clients, file, backups, made, owed>>

\* Variant: the listing is the oldest first.
PrunedNewest ==
    {b \in backups :
        Cardinality({x \in backups : x.time < b.time}) = MAX_CONFIG_BACKUPS}

\* The backup that pruneConfigBackups deletes next, if any: the listing is
\* the latest first, and everything after the first ones goes.
Prunable ==
    {b \in backups :
        Cardinality({x \in backups : x.time > b.time}) = MAX_CONFIG_BACKUPS}

Prune ==
    /\ At("prune")
    /\ \E b \in Prunable :
         /\ backups' = backups \ {b}
         /\ unsettled' = unsettled \cup {b}
    /\ GoTo("pruneSync")
    /\ UNCHANGED <<memory, clients, file, olderFiles, made, owed>>

\* writeFileAtomically writes a file beside the target and syncs it first.
Written == GoTo("flush")

PruneDone ==
    /\ At("prune")
    /\ Prunable = {}
    /\ Written
    /\ UNCHANGED <<memory, clients, disk, owed>>

\* handle.sync.
Flush ==
    /\ At("flush")
    /\ running' = [running EXCEPT !.stage = "replace", !.flushed = TRUE]
    /\ UNCHANGED <<memory, clients, disk, owed>>

\* The rename in writeFileAtomically.  An import or a restored backup takes
\* the place of what was acknowledged before.
Replace ==
    /\ At("replace")
    /\ file' = running.next
    /\ olderFiles' = olderFiles \cup {file}
                               \cup (IF running.flushed THEN {} ELSE {Torn})
    /\ owed' = IF asked[running.by].kind = "patch"
               THEN owed ELSE owed \cap running.next
    /\ GoTo("commitSync")
    /\ UNCHANGED <<memory, clients, backups, unsettled, made>>

\* ConfigStore.persist, once the new file is in place.
MoveInMemory ==
    /\ current' = running.next
    /\ revision' = [revision EXCEPT !.counter = @ + 1]

\* The catch of a FileCommitError goes on to the same assignments.
MovesInDoubt == MoveInMemory

\* persist when the directory was synced: the caller is told it is saved.
Confirm ==
    /\ At("commitSync")
    /\ DirectorySynced
    /\ MoveInMemory
    /\ owed' = running.next
    /\ Settled(running.by)
    /\ UNCHANGED <<queue, held, used, file, backups, made>>

\* persist on a FileCommitError: the file is in place, so memory follows it,
\* but the caller is told that it may not last.
Unconfirmed ==
    /\ At("commitSync")
    /\ MovesInDoubt
    /\ Rejected(running.by)
    /\ UNCHANGED <<queue, held, used, disk, owed>>

\* deleteConfigBackup, asked for by a client.
Remove ==
    /\ At("remove")
    /\ LET b == asked[running.by].backup
       IN  backups' = backups \ {b} /\ unsettled' = unsettled \cup {b}
    /\ GoTo("removeSync")
    /\ UNCHANGED <<memory, clients, file, olderFiles, made, owed>>

Removed ==
    /\ At("removeSync")
    /\ DirectorySynced
    /\ Settled(running.by)
    /\ UNCHANGED <<memory, queue, held, used, file, backups, made, owed>>

-----------------------------------------------------------------------------
(* Restarts.                                                               *)

\* ConfigStore.load in a new process; the tabs keep what they had read.
Boot(content) ==
    /\ revision.boot < MaxBoot
    /\ current' = Loaded(content)
    /\ revision' = [boot |-> revision.boot + 1, counter |-> 0]
    /\ queue' = <<>> /\ running' = Nothing
    /\ asked' = [c \in Client |-> Nothing]
    /\ UNCHANGED <<held, used, made, owed>>

\* The process died; the directory is as it was.
ProcessRestart ==
    /\ file # Torn
    /\ Boot(file)
    /\ UNCHANGED <<file, olderFiles, backups, unsettled>>

\* The machine stopped: any rename since the last sync may be undone.
MachineRestart ==
    \E v \in {file} \cup olderFiles, kept \in SUBSET unsettled :
        /\ v # Torn
        /\ Boot(v)
        /\ file' = v /\ olderFiles' = {}
        /\ backups' = (backups \ unsettled) \cup kept
        /\ unsettled' = {}

ServerStep ==
    \/ Refuse \/ Begin \/ Fail
    \/ BackUp \/ SyncBackups \/ Prune \/ PruneDone
    \/ Flush \/ Replace \/ Confirm \/ Unconfirmed
    \/ Remove \/ Removed

ClientStep ==
    \E c \in Client :
        \/ Read(c)
        \/ \E rev \in {NoRevision, held[c].rev} : Ask(c, "patch", rev, Nothing)
        \/ Ask(c, "import", NoRevision, Nothing)
        \/ \E b \in backups, kind \in {"restore", "remove"} :
               Ask(c, kind, NoRevision, b)

Next == ClientStep \/ ServerStep \/ ProcessRestart \/ MachineRestart

Spec == Init /\ [][Next]_storeVars

\* The event loop runs the server's steps, and a file-system call returns.
FairSpec == Spec /\ WF_storeVars(ServerStep)

-----------------------------------------------------------------------------
(* Properties.                                                             *)

\* Whatever configuration the directory may show after a crash at this
\* moment, it holds every edit a caller was told is saved and no import or
\* restore replaced: writeFileAtomically syncs the directory before persist
\* answers, and a save in doubt is not reported as one.
AcknowledgedEditsSurvive ==
    \A v \in ({file} \cup olderFiles) \ {Torn} : owed \subseteq Loaded(v)

\* At no moment, in the middle of a save or after several in doubt, can a
\* crash leave a file that the next boot could not parse.
EveryCrashLeavesAWholeFile == Torn \notin {file} \cup olderFiles

\* Between edits, what readers get is what the next boot will load, also
\* after an edit whose durability was in doubt (FileCommitError in persist).
MemoryMatchesFile == ~At("commitSync") => current = Loaded(file)

\* Whenever the process stops, the next boot finds a whole file with every edit
\* somebody was told is saved; between edits it finds just what readers get
\* (ConfigStore.persist; writeFileAtomically and the backups around it).
RestartsFindWhatWasSaved ==
    EveryCrashLeavesAWholeFile /\ AcknowledgedEditsSurvive /\ MemoryMatchesFile

\* When a configuration is about to be overwritten, a backup of exactly that
\* configuration is on disk for good, whatever was pruned to make room.
ReplacedConfigIsBackedUp ==
    At("replace") /\ file # Missing =>
        \E b \in backups \ unsettled : b.holds = file

\* A patch that names the revision it was built from never lands on anything
\* but the configuration its author saw at that revision: not after edits
\* queued before it, and not after a restart that reset the counter.
PatchesLandOnWhatTheirAuthorSaw ==
    [][ \A c \in Client :
          At("replace") /\ running.by = c /\ At("commitSync")'
          /\ asked[c].kind = "patch" /\ asked[c].rev # NoRevision =>
              file' = asked[c].saw \cup {asked[c].edit} ]_storeVars

\* The store is the register: edits take effect one at a time and whole, on
\* top of all those before them, and a restart loses none that was owed.
Register == INSTANCE ConfigRegister WITH value <- Loaded(file), owed <- owed

ImplementsRegister == Register!RegisterSpec

\* Every edit is answered, whichever of the edits before it fail.
EveryEditIsAnswered ==
    \A c \in Client : asked[c] # Nothing ~> asked[c] = Nothing

=============================================================================
