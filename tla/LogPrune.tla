----------------------------- MODULE LogPrune -----------------------------
(* The storage cap of the request log (logger.ts).  Rows are added as        *)
(* requests end.  When database and WAL together exceed the cap, a prune     *)
(* runs in stages with a timer between them, so that network I/O goes on:    *)
(* checkpoint, clear stored bodies, VACUUM, and only then delete the oldest  *)
(* rows.  Everything else - new rows, a new cap, a purge by the operator,    *)
(* the end of the process - happens between two stages.                      *)
(*                                                                           *)
(* SQLite is external.  A database has a size, which grows with its content  *)
(* and shrinks only in a VACUUM, and a WAL, which a checkpoint truncates.    *)
EXTENDS Integers, FiniteSets

CONSTANTS
    ROW_PAGES, BODY_PAGES,    \* what a row and its stored bodies take up
    Caps,                     \* the values of max_database_bytes, in pages
    STORAGE_PRUNE_MIN_DELETE_ROWS,
    STORAGE_PRUNE_MAX_PASSES,
    \* Bounds of the explored instance, used in guards only.
    MaxRows, MaxEdits, MaxRestarts, MaxFailures

ASSUME CapAssumption == Caps # {} /\ Caps \subseteq Nat \ {0}

ASSUME PruneAssumption ==
    /\ ROW_PAGES \in Nat /\ BODY_PAGES \in Nat
    /\ STORAGE_PRUNE_MIN_DELETE_ROWS \in Nat \ {0}
    /\ STORAGE_PRUNE_MAX_PASSES \in Nat \ {0}

VARIABLES
    rows,       \* the ids of the stored rows
    bodies,     \* those of them that store bodies
    added,      \* the last id given out
    size,       \* pages of the database file once the WAL is checkpointed
    wal,        \* pages of the WAL
    cap,        \* maxDatabaseBytes
    prune,      \* the scheduled timer and the paused generator
    requested,  \* storagePruneRequested
    closed,
    untold,     \* history: pruned rows of which no event told the Studios
    asked,      \* history: a prune is owed; an error or a restart cancels it
    used        \* edits, restarts and failures so far

pruneVars == <<rows, bodies, added, size, wal, cap, prune, requested, closed,
               untold, asked, used>>
database == <<rows, bodies, added, size, wal>>

Stage == {"none", "scheduled", "checkpointed", "cleared", "looping", "deleted"}
NoPrune == [stage |-> "none", passes |-> 0, changed |-> FALSE]
Scheduled == [NoPrune EXCEPT !.stage = "scheduled"]

\* The newest row is never pruned away.
TypeOK ==
    /\ added \in Nat /\ rows \subseteq 1..added /\ bodies \subseteq rows
    /\ added > 0 => added \in rows
    /\ size \in Nat /\ wal \in Nat /\ cap \in Caps
    /\ prune \in [stage : Stage, passes : Nat, changed : BOOLEAN]
    /\ requested \in BOOLEAN /\ closed \in BOOLEAN
    /\ untold \in BOOLEAN /\ asked \in BOOLEAN
    /\ used \in [{"edits", "restarts", "failures"} -> Nat]

\* What the database would take up after a VACUUM.
LivePages(R, B) == ROW_PAGES * Cardinality(R) + BODY_PAGES * Cardinality(B)

\* databaseFootprintBytes: what is on disk now.
Footprint == size + wal

Use(what) == used' = [used EXCEPT ![what] = @ + 1]
MayFail == used["failures"] < MaxFailures

-----------------------------------------------------------------------------
(* SQLite.                                                                 *)

\* A commit lengthens the WAL, unless SQLite has checkpointed it by itself and
\* starts it over.  A unit is enough: it is only compared with the cap.
Committed == wal' \in {wal, wal + 1}

\* reclaimSqliteStorage: checkpoint, VACUUM, checkpoint; stored are the rows
\* that store bodies now.
Reclaimed(stored) == size' = LivePages(rows, stored) /\ wal' = 0

\* It failed at one of the three; VACUUM writes the new file to the WAL first.
NotReclaimed(stored) ==
    \/ wal' \in {wal, 0} /\ UNCHANGED size
    \/ wal' = size /\ size' = LivePages(rows, stored)

-----------------------------------------------------------------------------
(* Asking for a prune.                                                     *)

\* Variant: a running prune is not told.
RequestUnnoted ==
    /\ prune' = IF prune.stage = "none" THEN Scheduled ELSE prune
    /\ asked' = TRUE
    /\ UNCHANGED requested

\* requestStoragePrune: one that is only scheduled will see for itself, one
\* that has begun is told.
RequestPrune ==
    /\ prune' = IF prune.stage = "none" THEN Scheduled ELSE prune
    /\ asked' = TRUE
    /\ requested' = (requested \/ prune.stage \notin {"none", "scheduled"})

\* add: a row is committed, with bodies or without.
Add(withBodies) ==
    /\ ~closed /\ added < MaxRows
    /\ added' = added + 1
    /\ rows' = rows \cup {added'}
    /\ bodies' = IF withBodies THEN bodies \cup {added'} ELSE bodies
    /\ LET live == LivePages(rows', bodies')
       IN  size' = IF size < live THEN live ELSE size
    /\ Committed
    /\ RequestPrune
    /\ UNCHANGED <<cap, closed, untold, used>>

\* configure, by an edit of the configuration.
Configure ==
    /\ ~closed /\ used["edits"] < MaxEdits /\ Use("edits")
    /\ cap' \in Caps
    /\ RequestPrune
    /\ UNCHANGED <<database, closed, untold>>

-----------------------------------------------------------------------------
(* The stages: each action is one call of advance.                         *)

Paused(stage, passes) ==
    /\ prune' = [stage |-> stage, passes |-> passes, changed |-> prune.changed]
    /\ UNCHANGED <<requested, untold>>

\* The stage has changed rows, and the Studios are told at the end.
Changed(stage) ==
    /\ prune' = [prune EXCEPT !.stage = stage, !.changed = TRUE]
    /\ untold' = TRUE

\* Variant: the next prune waits for the next row.
NotAgain(again) ==
    /\ prune' = NoPrune /\ requested' = FALSE
    /\ untold' = (untold /\ ~prune.changed)

\* The generator has ended: its finally block sends storage-pruned, and what
\* was asked for meanwhile is scheduled.
Ended(again) ==
    /\ prune' = IF again THEN Scheduled ELSE NoPrune
    /\ requested' = FALSE
    /\ untold' = (untold /\ ~prune.changed)

\* How many rows lie above the cap, and a tenth more, but at most nine tenths;
\* at least the minimum.
Excess ==
    LET count == Cardinality(rows)
        overshoot == 11 * size - 10 * cap
        share == IF overshoot > 9 * size THEN 9 * size ELSE overshoot
        wanted == (count * share + 10 * size - 1) \div (10 * size)
    IN  IF wanted < STORAGE_PRUNE_MIN_DELETE_ROWS
        THEN STORAGE_PRUNE_MIN_DELETE_ROWS ELSE wanted

\* What one pass deletes, never the last row.
RowsToDelete ==
    IF Cardinality(rows) - 1 < Excess THEN Cardinality(rows) - 1 ELSE Excess

Oldest(n) == {r \in rows : Cardinality({s \in rows : s < r}) < n}

DeleteOldest ==
    /\ rows' = rows \ Oldest(RowsToDelete)
    /\ bodies' = bodies \cap rows'
    /\ wal' \in {0, 1}
    /\ Changed("deleted")
    /\ requested' = FALSE
    /\ UNCHANGED size

\* Variant: rows are deleted whatever was written during the pauses.
LoopBlind(again) ==
    \/ /\ prune.passes >= STORAGE_PRUNE_MAX_PASSES
       /\ Ended(again)
       /\ UNCHANGED <<rows, bodies, size, wal>>
    \/ /\ prune.passes < STORAGE_PRUNE_MAX_PASSES
       /\ IF size > cap /\ Cardinality(rows) > 1
          THEN DeleteOldest
          ELSE /\ Ended(again)
               /\ wal' = 0
               /\ UNCHANGED <<rows, bodies>>
               /\ size' = IF size <= cap THEN size ELSE LivePages(rows, bodies)

\* The top of the loop: checkpoint, measure, and delete unless something was
\* written meanwhile, whose bodies have to go first.
Loop(again) ==
    \/ /\ prune.passes >= STORAGE_PRUNE_MAX_PASSES
       /\ Ended(again)
       /\ UNCHANGED <<rows, bodies, size, wal>>
    \/ /\ prune.passes < STORAGE_PRUNE_MAX_PASSES
       /\ IF size > cap /\ ~again /\ Cardinality(rows) > 1
          THEN DeleteOldest
          ELSE /\ Ended(again)
               /\ wal' = 0
               /\ UNCHANGED <<rows, bodies>>
               /\ size' = IF size <= cap \/ again THEN size ELSE LivePages(rows, bodies)

Begin ==
    /\ prune.stage = "scheduled"
    /\ IF Footprint <= cap
       THEN Ended(requested) /\ UNCHANGED wal
       ELSE wal' = 0 /\ Paused("checkpointed", 0)
    /\ UNCHANGED <<rows, bodies, size>>

\* Everything written so far is covered from here on.
ClearBodies ==
    /\ prune.stage = "checkpointed"
    /\ IF Footprint > cap /\ bodies # {}
       THEN /\ bodies' = {} /\ Committed
            /\ Changed("cleared")
            /\ requested' = FALSE
            /\ UNCHANGED <<rows, size>>
       ELSE Loop(FALSE)

Reclaim ==
    /\ prune.stage \in {"cleared", "deleted"}
    /\ Reclaimed(bodies)
    /\ Paused("looping", prune.passes + (IF prune.stage = "deleted" THEN 1 ELSE 0))
    /\ UNCHANGED <<rows, bodies>>

LoopStep == prune.stage = "looping" /\ Loop(requested)

\* An SQL statement of a stage fails; what was committed before stays.
Failed ==
    /\ prune.stage \notin {"none"} /\ MayFail /\ Use("failures")
    /\ \/ prune.stage = "scheduled" /\ Footprint > cap /\ UNCHANGED <<size, wal>>
       \/ /\ prune.stage \in {"checkpointed", "looping"}
          /\ prune.passes < STORAGE_PRUNE_MAX_PASSES
          /\ \/ wal' \in {wal, 0} /\ UNCHANGED size
             \/ size > cap /\ Cardinality(rows) <= 1 /\ NotReclaimed(bodies)
       \/ prune.stage \in {"cleared", "deleted"} /\ NotReclaimed(bodies)
    /\ Ended(requested /\ prune.stage # "checkpointed")
    /\ asked' = FALSE
    /\ UNCHANGED <<rows, bodies, added, cap, closed>>

\* advance, called by the timer.
Advance ==
    /\ Begin \/ ClearBodies \/ Reclaim \/ LoopStep
    /\ UNCHANGED <<added, cap, closed, asked, used>>

-----------------------------------------------------------------------------
(* The operator, the end of the process and the next one.                  *)

\* purgeStoredBodies: at once, and without the prune; the Studios are told even
\* if the space could not be reclaimed.
PurgeStoredBodies ==
    /\ ~closed /\ used["edits"] < MaxEdits
    /\ bodies' = {}
    /\ untold' = (untold /\ bodies = {})
    /\ \/ Reclaimed({}) /\ UNCHANGED asked /\ Use("edits")
       \/ /\ NotReclaimed({}) /\ asked' = FALSE /\ MayFail
          /\ used' = [used EXCEPT !["edits"] = @ + 1, !["failures"] = @ + 1]
    /\ UNCHANGED <<rows, added, cap, prune, requested, closed>>

\* Returning the paused generator runs its finally block.
Returned == untold' = (untold /\ ~prune.changed)

\* close: the stages to come are cancelled.
Close ==
    /\ ~closed /\ closed' = TRUE
    /\ Returned
    /\ prune' = NoPrune /\ requested' = FALSE /\ asked' = FALSE
    /\ wal' = 0
    /\ UNCHANGED <<rows, bodies, added, size, cap, used>>

\* The next process, after close or a crash.  A deferred prune is not asked for
\* at start-up; the Studios of the last process load anew.
Restart ==
    /\ used["restarts"] < MaxRestarts /\ Use("restarts")
    /\ closed' = FALSE /\ untold' = FALSE
    /\ prune' = NoPrune /\ requested' = FALSE /\ asked' = FALSE
    /\ UNCHANGED <<database, cap>>

Init ==
    /\ rows = {} /\ bodies = {} /\ added = 0 /\ size = 0 /\ wal = 0
    /\ cap \in Caps
    /\ prune = NoPrune /\ requested = FALSE /\ closed = FALSE
    /\ untold = FALSE /\ asked = FALSE
    /\ used = [x \in {"edits", "restarts", "failures"} |-> 0]

Next ==
    \/ \E withBodies \in BOOLEAN : Add(withBodies)
    \/ Configure \/ Advance \/ Failed \/ PurgeStoredBodies \/ Close \/ Restart

Spec == Init /\ [][Next]_pruneVars

\* The timers of the event loop fire.
FairSpec == Spec /\ WF_pruneVars(Advance)

-----------------------------------------------------------------------------
(* Properties.                                                             *)

\* No row is deleted while any row still stores a body, whatever was written
\* in the pauses of the prune: bodies go first.
BodiesGoFirst == [][rows \ rows' # {} => bodies = {}]_pruneVars

\* No change of rows is kept from the Studios: the paused prune that made it
\* will still tell them, also when it fails or is cancelled.
StudiosLearn == untold => prune.changed

\* A database that is written above its cap comes back below it, or down to one
\* row, unless an error or the end of the process intervenes.
PrunesAreServed ==
    (asked /\ Footprint > cap) ~>
        (~asked \/ Footprint <= cap \/ Cardinality(rows) <= 1)

\* Rows are deleted only if the database would exceed its cap even after its
\* free space has been reclaimed.
MetadataGoesLast ==
    [][rows \ rows' # {} => LivePages(rows, bodies) > cap]_pruneVars

===========================================================================
