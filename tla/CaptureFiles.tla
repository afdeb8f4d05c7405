--------------------------- MODULE CaptureFiles ---------------------------
(***************************************************************************)
(* Debug captures: class DebugCaptureWriter (src/server/debug-capture.ts)  *)
(* with the log rows that refer to its files (logger.ts) and the handlers  *)
(* that write and read them.                                               *)
(*                                                                         *)
(* Every request leaves a row and, when capturing, a file.  A prune loop   *)
(* keeps the directory below a cap.  It lists, measures and deletes with   *)
(* an await between any two calls, while other requests write; it is asked *)
(* for after every write, unless an estimate of the directory's size says  *)
(* that there is nothing to do.                                            *)
(*                                                                         *)
(* One directory; a capture is the request it belongs to.                  *)
(***************************************************************************)
EXTENDS Integers, Sequences, FiniteSetsExt, SequencesExt

CONSTANTS
    Capture,
    Size,           \* the bytes of a capture's record
    Caps,           \* the values of capture_dir_max_bytes
    Unknown,
    MaxEdits, MaxRestarts, MaxFailures   \* bounds, used in guards only

ASSUME CaptureAssumption ==
    /\ IsFiniteSet(Capture) /\ Size \in [Capture -> Nat \ {0}]
    /\ Caps \subseteq Nat /\ Caps # {} /\ Unknown \notin Nat
    /\ MaxEdits \in Nat /\ MaxRestarts \in Nat /\ MaxFailures \in Nat

VARIABLES
    row,        \* capture_status of each request's row
    write,      \* how far the writing of its file is
    dir,        \* the files of the directory by time of their last write
    bytes,      \* and their sizes
    estimate,   \* directoryByteEstimates
    fresh,      \* the last scan is at most PRUNE_SCAN_MAX_SKIP_MS old
    max,        \* maxDirBytes
    prune,      \* pruneStates and the pass that runs
    stopping,   \* the server drains; then its logger is closed
    closed,
    orphaned,   \* history: files a crash kept a prune from reporting
    skipped,    \* history: writes that asked for no scan while one was running
    used        \* edits, restarts and failures so far

captureVars == <<row, write, dir, bytes, estimate, fresh, max, prune, stopping,
                 closed, orphaned, skipped, used>>

RowStatus == {"absent", "pending", "present", "none", "purged"}
WriteStage == {"idle", "begun", "open", "ended"}
NoPrune == [stage |-> "none", requested |-> FALSE, max |-> 0, rest |-> <<>>,
            seen |-> [c \in Capture |-> 0], total |-> 0, purged |-> {}]

Files == {dir[i] : i \in DOMAIN dir}

TypeOK ==
    /\ row \in [Capture -> RowStatus] /\ write \in [Capture -> WriteStage]
    /\ dir \in Seq(Capture) /\ Cardinality(Files) = Len(dir)
    /\ bytes \in [Capture -> Nat]
    /\ estimate \in Nat \cup {Unknown} /\ fresh \in BOOLEAN /\ max \in Caps
    /\ prune \in [stage : {"none", "listing", "measuring", "deleting"},
                  requested : BOOLEAN, max : Nat, rest : Seq(Capture),
                  seen : [Capture -> Nat], total : Nat, purged : SUBSET Capture]
    /\ stopping \in BOOLEAN /\ closed \in BOOLEAN
    /\ orphaned \subseteq Capture /\ skipped \subseteq Capture
    /\ used \in [{"edits", "restarts", "failures"} -> Nat]

SizeOf(sizes, files) == MapThenSumSet(LAMBDA c : sizes[c], files)
Total == SizeOf(bytes, Files)

\* Paths that a write has not handed over to its row yet.
Protected == {c \in Capture : write[c] \in {"begun", "open"}}

\* A file is listed once.
Without(s, c) == RemoveAt(s, CHOOSE i \in DOMAIN s : s[i] = c)

Use(what) == used' = [used EXCEPT ![what] = @ + 1]
MayFail == used["failures"] < MaxFailures

-----------------------------------------------------------------------------
(* Asking for a prune.                                                     *)

\* canSkipPruneScan: known, fresh and below PRUNE_SCAN_SKIP_MARGIN of the cap.
CanSkip(known, cap) == known # Unknown /\ 10 * known <= 9 * cap /\ fresh

\* A pass begins: it will work with the cap of now.
Passing(p, cap) == [p EXCEPT !.stage = "listing", !.requested = FALSE, !.max = cap]

\* Variant: a running loop is not told.
IgnoredWhileRunning(cap) ==
    IF prune.stage # "none" THEN prune ELSE Passing(prune, cap)

\* requestPrune when a scan is wanted: a running loop makes another pass.
Asked(cap) ==
    IF prune.stage # "none" THEN [prune EXCEPT !.requested = TRUE]
    ELSE Passing(prune, cap)

\* The end of write, successful or not: estimate and prune.
AfterWrite(c) ==
    LET known == IF estimate = Unknown THEN Unknown ELSE estimate + Size[c]
    IN  /\ estimate' = known
        /\ IF CanSkip(known, max)
           THEN /\ UNCHANGED prune
                /\ skipped' = IF prune.stage # "none" THEN skipped \cup {c} ELSE skipped
           ELSE prune' = Asked(max) /\ UNCHANGED skipped

\* configure, by an edit of the configuration: an explicit prune.
Configure ==
    /\ ~stopping /\ used["edits"] < MaxEdits /\ Use("edits")
    /\ \E cap \in Caps : max' = cap /\ prune' = Asked(cap)
    /\ UNCHANGED <<row, write, dir, bytes, estimate, fresh, stopping, closed,
                   orphaned, skipped>>

\* A minute passes since the last scan.
Stale ==
    /\ fresh /\ fresh' = FALSE
    /\ UNCHANGED <<row, write, dir, bytes, estimate, max, prune, stopping,
                   closed, orphaned, skipped, used>>

-----------------------------------------------------------------------------
(* Requests.                                                               *)

\* A request is logged and its capture begun.
Log(c) ==
    /\ row[c] = "absent" /\ write[c] = "idle" /\ ~stopping
    /\ row' = [row EXCEPT ![c] = "pending"]
    /\ write' = [write EXCEPT ![c] = "begun"]
    /\ UNCHANGED <<dir, bytes, estimate, fresh, max, prune, stopping, closed,
                   orphaned, skipped, used>>

\* The file is created, still empty.
Open(c) ==
    /\ write[c] = "begun"
    /\ write' = [write EXCEPT ![c] = "open"]
    /\ dir' = Append(dir, c) /\ bytes' = [bytes EXCEPT ![c] = 0]
    /\ UNCHANGED <<row, estimate, fresh, max, prune, stopping, closed, orphaned,
                   skipped, used>>

\* updateCapture: there may be no row any more.
UpdateRow(c, status) ==
    row' = IF row[c] = "absent" THEN row ELSE [row EXCEPT ![c] = status]

\* A file whose name was removed meanwhile is written to no avail.
Wrote(c) ==
    /\ write[c] = "open"
    /\ write' = [write EXCEPT ![c] = "ended"]
    /\ IF c \in Files
       THEN dir' = Append(Without(dir, c), c) /\ bytes' = [bytes EXCEPT ![c] = Size[c]]
       ELSE UNCHANGED <<dir, bytes>>
    /\ UpdateRow(c, "present")
    /\ AfterWrite(c)
    /\ UNCHANGED <<fresh, max, stopping, closed, orphaned, used>>

NotWritten(c) ==
    /\ write[c] \in {"begun", "open"} /\ MayFail /\ Use("failures")
    /\ write' = [write EXCEPT ![c] = "ended"]
    /\ UpdateRow(c, "none")
    /\ AfterWrite(c)
    /\ UNCHANGED <<dir, bytes, fresh, max, stopping, closed, orphaned>>

\* Somebody asks for a capture whose file is gone, or cannot be read.
ReadFailed(c) ==
    /\ row[c] = "present" /\ ~stopping
    /\ IF c \in Files THEN MayFail /\ Use("failures") ELSE UNCHANGED used
    /\ row' = [row EXCEPT ![c] = "purged"]
    /\ UNCHANGED <<write, dir, bytes, estimate, fresh, max, prune, stopping,
                   closed, orphaned, skipped>>

\* The storage cap of the database removes the row (external to this module).
RowDeleted(c) ==
    /\ row[c] # "absent" /\ ~closed
    /\ row' = [row EXCEPT ![c] = "absent"]
    /\ UNCHANGED <<write, dir, bytes, estimate, fresh, max, prune, stopping,
                   closed, orphaned, skipped, used>>

-----------------------------------------------------------------------------
(* The prune loop.                                                         *)

\* The loop begins another pass.
NextPass(p) == Passing(p, max)

\* The end of pruneOnce: rows of deleted files are marked, in one batch, and
\* the loop goes on if it was asked to.
EndPass(purged) ==
    /\ row' = [c \in Capture |->
                 IF c \in purged /\ row[c] = "present" THEN "purged" ELSE row[c]]
    /\ prune' = IF prune.requested THEN NextPass([NoPrune EXCEPT !.requested = TRUE])
                ELSE NoPrune

\* readdir; a directory that was never made cannot be read.
List ==
    /\ prune.stage = "listing"
    /\ \/ /\ prune' = [prune EXCEPT !.stage = "measuring", !.rest = dir,
                                    !.seen = [c \in Capture |-> IF c \in Protected THEN 1 ELSE 0]]
          /\ UNCHANGED row
       \/ dir = <<>> /\ EndPass({})
    /\ UNCHANGED <<write, dir, bytes, estimate, fresh, max, stopping, closed,
                   orphaned, skipped, used>>

\* The sizes that stat may have returned for a listed file: one that was being
\* written when it was listed may have been measured empty or whole.
Measured(c) == IF prune.seen[c] = 1 THEN {0, Size[c]} ELSE {bytes[c]}

\* Down to the cap, or nothing left but files that are gone or being written: the
\* pass ends. Otherwise the next file to unlink is chosen now; it heads the rest.
Continue(rest, seen, total, purged) ==
    LET victims == {i \in DOMAIN rest : rest[i] \in Files \ Protected}
    IN  IF total <= prune.max \/ victims = {}
        THEN EndPass(purged)
        ELSE /\ prune' = [prune EXCEPT !.stage = "deleting", !.seen = seen,
                              !.rest = SubSeq(rest, Min(victims), Len(rest)),
                              !.total = total, !.purged = purged]
             /\ UNCHANGED row

\* The last stat is back: what was measured replaces the estimate.  A file that is
\* gone by now has no size and is passed over.
Measure ==
    /\ prune.stage = "measuring"
    /\ LET listed == Files \cap {prune.rest[i] : i \in DOMAIN prune.rest}
       IN  \E seen \in [Capture -> {0} \cup UNION {Measured(c) : c \in listed}] :
             /\ \A c \in Capture : seen[c] \in IF c \in listed THEN Measured(c) ELSE {0}
             /\ estimate' = SizeOf(seen, listed)
             /\ Continue(prune.rest, seen, estimate', {})
    /\ fresh' = TRUE
    /\ UNCHANGED <<write, dir, bytes, max, stopping, closed, orphaned, skipped, used>>

\* unlink returns, or fails.
Delete ==
    /\ prune.stage = "deleting"
    /\ LET c == Head(prune.rest)
           total == prune.total - prune.seen[c]
       IN  \/ /\ dir' = Without(dir, c) /\ bytes' = [bytes EXCEPT ![c] = 0]
              /\ estimate' = total
              /\ Continue(Tail(prune.rest), prune.seen, total, prune.purged \cup {c})
              /\ UNCHANGED used
           \/ /\ MayFail /\ Use("failures")
              /\ Continue(Tail(prune.rest), prune.seen, prune.total, prune.purged)
              /\ UNCHANGED <<dir, bytes, estimate>>
    /\ UNCHANGED <<write, fresh, max, stopping, closed, orphaned, skipped>>

-----------------------------------------------------------------------------
(* Shutdown and restart.                                                   *)

Stop ==
    /\ ~stopping /\ stopping' = TRUE
    /\ UNCHANGED <<row, write, dir, bytes, estimate, fresh, max, prune, closed,
                   orphaned, skipped, used>>

\* flush waits for every prune.
Flushed == prune.stage = "none"

\* The requests are over and the captures flushed: the logger is closed.
Close ==
    /\ stopping /\ ~closed
    /\ \A c \in Capture : write[c] \in {"idle", "ended"}
    /\ Flushed
    /\ closed' = TRUE
    /\ UNCHANGED <<row, write, dir, bytes, estimate, fresh, max, prune, stopping,
                   orphaned, skipped, used>>

\* A new process, after a shutdown or a crash: reconcileInterruptedCaptures,
\* and the explicit prune of a new writer.
Restart ==
    /\ used["restarts"] < MaxRestarts /\ Use("restarts")
    /\ row' = [c \in Capture |-> IF row[c] = "pending" THEN "none" ELSE row[c]]
    /\ write' = [c \in Capture |-> IF write[c] = "idle" THEN "idle" ELSE "ended"]
    /\ estimate' = Unknown /\ fresh' = FALSE
    /\ prune' = Passing(NoPrune, max)
    /\ stopping' = FALSE /\ closed' = FALSE
    /\ orphaned' = orphaned \cup prune.purged
    /\ skipped' = {}
    /\ UNCHANGED <<dir, bytes, max>>

Init ==
    /\ row = [c \in Capture |-> "absent"] /\ write = [c \in Capture |-> "idle"]
    /\ dir = <<>> /\ bytes = [c \in Capture |-> 0]
    /\ estimate = Unknown /\ fresh = FALSE
    /\ max \in Caps /\ prune = Passing(NoPrune, max)
    /\ stopping = FALSE /\ closed = FALSE
    /\ orphaned = {} /\ skipped = {}
    /\ used = [x \in {"edits", "restarts", "failures"} |-> 0]

WriteStep(c) == Open(c) \/ Wrote(c) \/ NotWritten(c)
PruneStep == List \/ Measure \/ Delete

Next ==
    \/ \E c \in Capture : Log(c) \/ WriteStep(c) \/ ReadFailed(c) \/ RowDeleted(c)
    \/ PruneStep \/ Configure \/ Stale \/ Stop \/ Close \/ Restart

Spec == Init /\ [][Next]_captureVars

-----------------------------------------------------------------------------
(* Properties.                                                             *)

\* A row that offers a capture has its whole file, unless a prune deleted it
\* and is about to say so, or a crash kept it from saying so.
OfferedCapturesExist ==
    \A c \in Capture :
        row[c] = "present" =>
            \/ c \in Files /\ bytes[c] = Size[c]
            \/ c \in prune.purged \cup orphaned

\* When the logger is closed, every row is final: none waits for a file, and
\* none offers one that this process has deleted.
ClosedRowsAreFinal ==
    closed => \A c \in Capture :
        /\ row[c] # "pending"
        /\ row[c] = "present" => c \in Files \cup orphaned

Quiet == prune.stage = "none" /\ Protected = {}

\* A quiet directory is within its cap, unless a file could not be deleted, or
\* a write ended during a scan that nobody had asked to be repeated.
OnlySkippedWritesExceedTheCap ==
    Quiet /\ used["failures"] = 0 => Total <= max \/ skipped # {}

\* What the log says of a capture and what the directory holds agree at every
\* moment that matters: when a row is offered, when the log closes, and when
\* nothing moves any more (DebugCaptureWriter; RequestLogger.markCapturesPurged).
CapturesAreAccountedFor ==
    /\ TypeOK
    /\ OfferedCapturesExist /\ ClosedRowsAreFinal /\ OnlySkippedWritesExceedTheCap

\* The managed captures are within the cap when nothing is written or deleted.
CapturesWithinCap == Quiet /\ used["failures"] = 0 => Total <= max

===========================================================================
