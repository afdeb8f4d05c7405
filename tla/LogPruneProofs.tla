-------------------------- MODULE LogPruneProofs --------------------------
(***************************************************************************)
(* Proofs about LogPrune, for any number of rows, any sizes and caps.  The *)
(* invariant says what the stages rely on: between two stages of the loop  *)
(* no body is stored unless a write has asked for another prune, and only  *)
(* a prune that has changed rows has something to tell.                    *)
(***************************************************************************)
EXTENDS LogPrune, FiniteSetTheorems, TLAPS

\* From the clearing of the bodies on, only a write can bring some back.
BodiesAreGone ==
    prune.stage \in {"cleared", "looping", "deleted"} /\ ~requested => bodies = {}

\* A prune that has not begun has changed nothing.
Untouched == prune.stage \in {"none", "scheduled"} => ~prune.changed

PruneInv == TypeOK /\ BodiesAreGone /\ Untouched /\ StudiosLearn

-----------------------------------------------------------------------------

LEMMA Pages ==
    ASSUME NEW n \in Nat, NEW R \in SUBSET (1..n), NEW B \in SUBSET (1..n)
    PROVE  IsFiniteSet(R) /\ Cardinality(R) \in Nat /\ LivePages(R, B) \in Nat
<1>1. IsFiniteSet(1..n)
  BY FS_Interval
<1>2. IsFiniteSet(R) /\ IsFiniteSet(B)
  BY <1>1, FS_Subset
<1>3. Cardinality(R) \in Nat /\ Cardinality(B) \in Nat
  BY <1>2, FS_CardinalityType
<1>4. ASSUME NEW a \in Nat, NEW b \in Nat PROVE a * b \in Nat
  OBVIOUS
<1>5. ROW_PAGES * Cardinality(R) \in Nat /\ BODY_PAGES * Cardinality(B) \in Nat
  BY <1>3, <1>4, PruneAssumption
<1>6. LivePages(R, B) \in Nat
  BY <1>5 DEF LivePages
<1> QED
  BY <1>2, <1>3, <1>6

\* A pass deletes fewer rows than there are.
LEMMA SomeRowStays ==
    ASSUME TypeOK, size > 0
    PROVE  RowsToDelete \in Int /\ RowsToDelete <= Cardinality(rows) - 1
<1> DEFINE count == Cardinality(rows)
           overshoot == 11 * size - 10 * cap
           share == IF overshoot > 9 * size THEN 9 * size ELSE overshoot
           amount == count * share + 10 * size - 1
<1>1. count \in Nat
  BY Pages DEF TypeOK
<1>2. size \in Nat /\ cap \in Nat
  BY CapAssumption DEF TypeOK
<1>3. share \in Int
  BY <1>2
<1>4. count * share \in Int
  <2> HIDE DEF count, share
  <2> QED
    BY <1>1, <1>3
<1>5. amount \in Int /\ 10 * size \in Nat /\ 10 * size > 0
  <2> HIDE DEF count, share
  <2> QED
    BY <1>2, <1>4
<1>6. amount \div (10 * size) \in Int
  <2> HIDE DEF amount
  <2> QED
    BY <1>5
<1>7. Excess \in Int
  <2> DEFINE wanted == amount \div (10 * size)
  <2>1. Excess = IF wanted < STORAGE_PRUNE_MIN_DELETE_ROWS
                 THEN STORAGE_PRUNE_MIN_DELETE_ROWS ELSE wanted
    BY DEF Excess
  <2> HIDE DEF wanted
  <2> QED
    BY <1>6, <2>1, PruneAssumption DEF wanted
<1> QED
  BY <1>1, <1>7 DEF RowsToDelete

\* The newest row is not among those a pass deletes.
LEMMA NewestStays ==
    ASSUME TypeOK, size > 0, added \in rows
    PROVE  added \notin Oldest(RowsToDelete)
<1> DEFINE older == {s \in rows : s < added}
<1>1. IsFiniteSet(rows) /\ Cardinality(rows) \in Nat
  BY Pages DEF TypeOK
<1>2. older = rows \ {added}
  <2>1. \A s \in rows : s \in Nat /\ s <= added
    BY DEF TypeOK
  <2>2. \A s \in rows : s < added <=> s # added
    BY <2>1 DEF TypeOK
  <2> QED
    BY <2>2
<1>3. Cardinality(older) = Cardinality(rows) - 1
  BY <1>1, <1>2, FS_RemoveElement
<1>4. ~(Cardinality(older) < RowsToDelete)
  BY <1>1, <1>3, SomeRowStays
<1> QED
  BY <1>4 DEF Oldest

-----------------------------------------------------------------------------
(* What the parts of the actions preserve.                                 *)

\* The end of a prune.
LEMMA EndKeeps ==
    ASSUME PruneInv, NEW again \in BOOLEAN, Ended(again)
    PROVE  /\ prune' \in [stage : Stage, passes : Nat, changed : BOOLEAN]
           /\ prune'.stage \in {"none", "scheduled"} /\ ~prune'.changed
           /\ requested' = FALSE /\ untold' = FALSE
  BY DEF PruneInv, StudiosLearn, TypeOK, Ended, NoPrune, Scheduled, Stage

\* A request leaves a prune that has begun in its stage, and marks it.
LEMMA RequestKeeps ==
    ASSUME PruneInv, RequestPrune
    PROVE  /\ prune' \in [stage : Stage, passes : Nat, changed : BOOLEAN]
           /\ prune'.changed = prune.changed
           /\ prune'.stage \in {"none", "scheduled"} <=> prune.stage \in {"none", "scheduled"}
           /\ requested' \in BOOLEAN /\ asked' \in BOOLEAN
           /\ prune'.stage \notin {"none", "scheduled"} => requested'
  BY DEF PruneInv, Untouched, TypeOK, RequestPrune, NoPrune, Scheduled, Stage

\* The top of the loop, from a stage in which every stored body is waited for.
LEMMA LoopKeeps ==
    ASSUME PruneInv, NEW again \in BOOLEAN, Loop(again),
           size > cap /\ ~again => bodies = {},
           UNCHANGED <<added, cap, closed, asked, used>>
    PROVE  PruneInv' /\ (rows \ rows' # {} => bodies = {})
<1> USE DEF PruneInv
<1>1. CASE Ended(again) /\ UNCHANGED <<rows, bodies>> /\ size' \in Nat /\ wal' \in Nat
  BY <1>1, EndKeeps DEF TypeOK, BodiesAreGone, Untouched, StudiosLearn
<1>2. CASE DeleteOldest /\ size > cap /\ ~again
  <2>1. size \in Nat /\ cap \in Nat /\ size > 0
    BY <1>2, CapAssumption DEF TypeOK
  <2>2. rows' \subseteq 1..added' /\ (added' > 0 => added' \in rows')
    BY <1>2, <2>1, NewestStays DEF TypeOK, DeleteOldest
  <2>3. bodies = {} /\ bodies' = {}
    BY <1>2 DEF DeleteOldest
  <2>4. /\ prune' \in [stage : Stage, passes : Nat, changed : BOOLEAN]
        /\ prune'.stage = "deleted" /\ prune'.changed /\ untold' \in BOOLEAN
    BY <1>2 DEF DeleteOldest, Changed, TypeOK, Stage
  <2>5. wal' \in Nat /\ size' = size /\ requested' = FALSE
    BY <1>2 DEF DeleteOldest
  <2>6. TypeOK'
    BY <2>2, <2>3, <2>4, <2>5 DEF TypeOK
  <2> QED
    BY <2>3, <2>4, <2>6 DEF BodiesAreGone, Untouched, StudiosLearn
<1>3. LivePages(rows, bodies) \in Nat
  BY Pages DEF TypeOK
<1> QED
  BY <1>1, <1>2, <1>3 DEF Loop, TypeOK

-----------------------------------------------------------------------------
(* The invariant.                                                          *)

LEMMA PruneInit == Init => PruneInv
<1> SUFFICES ASSUME Init PROVE PruneInv
  OBVIOUS
<1>1. prune \in [stage : Stage, passes : Nat, changed : BOOLEAN]
  BY DEF Init, NoPrune, Stage
<1>2. used \in [{"edits", "restarts", "failures"} -> Nat]
  BY DEF Init
<1>3. /\ added = 0 /\ rows = {} /\ bodies = {} /\ size = 0 /\ wal = 0 /\ cap \in Caps
      /\ requested = FALSE /\ closed = FALSE /\ untold = FALSE /\ asked = FALSE
  BY DEF Init
<1>4. added \in Nat /\ size \in Nat /\ wal \in Nat /\ (added > 0 => added \in rows)
  BY <1>3
<1>5. rows \subseteq 1..added /\ bodies \subseteq rows
  BY <1>3
<1>6. requested \in BOOLEAN /\ closed \in BOOLEAN /\ untold \in BOOLEAN /\ asked \in BOOLEAN
  BY <1>3
<1>7. TypeOK
  BY <1>1, <1>2, <1>3, <1>4, <1>5, <1>6, Zenon DEF TypeOK
<1> QED
  BY <1>7 DEF Init, PruneInv, BodiesAreGone, Untouched, StudiosLearn, NoPrune

LEMMA AddKeeps ==
    ASSUME PruneInv, NEW withBodies \in BOOLEAN, Add(withBodies)
    PROVE  PruneInv'
<1> USE DEF PruneInv
<1>1. added' \in Nat /\ rows' \subseteq 1..added' /\ bodies' \subseteq rows' /\ added' \in rows'
  BY DEF Add, TypeOK
<1>2. LivePages(rows', bodies') \in Nat
  BY <1>1, Pages
<1>3. size' \in Nat /\ wal' \in Nat
  BY <1>2 DEF Add, Committed, TypeOK
<1>4. TypeOK'
  BY <1>1, <1>3, RequestKeeps DEF Add, TypeOK
<1> QED
  BY <1>4, RequestKeeps DEF Add, BodiesAreGone, Untouched, StudiosLearn

LEMMA ConfigureKeeps ==
    ASSUME PruneInv, Configure
    PROVE  PruneInv'
<1> USE DEF PruneInv
<1>1. TypeOK'
  BY RequestKeeps DEF Configure, Use, TypeOK, database
<1> QED
  BY <1>1, RequestKeeps DEF Configure, database, BodiesAreGone, Untouched, StudiosLearn

\* Whatever becomes of a reclaim, it leaves numbers of pages.
LEMMA ReclaimTypes ==
    ASSUME TypeOK, NEW B \in SUBSET rows, Reclaimed(B) \/ NotReclaimed(B)
    PROVE  size' \in Nat /\ wal' \in Nat
<1>1. LivePages(rows, B) \in Nat
  BY Pages DEF TypeOK
<1> QED
  BY <1>1 DEF TypeOK, Reclaimed, NotReclaimed

LEMMA AdvanceKeeps ==
    ASSUME PruneInv, Advance
    PROVE  PruneInv' /\ (rows \ rows' # {} => bodies = {})
<1> USE DEF PruneInv
<1>1. UNCHANGED <<added, cap, closed, asked, used>>
  BY DEF Advance
<1>2. CASE Begin
  <2>1. CASE Ended(requested)
    <3>1. UNCHANGED <<rows, bodies, size>> /\ wal' \in Nat
      BY <1>2 DEF Begin, TypeOK
    <3>2. requested \in BOOLEAN
      BY DEF TypeOK
    <3> QED
      BY <1>1, <2>1, <3>1, <3>2, EndKeeps
         DEF TypeOK, BodiesAreGone, Untouched, StudiosLearn
  <2>2. CASE Paused("checkpointed", 0)
    BY <1>1, <1>2, <2>2
       DEF Begin, Paused, TypeOK, Stage, BodiesAreGone, Untouched, StudiosLearn
  <2> QED
    BY <1>2, <2>1, <2>2 DEF Begin
<1>3. CASE ClearBodies
  <2>1. CASE Footprint > cap /\ bodies # {}
    <3>1. bodies' = {} /\ requested' = FALSE /\ UNCHANGED <<rows, size>>
      BY <1>3, <2>1 DEF ClearBodies
    <3>2. wal' \in Nat
      BY <1>3, <2>1 DEF ClearBodies, Committed, TypeOK
    <3>3. /\ prune' \in [stage : Stage, passes : Nat, changed : BOOLEAN]
          /\ prune'.stage = "cleared" /\ prune'.changed /\ untold' = TRUE
      BY <1>3, <2>1 DEF ClearBodies, Changed, TypeOK, Stage
    <3> QED
      BY <1>1, <3>1, <3>2, <3>3 DEF TypeOK, BodiesAreGone, Untouched, StudiosLearn
  <2>2. CASE ~(Footprint > cap /\ bodies # {})
    <3>1. size \in Nat /\ wal \in Nat /\ cap \in Nat
      BY CapAssumption DEF TypeOK
    <3>2. size > cap => bodies = {}
      BY <2>2, <3>1 DEF Footprint
    <3>3. Loop(FALSE)
      BY <1>3, <2>2 DEF ClearBodies
    <3> QED
      BY <1>1, <3>2, <3>3, LoopKeeps
  <2> QED
    BY <2>1, <2>2
<1>4. CASE Reclaim
  <2>1. size' \in Nat /\ wal' \in Nat
    BY <1>4, ReclaimTypes DEF Reclaim, TypeOK
  <2>2. /\ prune' \in [stage : Stage, passes : Nat, changed : BOOLEAN]
        /\ prune'.stage = "looping" /\ prune'.changed = prune.changed
        /\ UNCHANGED <<requested, untold, rows, bodies>>
    BY <1>4 DEF Reclaim, Paused, TypeOK, Stage
  <2>3. bodies = {} \/ requested
    BY <1>4 DEF Reclaim, BodiesAreGone, TypeOK
  <2> QED
    BY <1>1, <2>1, <2>2, <2>3 DEF TypeOK, BodiesAreGone, Untouched, StudiosLearn
<1>5. CASE LoopStep
  BY <1>1, <1>5, LoopKeeps DEF LoopStep, BodiesAreGone, TypeOK
<1> QED
  BY <1>2, <1>3, <1>4, <1>5 DEF Advance

LEMMA FailedKeeps ==
    ASSUME PruneInv, Failed
    PROVE  PruneInv'
<1> USE DEF PruneInv
<1>1. size' \in Nat /\ wal' \in Nat
  BY ReclaimTypes DEF Failed, TypeOK
<1>2. PICK again \in BOOLEAN : Ended(again)
  BY DEF Failed, TypeOK
<1>3. used' \in [{"edits", "restarts", "failures"} -> Nat]
  BY DEF Failed, Use, TypeOK
<1> QED
  BY <1>1, <1>2, <1>3, EndKeeps
     DEF Failed, TypeOK, BodiesAreGone, Untouched, StudiosLearn

LEMMA PurgeKeeps ==
    ASSUME PruneInv, PurgeStoredBodies
    PROVE  PruneInv'
<1> USE DEF PruneInv
<1>1. size' \in Nat /\ wal' \in Nat
  BY ReclaimTypes DEF PurgeStoredBodies
<1>2. used' \in [{"edits", "restarts", "failures"} -> Nat]
  BY DEF PurgeStoredBodies, Use, TypeOK
<1> QED
  BY <1>1, <1>2
     DEF PurgeStoredBodies, TypeOK, BodiesAreGone, Untouched, StudiosLearn

\* The end of the process and the start of the next one.
LEMMA ProcessKeeps ==
    ASSUME PruneInv, Close \/ Restart
    PROVE  PruneInv'
<1> USE DEF PruneInv
<1>1. untold' = FALSE
  BY DEF Close, Restart, Returned, StudiosLearn, TypeOK
<1>2. used' \in [{"edits", "restarts", "failures"} -> Nat]
  BY DEF Close, Restart, Use, TypeOK
<1>3. size' \in Nat /\ wal' \in Nat
  BY DEF Close, Restart, TypeOK, database
<1>4. UNCHANGED <<rows, bodies, added, cap>> /\ prune' = NoPrune
  BY DEF Close, Restart, database
<1> QED
  BY <1>1, <1>2, <1>3, <1>4
     DEF Close, Restart, TypeOK, Stage, NoPrune, BodiesAreGone, Untouched, StudiosLearn

\* A step keeps the invariant, and deletes no row while a body is stored.
LEMMA PruneStep ==
    ASSUME PruneInv, [Next]_pruneVars
    PROVE  PruneInv' /\ (rows \ rows' # {} => bodies = {})
<1>1. CASE \E withBodies \in BOOLEAN : Add(withBodies)
  BY <1>1, AddKeeps DEF Add
<1>2. CASE Configure
  BY <1>2, ConfigureKeeps DEF Configure, database
<1>3. CASE Advance
  BY <1>3, AdvanceKeeps
<1>4. CASE Failed
  BY <1>4, FailedKeeps DEF Failed
<1>5. CASE PurgeStoredBodies
  BY <1>5, PurgeKeeps DEF PurgeStoredBodies
<1>6. CASE Close \/ Restart
  BY <1>6, ProcessKeeps DEF Close, Restart, database
<1>7. CASE UNCHANGED pruneVars
  BY <1>7 DEF pruneVars, PruneInv, TypeOK, BodiesAreGone, Untouched, StudiosLearn
<1> QED
  BY <1>1, <1>2, <1>3, <1>4, <1>5, <1>6, <1>7 DEF Next

THEOREM PruneInvariant == Spec => []PruneInv
<1>1. PruneInv /\ [Next]_pruneVars => PruneInv'
  BY PruneStep
<1> QED
  BY PruneInit, <1>1, PTL DEF Spec

-----------------------------------------------------------------------------

\* The state keeps its shape, and no prune deletes the newest row.
THEOREM LogTypeCorrect == Spec => []TypeOK
<1>1. PruneInv => TypeOK
  BY DEF PruneInv
<1> QED
  BY PruneInvariant, <1>1, PTL

\* Whatever is written in the pauses of a prune (logger.ts, requestStoragePrune
\* and prunePersistedStorageSteps), no row goes while a body is stored.
THEOREM BodiesFirst == Spec => BodiesGoFirst
<1>1. PruneInv /\ [Next]_pruneVars => [rows \ rows' # {} => bodies = {}]_pruneVars
  BY PruneStep
<1> QED
  BY PruneInvariant, <1>1, PTL DEF Spec, BodiesGoFirst

\* However a prune ends, the Studios are told of the rows it has changed.
THEOREM StudiosAreTold == Spec => []StudiosLearn
<1>1. PruneInv => StudiosLearn
  BY DEF PruneInv
<1> QED
  BY PruneInvariant, <1>1, PTL

===========================================================================
