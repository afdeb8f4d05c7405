---------------------------- MODULE LogFeedProofs ----------------------------
(***************************************************************************)
(* A quiet feed is exact: QuietFeedIsExact of LogFeed, for any number of   *)
(* rows, any page size and any buffer.                                     *)
(*                                                                         *)
(* The argument is about what has not arrived yet.  The events that are    *)
(* still in the queue, read as one stream, tell every row that was         *)
(* recorded after the first of them, in order, and the update of each row  *)
(* they tell as it was first recorded (EventStream).  A page is right      *)
(* "from the i-th event of a stream on" when everything it lacks, in its   *)
(* rows (ShownBy) or in its count (CountedBy), is told by a later event.   *)
(* The page on screen is right in that sense from the head of the queue    *)
(* (LogPageOK); what a request will show is right from the first event it  *)
(* has buffered (HeardBy, LoadsOK).  Both are excused only while something *)
(* is under way that asks for the page afresh (Due, Unsettled).  On a      *)
(* quiet feed the queue is empty and nothing is under way, so the page is  *)
(* right as it stands.                                                     *)
(*                                                                         *)
(* The events of a request are replayed by a fold.  That a fold merges one *)
(* event after the other is proved here from its definition, by taking a   *)
(* smallest size of the folded set for which no such function exists.      *)
(***************************************************************************)
EXTENDS LogFeed, FiniteSetTheorems, SequenceTheorems, WellFoundedInduction, TLAPS

-----------------------------------------------------------------------------
(* Sets of rows and the newest of them *)

\* A set of naturals that is not empty has a member whose predecessor is not in
\* it.
LEMMA LeastOf ==
  ASSUME NEW T \in SUBSET Nat, T # {}
  PROVE  \E n \in T : n = 0 \/ n - 1 \in Nat \ T
<1>1. PICK n \in T : \A m \in T : ~(<<m, n>> \in OpToRel(<, Nat))
  BY NatLessThanWellFounded, WFMin
<1>2. n # 0 => n - 1 \notin T
  <2> SUFFICES ASSUME n # 0, n - 1 \in T PROVE FALSE
    OBVIOUS
  <2>1. n - 1 \in Nat /\ n - 1 < n OBVIOUS
  <2>2. <<n - 1, n>> \in OpToRel(<, Nat)
    BY <2>1 DEF OpToRel
  <2> QED BY <1>1, <2>2
<1>3. n \in Nat
  OBVIOUS
<1>4. n = 0 \/ n - 1 \in Nat
  BY <1>3
<1> QED BY <1>2, <1>4

\* The newest n of a set of rows, as NewestOf chooses them.
TopOf(S, n) == {x \in S : Cardinality({y \in S : y > x}) < n}

\* A set of rows that has any has a newest one.
LEMMA NewestRow ==
  ASSUME NEW N \in Nat, NEW S \in SUBSET (1 .. N), S # {}
  PROVE  \E x \in S : \A y \in S : y <= x
<1> DEFINE T == {k \in Nat : N - k \in S}
<1>1. T \in SUBSET Nat /\ T # {}
  <2>1. PICK x \in S : TRUE OBVIOUS
  <2>2. x \in Int /\ N - x \in Nat /\ N - (N - x) = x BY <2>1
  <2>3. N - x \in T BY <2>2
  <2> QED BY <2>3
<1>2. PICK k \in T : \A m \in T : ~(<<m, k>> \in OpToRel(<, Nat))
  <2> HIDE DEF T
  <2> QED BY <1>1, NatLessThanWellFounded, WFMin
<1>3. \A m \in T : m >= k
  <2> SUFFICES ASSUME NEW m \in T, m < k PROVE FALSE
    BY <1>1
  <2>1. m \in Nat /\ k \in Nat OBVIOUS
  <2>2. <<m, k>> \in OpToRel(<, Nat) BY <2>1 DEF OpToRel
  <2> QED BY <1>2, <2>2
<1>4. \A y \in S : y <= N - k
  <2> SUFFICES ASSUME NEW y \in S PROVE y <= N - k OBVIOUS
  <2>1. y \in Int /\ N - y \in Nat /\ N - (N - y) = y OBVIOUS
  <2>2. N - y \in T BY <2>1
  <2>3. N - y >= k /\ k \in Int BY <1>3, <2>2
  <2> HIDE DEF T
  <2> QED BY <2>1, <2>3
<1> QED BY <1>4

\* The newest n of a set of rows: what is left out is older than what is kept.
LEMMA TopKept ==
  ASSUME NEW N \in Nat, NEW S \in SUBSET (1 .. N), NEW n \in Nat
  PROVE  /\ TopOf(S, n) \in SUBSET S
         /\ \A r \in S \ TopOf(S, n), x \in TopOf(S, n) : r < x
         /\ TopOf(S, n) = S \/ Cardinality(TopOf(S, n)) >= n
         /\ Cardinality(S) <= n => TopOf(S, n) = S
<1> DEFINE Above(x) == {y \in S : y > x}
<1>0. \A x \in S : x \in Int OBVIOUS
<1>1. IsFiniteSet(S)
  <2>1. IsFiniteSet(1 .. N) BY FS_Interval
  <2> QED BY <2>1, FS_Subset
<1>2. \A T \in SUBSET S : IsFiniteSet(T) /\ Cardinality(T) \in Nat /\ Cardinality(T) <= Cardinality(S)
  BY <1>1, FS_Subset, FS_CardinalityType
<1>3. \A T \in SUBSET S, U \in SUBSET S : T \subseteq U => Cardinality(T) <= Cardinality(U)
  BY <1>2, FS_Subset
<1>4. TopOf(S, n) \in SUBSET S BY DEF TopOf
<1>5. ASSUME NEW r \in S \ TopOf(S, n), NEW x \in TopOf(S, n) PROVE r < x
  <2> SUFFICES ASSUME ~(r < x) PROVE FALSE OBVIOUS
  <2>0. r \in S /\ x \in S BY <1>4
  <2>1. r \in Int /\ x \in Int BY <1>0, <2>0
  <2>2. Above(r) \subseteq Above(x)
    <3> SUFFICES ASSUME NEW y \in S, y > r PROVE y > x OBVIOUS
    <3>1. y \in Int BY <1>0
    <3> HIDE DEF Above
    <3> QED BY <2>1, <3>1
  <2>3. Cardinality(Above(r)) <= Cardinality(Above(x)) BY <1>3, <2>2
  <2>4. Cardinality(Above(x)) < n /\ ~(Cardinality(Above(r)) < n) BY DEF TopOf
  <2>5. Cardinality(Above(x)) \in Nat /\ Cardinality(Above(r)) \in Nat BY <1>2
  <2> HIDE DEF Above
  <2> QED BY <2>3, <2>4, <2>5
<1>6. ASSUME TopOf(S, n) # S PROVE Cardinality(TopOf(S, n)) >= n
  <2>1. PICK x \in S \ TopOf(S, n) : \A y \in S \ TopOf(S, n) : y <= x
    <3>1. S \ TopOf(S, n) \in SUBSET (1 .. N) /\ S \ TopOf(S, n) # {} BY <1>4, <1>6
    <3> QED BY <3>1, NewestRow
  <2>2. Above(x) \subseteq TopOf(S, n)
    <3> SUFFICES ASSUME NEW y \in S, y > x PROVE y \in TopOf(S, n) OBVIOUS
    <3>1. x \in Int /\ y \in Int BY <1>0
    <3>2. ~(y <= x) BY <3>1
    <3> QED BY <2>1, <3>2
  <2>3. Cardinality(Above(x)) <= Cardinality(TopOf(S, n)) BY <1>3, <1>4, <2>2
  <2>4. ~(Cardinality(Above(x)) < n) BY <2>1 DEF TopOf
  <2>5. Cardinality(Above(x)) \in Nat /\ Cardinality(TopOf(S, n)) \in Nat BY <1>2, <1>4
  <2> HIDE DEF Above
  <2> QED BY <2>3, <2>4, <2>5
<1>7. ASSUME Cardinality(S) <= n PROVE TopOf(S, n) = S
  <2> SUFFICES ASSUME NEW x \in S PROVE x \in TopOf(S, n) BY <1>4
  <2>1. Above(x) \subseteq S \ {x} OBVIOUS
  <2>2. /\ Cardinality(S \ {x}) = Cardinality(S) - 1 /\ Cardinality(S) \in Nat
        /\ Cardinality(Above(x)) \in Nat /\ Cardinality(Above(x)) <= Cardinality(S \ {x})
    BY <1>1, <1>2, <1>3, <2>1, FS_RemoveElement
  <2>3. Cardinality(Above(x)) < n
    <3> HIDE DEF Above
    <3> QED BY <1>7, <2>2
  <2> QED BY <2>3 DEF TopOf
<1> QED BY <1>4, <1>5, <1>6, <1>7

\* A part of a set of rows that is newer than the rest is its newest.
LEMMA TopFits ==
  ASSUME NEW N \in Nat, NEW S \in SUBSET (1 .. N), NEW T \in SUBSET S,
         \A r \in S \ T, x \in T : r < x
  PROVE  TopOf(S, Cardinality(T)) = T
<1> DEFINE Above(x) == {y \in S : y > x}
<1>0. \A x \in S : x \in Int OBVIOUS
<1>1. IsFiniteSet(S)
  <2>1. IsFiniteSet(1 .. N) BY FS_Interval
  <2> QED BY <2>1, FS_Subset
<1>2. \A U \in SUBSET S : IsFiniteSet(U) /\ Cardinality(U) \in Nat
  BY <1>1, FS_Subset, FS_CardinalityType
<1>3. ASSUME NEW x \in T PROVE Cardinality(Above(x)) < Cardinality(T)
  <2>1. Above(x) \in SUBSET (T \ {x})
    <3> SUFFICES ASSUME NEW y \in S, y > x PROVE y \in T \ {x} OBVIOUS
    <3>1. x \in Int /\ y \in Int /\ ~(y < x) /\ y # x BY <1>0
    <3> QED BY <3>1
  <2>2. /\ Cardinality(T \ {x}) = Cardinality(T) - 1 /\ Cardinality(T) \in Nat
        /\ Cardinality(Above(x)) \in Nat /\ Cardinality(Above(x)) <= Cardinality(T \ {x})
    BY <1>2, <2>1, FS_RemoveElement, FS_Subset
  <2> HIDE DEF Above
  <2> QED BY <2>2
<1>4. ASSUME NEW x \in S \ T PROVE ~(Cardinality(Above(x)) < Cardinality(T))
  <2>1. T \in SUBSET Above(x) OBVIOUS
  <2>2. /\ Cardinality(T) \in Nat /\ Cardinality(Above(x)) \in Nat
        /\ Cardinality(T) <= Cardinality(Above(x))
    BY <1>2, <2>1, FS_Subset
  <2> HIDE DEF Above
  <2> QED BY <2>2
<1> QED BY <1>3, <1>4 DEF TopOf

-----------------------------------------------------------------------------
(* Streams of events, and what a page says of the log but for a stream *)

\* What the stream carries.
FeedEvent == RowEvent \cup [kind : {"snapshot"}, page : FeedPage, invalidated : BOOLEAN]
                      \cup [kind : {"open", "error"}]

\* The rows of the log once n have been recorded.
RowLog(rows, n) ==
  /\ n \in 0 .. MaxRows
  /\ DOMAIN rows \in SUBSET (1 .. n)
  /\ rows \in [DOMAIN rows -> [hit : BOOLEAN, version : {0, 1}]]

\* The rows of a query.
HitBy(rows, q) == {r \in DOMAIN rows : q = "all" \/ rows[r].hit}

\* The events of V after the i-th tell of a row.
TellsOf(V, kind, r, i) == \E j \in 1 .. Len(V) : j > i /\ V[j].kind = kind /\ V[j].row = r

\* A snapshot that tells the tab that rows are gone.
Invalidates(e) == e.kind = "snapshot" /\ e.invalidated

\* The events on their way tell every row recorded after the first of them, in order,
\* and the update of each row that is told as it was first recorded.
InsertOK(V, i, rows, n, lost) ==
  LET told == V[i].row IN
  /\ told \in 1 .. n
  /\ \A r \in 1 .. n : TellsOf(V, "insert", r, i) <=> r > told
  /\ told \in DOMAIN rows \/ lost \/ \E j \in 1 .. Len(V) : j > i /\ Invalidates(V[j])
  /\ told \in DOMAIN rows => /\ V[i].hit = rows[told].hit
                            /\ (rows[told].version = 0 \/ TellsOf(V, "update", told, i))

\* An update tells of a row that has been recorded, and that has it.
UpdateOK(V, i, rows, n) ==
  /\ V[i].row \in 1 .. n
  /\ V[i].row \in DOMAIN rows => rows[V[i].row].version = 1

\* What all the events of a stream say of the log.
EventStream(V, rows, n, lost) ==
  \A i \in 1 .. Len(V) : /\ V[i].kind = "insert" => InsertOK(V, i, rows, n, lost)
                         /\ V[i].kind = "update" => UpdateOK(V, i, rows, n)

\* A page holds the newest rows of a query, but for what the events after the i-th tell.
ShownBy(P, q, V, i, rows) ==
  /\ DOMAIN P.logs \in SUBSET HitBy(rows, q)
  /\ \A r \in HitBy(rows, q) \ DOMAIN P.logs :
       \/ TellsOf(V, "insert", r, i)
       \/ Cardinality(DOMAIN P.logs) >= PageLimit /\ \A x \in DOMAIN P.logs : r < x
  /\ \A r \in DOMAIN P.logs : P.logs[r] = rows[r].version \/ TellsOf(V, "update", r, i)

\* A page counts the rows of a query, but for what the events after the i-th
\* tell.
CountedBy(P, q, V, i, rows, n) ==
  /\ P.latest <= n
  /\ P.total = Cardinality({r \in HitBy(rows, q) : r <= P.latest})
  /\ P.more <=> Cardinality(DOMAIN P.logs) < P.total
  /\ \A r \in DOMAIN P.logs : r <= P.latest
  /\ \A r \in (P.latest + 1) .. n : TellsOf(V, "insert", r, i)

\* One more event is told of what happens to the log.
Advances(rows, n, after, m, e) ==
  /\ RowLog(after, m)
  /\ m = IF e.kind = "insert" THEN n + 1 ELSE n
  /\ DOMAIN after = IF e.kind = "insert" THEN DOMAIN rows \cup {n + 1} ELSE DOMAIN rows
  /\ \A r \in DOMAIN rows :
       /\ after[r].hit = rows[r].hit
       /\ after[r].version = rows[r].version \/ (e.kind = "update" /\ e.row = r)
  /\ e.kind = "insert" => e.row = n + 1 /\ after[n + 1].hit = e.hit /\ after[n + 1].version = 0
  /\ e.kind = "update" => e.row \in DOMAIN rows /\ after[e.row].version = 1

\* A stream with one more event.
LEMMA Appended ==
  ASSUME NEW S, NEW V \in Seq(S), NEW e \in S
  PROVE  /\ Append(V, e) \in Seq(S) /\ Len(Append(V, e)) = Len(V) + 1
         /\ Append(V, e)[Len(V) + 1] = e
         /\ \A j \in 1 .. Len(V) : Append(V, e)[j] = V[j]
         /\ Len(V) \in Nat
OBVIOUS

\* One more event tells what the stream told, and what it tells itself.
LEMMA AppendTells ==
  ASSUME NEW V \in Seq(FeedEvent), NEW e \in FeedEvent, NEW i \in 0 .. Len(V), NEW kind, NEW r
  PROVE  TellsOf(Append(V, e), kind, r, i) <=> TellsOf(V, kind, r, i) \/ (e.kind = kind /\ e.row = r)
<1>1. /\ Len(Append(V, e)) = Len(V) + 1 /\ Append(V, e)[Len(V) + 1] = e
      /\ \A j \in 1 .. Len(V) : Append(V, e)[j] = V[j] /\ Len(V) \in Nat
  BY Appended
<1>2. ASSUME TellsOf(Append(V, e), kind, r, i) PROVE TellsOf(V, kind, r, i) \/ (e.kind = kind /\ e.row = r)
  <2>1. PICK j \in 1 .. Len(V) + 1 : /\ j > i /\ Append(V, e)[j].kind = kind
                                     /\ Append(V, e)[j].row = r
    BY <1>1, <1>2 DEF TellsOf
  <2>2. j \in 1 .. Len(V) \/ j = Len(V) + 1 BY <1>1
  <2> QED BY <1>1, <2>1, <2>2 DEF TellsOf
<1>3. ASSUME TellsOf(V, kind, r, i) PROVE TellsOf(Append(V, e), kind, r, i)
  <2>1. PICK j \in 1 .. Len(V) : j > i /\ V[j].kind = kind /\ V[j].row = r
    BY <1>3 DEF TellsOf
  <2>2. j \in 1 .. Len(V) + 1 BY <1>1
  <2> QED BY <1>1, <2>1, <2>2 DEF TellsOf
<1>4. ASSUME e.kind = kind, e.row = r PROVE TellsOf(Append(V, e), kind, r, i)
  <2>1. Len(V) + 1 \in 1 .. Len(V) + 1 /\ Len(V) + 1 > i BY <1>1
  <2> QED BY <1>1, <1>4, <2>1 DEF TellsOf
<1> QED BY <1>2, <1>3, <1>4

\* A stream stays true to the log when it is told of what happens to the log.
LEMMA StreamAdvances ==
  ASSUME NEW V \in Seq(FeedEvent), NEW e \in FeedEvent, NEW rows, NEW n, NEW after, NEW m,
         RowLog(rows, n), Advances(rows, n, after, m, e), NEW lost, NEW gone,
         EventStream(V, rows, n, lost), gone = lost \/ Invalidates(e)
  PROVE  EventStream(Append(V, e), after, m, gone)
<1> DEFINE W == Append(V, e)
<1>0. n \in Nat /\ m \in Nat /\ Len(V) \in Nat BY DEF RowLog, Advances
<1>1. /\ Len(W) = Len(V) + 1 /\ W[Len(V) + 1] = e
      /\ \A j \in 1 .. Len(V) : W[j] = V[j]
  BY Appended
<1>2. \A i \in 0 .. Len(V) : \A kind, r : TellsOf(W, kind, r, i) <=> TellsOf(V, kind, r, i) \/ (e.kind = kind /\ e.row = r)
  BY AppendTells
<1>3. \A j \in 1 .. Len(V) : V[j].kind = "insert" => V[j].row \in 1 .. n
  BY DEF EventStream, InsertOK
<1>4. \A kind, r : ~TellsOf(W, kind, r, Len(V) + 1)
  BY <1>0, <1>1 DEF TellsOf
<1> HIDE DEF W
<1>5. ASSUME NEW i \in 1 .. Len(V), V[i].kind = "insert" PROVE InsertOK(W, i, after, m, gone)
  <2> DEFINE told == V[i].row
  <2>1. InsertOK(V, i, rows, n, lost) /\ W[i] = V[i] /\ i \in 0 .. Len(V)
    BY <1>0, <1>1, <1>5 DEF EventStream
  <2>2. told \in 1 .. n /\ told \in 1 .. m
    BY <1>0, <2>1 DEF InsertOK, Advances
  <2>3. ASSUME NEW r \in 1 .. m PROVE TellsOf(W, "insert", r, i) <=> r > told
    <3>1. CASE r \in 1 .. n
      <4>1. ~(e.kind = "insert" /\ e.row = r) BY <1>0, <3>1 DEF Advances
      <4> QED BY <1>2, <2>1, <3>1, <4>1 DEF InsertOK
    <3>2. CASE r \notin 1 .. n
      <4>1. r = n + 1 /\ e.kind = "insert" /\ e.row = r BY <1>0, <3>2 DEF Advances
      <4> QED BY <1>0, <1>2, <2>1, <2>2, <4>1
    <3> QED BY <3>1, <3>2
  <2>4. told \in DOMAIN after \/ gone \/ \E j \in 1 .. Len(W) : j > i /\ Invalidates(W[j])
    <3>1. CASE told \in DOMAIN rows BY <3>1 DEF Advances
    <3>2. CASE lost
      <4>1. Len(V) + 1 \in 1 .. Len(W) /\ Len(V) + 1 > i BY <1>0, <1>1
      <4> QED BY <1>1, <3>2, <4>1
    <3>3. CASE \E j \in 1 .. Len(V) : j > i /\ Invalidates(V[j])
      <4>1. \A j \in 1 .. Len(V) : j \in 1 .. Len(W) BY <1>0, <1>1
      <4> QED BY <1>1, <3>3, <4>1
    <3> QED BY <2>1, <3>1, <3>2, <3>3 DEF InsertOK
  <2>5. ASSUME told \in DOMAIN after
        PROVE  /\ V[i].hit = after[told].hit
               /\ (after[told].version = 0 \/ TellsOf(W, "update", told, i))
    <3>1. told \in DOMAIN rows BY <1>0, <2>2, <2>5 DEF Advances
    <3>2. V[i].hit = rows[told].hit /\ (rows[told].version = 0 \/ TellsOf(V, "update", told, i))
      BY <2>1, <3>1 DEF InsertOK
    <3>3. /\ after[told].hit = rows[told].hit
          /\ after[told].version = rows[told].version \/ (e.kind = "update" /\ e.row = told)
      BY <3>1 DEF Advances
    <3> QED BY <1>2, <2>1, <3>2, <3>3
  <2> QED BY <2>1, <2>2, <2>3, <2>4, <2>5 DEF InsertOK
<1>6. ASSUME e.kind = "insert" PROVE InsertOK(W, Len(V) + 1, after, m, gone)
  BY <1>0, <1>1, <1>4, <1>6 DEF InsertOK, Advances
<1>7. ASSUME NEW i \in 1 .. Len(V), V[i].kind = "update" PROVE UpdateOK(W, i, after, m)
  <2>1. UpdateOK(V, i, rows, n) /\ W[i] = V[i] BY <1>1, <1>7 DEF EventStream
  <2>2. V[i].row \in 1 .. n /\ V[i].row \in 1 .. m /\ V[i].row # n + 1 BY <1>0, <2>1 DEF UpdateOK, Advances
  <2>3. V[i].row \in DOMAIN after => V[i].row \in DOMAIN rows BY <2>2 DEF Advances
  <2>4. V[i].row \in DOMAIN rows => after[V[i].row].version = 1
    BY <2>1 DEF UpdateOK, Advances
  <2> QED BY <2>1, <2>2, <2>3, <2>4 DEF UpdateOK
<1>8. ASSUME e.kind = "update" PROVE UpdateOK(W, Len(V) + 1, after, m)
  <2>1. e.row \in DOMAIN rows /\ after[e.row].version = 1 /\ m = n BY <1>8 DEF Advances
  <2>2. e.row \in 1 .. n BY <2>1 DEF RowLog
  <2> QED BY <1>1, <2>1, <2>2 DEF UpdateOK
<1>9. \A i \in 1 .. Len(W) : i \in 1 .. Len(V) \/ i = Len(V) + 1 BY <1>0, <1>1
<1> QED BY <1>1, <1>5, <1>6, <1>7, <1>8, <1>9 DEF EventStream, W

\* A prune takes rows out of the log; the streams that told of them are void.
LEMMA StreamPruned ==
  ASSUME NEW V, NEW rows, NEW n, NEW kept, NEW lost,
         DOMAIN kept \in SUBSET DOMAIN rows, \A r \in DOMAIN kept : kept[r] = rows[r],
         EventStream(V, rows, n, lost)
  PROVE  EventStream(V, kept, n, TRUE)
BY DEF EventStream, InsertOK, UpdateOK

\* A page stays right, but for a stream, when the stream is told of what
\* happens to the log.
LEMMA PageAdvances ==
  ASSUME NEW V \in Seq(FeedEvent), NEW e \in FeedEvent, NEW rows, NEW n, NEW after, NEW m,
         RowLog(rows, n), Advances(rows, n, after, m, e),
         NEW P \in FeedPage, NEW q, NEW i \in 0 .. Len(V), ShownBy(P, q, V, i, rows)
  PROVE  /\ ShownBy(P, q, Append(V, e), i, after)
         /\ CountedBy(P, q, V, i, rows, n) => CountedBy(P, q, Append(V, e), i, after, m)
<1> DEFINE W == Append(V, e)
<1>0. n \in Nat /\ m \in Nat BY DEF RowLog, Advances
<1>1. \A kind, r : TellsOf(W, kind, r, i) <=> TellsOf(V, kind, r, i) \/ (e.kind = kind /\ e.row = r)
  BY AppendTells
<1> HIDE DEF W
<1>2. \/ HitBy(after, q) = HitBy(rows, q)
      \/ HitBy(after, q) = HitBy(rows, q) \cup {n + 1} /\ e.kind = "insert" /\ e.row = n + 1
  <2>1. /\ \A r \in DOMAIN rows : after[r].hit = rows[r].hit
        /\ DOMAIN after = DOMAIN rows \/ DOMAIN after = DOMAIN rows \cup {n + 1}
        /\ DOMAIN after # DOMAIN rows => e.kind = "insert" /\ e.row = n + 1
    BY DEF Advances
  <2>2. CASE DOMAIN after = DOMAIN rows
    <3>1. \A r : r \in HitBy(rows, q) <=> r \in HitBy(after, q) BY <2>1, <2>2 DEF HitBy
    <3>2. HitBy(after, q) = HitBy(rows, q) BY <3>1
    <3> QED BY <3>2
  <2>3. CASE DOMAIN after # DOMAIN rows
    <3>1. \A r : r \in HitBy(rows, q) => r \in HitBy(after, q) BY <2>1 DEF HitBy
    <3>2. \A r : r \in HitBy(after, q) => r \in HitBy(rows, q) \/ r = n + 1 BY <2>1 DEF HitBy
    <3>3. HitBy(after, q) = HitBy(rows, q) \/ HitBy(after, q) = HitBy(rows, q) \cup {n + 1}
      BY <3>1, <3>2
    <3> QED BY <2>1, <2>3, <3>3
  <2> QED BY <2>2, <2>3
<1>3. HitBy(rows, q) \in SUBSET DOMAIN rows /\ HitBy(rows, q) \in SUBSET (1 .. n) BY DEF HitBy, RowLog
<1>4. \A r \in HitBy(after, q) \ DOMAIN P.logs :
       \/ TellsOf(W, "insert", r, i)
       \/ Cardinality(DOMAIN P.logs) >= PageLimit /\ \A x \in DOMAIN P.logs : r < x
  BY <1>1, <1>2 DEF ShownBy
<1>5. \A r \in DOMAIN P.logs : P.logs[r] = after[r].version \/ TellsOf(W, "update", r, i)
  <2> SUFFICES ASSUME NEW r \in DOMAIN P.logs
               PROVE  P.logs[r] = after[r].version \/ TellsOf(W, "update", r, i)
    OBVIOUS
  <2>1. r \in DOMAIN rows BY <1>3 DEF ShownBy
  <2> QED BY <1>1, <2>1 DEF ShownBy, Advances
<1>6. ShownBy(P, q, W, i, after) BY <1>2, <1>4, <1>5 DEF ShownBy
<1>7. ASSUME CountedBy(P, q, V, i, rows, n) PROVE CountedBy(P, q, W, i, after, m)
  <2>1. P.latest \in Nat /\ P.latest <= n /\ P.latest <= m BY <1>0, <1>7 DEF CountedBy, Advances, FeedPage
  <2>2. {r \in HitBy(after, q) : r <= P.latest} = {r \in HitBy(rows, q) : r <= P.latest}
    <3>1. ~(n + 1 <= P.latest) BY <1>0, <2>1
    <3> QED BY <1>2, <3>1
  <2>3. \A r \in (P.latest + 1) .. m : TellsOf(W, "insert", r, i)
    <3> SUFFICES ASSUME NEW r \in (P.latest + 1) .. m PROVE TellsOf(W, "insert", r, i)
      OBVIOUS
    <3>1. r \in (P.latest + 1) .. n \/ (r = n + 1 /\ e.kind = "insert" /\ e.row = r)
      BY <1>0, <2>1 DEF Advances
    <3> QED BY <1>1, <1>7, <3>1 DEF CountedBy
  <2> QED BY <1>7, <2>1, <2>2, <2>3 DEF CountedBy
<1> QED BY <1>6, <1>7 DEF W

-----------------------------------------------------------------------------
(* Parts of a stream: events about no row can be left out *)

\* The events that the argument depends on.
Matters(e) == e.kind \in {"insert", "update"} \/ Invalidates(e)

\* W is what V says from its f[0]-th event on, but for events about no row.
Within(W, V, f) ==
  /\ f \in [0 .. Len(W) -> 0 .. Len(V)]
  /\ \A i, j \in 0 .. Len(W) : i < j => f[i] < f[j]
  /\ \A j \in 1 .. Len(W) : W[j] = V[f[j]]
  /\ \A i \in 0 .. Len(W), k \in 1 .. Len(V) :
       k > f[i] /\ Matters(V[k]) => \E j \in 1 .. Len(W) : j > i /\ f[j] = k

\* A part of a stream that leaves no row out tells the same of every row.
LEMMA WithinTells ==
  ASSUME NEW V \in Seq(FeedEvent), NEW W \in Seq(FeedEvent), NEW f, Within(W, V, f),
         NEW kind \in {"insert", "update"}, NEW r, NEW i \in 0 .. Len(W)
  PROVE  TellsOf(V, kind, r, f[i]) <=> TellsOf(W, kind, r, i)
<1>0. Len(V) \in Nat /\ Len(W) \in Nat OBVIOUS
<1>1. ASSUME TellsOf(V, kind, r, f[i]) PROVE TellsOf(W, kind, r, i)
  <2>1. PICK k \in 1 .. Len(V) : k > f[i] /\ V[k].kind = kind /\ V[k].row = r
    BY <1>1 DEF TellsOf
  <2>2. Matters(V[k]) BY <2>1 DEF Matters
  <2>3. PICK j \in 1 .. Len(W) : j > i /\ f[j] = k BY <2>1, <2>2 DEF Within
  <2>4. W[j] = V[k] BY <2>3 DEF Within
  <2> QED BY <2>1, <2>3, <2>4 DEF TellsOf
<1>2. ASSUME TellsOf(W, kind, r, i) PROVE TellsOf(V, kind, r, f[i])
  <2>1. PICK j \in 1 .. Len(W) : j > i /\ W[j].kind = kind /\ W[j].row = r
    BY <1>2 DEF TellsOf
  <2>2. f[i] \in 0 .. Len(V) /\ f[j] \in 0 .. Len(V) /\ f[i] < f[j] /\ W[j] = V[f[j]]
    BY <1>0, <2>1 DEF Within
  <2>3. f[j] \in 1 .. Len(V) /\ f[j] > f[i] BY <1>0, <2>2
  <2> QED BY <2>1, <2>2, <2>3 DEF TellsOf
<1> QED BY <1>1, <1>2

\* So what is right but for the stream is right but for the part.
LEMMA WithinKeeps ==
  ASSUME NEW V \in Seq(FeedEvent), NEW W \in Seq(FeedEvent), NEW f, Within(W, V, f),
         NEW rows, NEW n
  PROVE  /\ \A lost : EventStream(V, rows, n, lost) => EventStream(W, rows, n, lost)
         /\ \A P, q : \A i \in 0 .. Len(W) :
              /\ ShownBy(P, q, V, f[i], rows) => ShownBy(P, q, W, i, rows)
              /\ CountedBy(P, q, V, f[i], rows, n) => CountedBy(P, q, W, i, rows, n)
<1>1. \A i \in 0 .. Len(W), kind \in {"insert", "update"} : \A r :
        TellsOf(V, kind, r, f[i]) <=> TellsOf(W, kind, r, i)
  BY WithinTells
<1>2. \A i \in 1 .. Len(W) : i \in 0 .. Len(W) /\ f[i] \in 1 .. Len(V) /\ W[i] = V[f[i]]
  <2> SUFFICES ASSUME NEW i \in 1 .. Len(W) PROVE f[i] \in 1 .. Len(V) /\ i \in 0 .. Len(W)
    BY DEF Within
  <2>1. Len(V) \in Nat /\ Len(W) \in Nat OBVIOUS
  <2>2. 0 \in 0 .. Len(W) /\ i \in 0 .. Len(W) /\ 0 < i BY <2>1
  <2>3. f[0] \in 0 .. Len(V) /\ f[i] \in 0 .. Len(V) /\ f[0] < f[i] BY <2>2 DEF Within
  <2> QED BY <2>1, <2>2, <2>3
<1>3. ASSUME NEW lost, EventStream(V, rows, n, lost), NEW i \in 1 .. Len(W), W[i].kind = "insert"
      PROVE  InsertOK(W, i, rows, n, lost)
  <2>1. InsertOK(V, f[i], rows, n, lost) BY <1>2, <1>3 DEF EventStream
  <2>2. ASSUME NEW k \in 1 .. Len(V), k > f[i], Invalidates(V[k])
        PROVE  \E j \in 1 .. Len(W) : j > i /\ Invalidates(W[j])
    <3>1. PICK j \in 1 .. Len(W) : j > i /\ f[j] = k BY <1>2, <2>2 DEF Within, Matters
    <3> QED BY <1>2, <2>2, <3>1
  <2> QED BY <1>1, <1>2, <2>1, <2>2 DEF InsertOK
<1>4. ASSUME NEW lost, EventStream(V, rows, n, lost), NEW i \in 1 .. Len(W), W[i].kind = "update"
      PROVE  UpdateOK(W, i, rows, n)
  BY <1>2, <1>4 DEF EventStream, UpdateOK
<1>5. \A lost : EventStream(V, rows, n, lost) => EventStream(W, rows, n, lost)
  BY <1>3, <1>4 DEF EventStream
<1>6. ASSUME NEW P, NEW q, NEW i \in 0 .. Len(W), ShownBy(P, q, V, f[i], rows)
      PROVE  ShownBy(P, q, W, i, rows)
  BY <1>1, <1>6 DEF ShownBy
<1>7. ASSUME NEW P, NEW q, NEW i \in 0 .. Len(W), CountedBy(P, q, V, f[i], rows, n)
      PROVE  CountedBy(P, q, W, i, rows, n)
  BY <1>1, <1>7 DEF CountedBy
<1> QED BY <1>5, <1>6, <1>7

\* The first event is left out.
LEMMA TailWithin ==
  ASSUME NEW V \in Seq(FeedEvent), V # << >>
  PROVE  Within(Tail(V), V, [i \in 0 .. Len(Tail(V)) |-> i + 1])
<1> DEFINE W == Tail(V)
<1>1. Len(V) \in Nat /\ Len(W) = Len(V) - 1 /\ Len(W) \in Nat /\ \A j \in 1 .. Len(W) : W[j] = V[j + 1]
  OBVIOUS
<1> HIDE DEF W
<1>2. ASSUME NEW i \in 0 .. Len(W), NEW k \in 1 .. Len(V), k > i + 1
      PROVE  \E j \in 1 .. Len(W) : j > i /\ j \in 0 .. Len(W) /\ j + 1 = k
  <2>1. k - 1 \in 1 .. Len(W) /\ k - 1 > i /\ k - 1 \in 0 .. Len(W) /\ (k - 1) + 1 = k BY <1>1, <1>2
  <2> QED BY <2>1
<1>3. [i \in 0 .. Len(W) |-> i + 1] \in [0 .. Len(W) -> 0 .. Len(V)] BY <1>1
<1>4. \A j \in 1 .. Len(W) : j \in 0 .. Len(W) BY <1>1
<1>5. Within(W, V, [i \in 0 .. Len(W) |-> i + 1])
  <2> DEFINE f == [i \in 0 .. Len(W) |-> i + 1]
  <2>1. \A i \in 0 .. Len(W) : f[i] = i + 1 OBVIOUS
  <2> HIDE DEF f
  <2>2. f \in [0 .. Len(W) -> 0 .. Len(V)] BY <1>3 DEF f
  <2>3. \A i, j \in 0 .. Len(W) : i < j => f[i] < f[j] BY <1>1, <2>1
  <2>4. \A j \in 1 .. Len(W) : W[j] = V[f[j]] BY <1>1, <1>4, <2>1
  <2>5. \A i \in 0 .. Len(W), k \in 1 .. Len(V) :
          k > f[i] /\ Matters(V[k]) => \E j \in 1 .. Len(W) : j > i /\ f[j] = k
    BY <1>2, <2>1
  <2> QED BY <2>2, <2>3, <2>4, <2>5 DEF Within, f
<1> QED BY <1>5 DEF W

\* What is heard of a request is over, the queue is left.
LEMMA QueueWithin ==
  ASSUME NEW L \in Seq(FeedEvent), NEW Q \in Seq(FeedEvent)
  PROVE  Within(Q, L \o Q, [i \in 0 .. Len(Q) |-> i + Len(L)])
<1> DEFINE V == L \o Q
<1>1. /\ V \in Seq(FeedEvent) /\ Len(V) = Len(L) + Len(Q) /\ Len(L) \in Nat /\ Len(Q) \in Nat
      /\ \A i \in 1 .. Len(V) : V[i] = IF i <= Len(L) THEN L[i] ELSE Q[i - Len(L)]
  BY ConcatProperties
<1> HIDE DEF V
<1>2. ASSUME NEW i \in 0 .. Len(Q), NEW k \in 1 .. Len(V), k > i + Len(L)
      PROVE  \E j \in 1 .. Len(Q) : j > i /\ j \in 0 .. Len(Q) /\ j + Len(L) = k
  <2>1. /\ k - Len(L) \in 1 .. Len(Q) /\ k - Len(L) > i /\ k - Len(L) \in 0 .. Len(Q)
        /\ (k - Len(L)) + Len(L) = k
    BY <1>1, <1>2
  <2> QED BY <2>1
<1>3. \A j \in 1 .. Len(Q) : /\ j + Len(L) \in 1 .. Len(V) /\ ~(j + Len(L) <= Len(L))
                             /\ (j + Len(L)) - Len(L) = j /\ j \in 0 .. Len(Q)
  BY <1>1
<1>4. \A j \in 1 .. Len(Q) : Q[j] = V[j + Len(L)] BY <1>1, <1>3
<1>5. [i \in 0 .. Len(Q) |-> i + Len(L)] \in [0 .. Len(Q) -> 0 .. Len(V)] BY <1>1
<1>6. Within(Q, V, [i \in 0 .. Len(Q) |-> i + Len(L)]) BY <1>1, <1>2, <1>3, <1>4, <1>5 DEF Within
<1> QED BY <1>6 DEF V

\* An event about no row is read.
LEMMA SkipWithin ==
  ASSUME NEW L \in Seq(FeedEvent), NEW Q \in Seq(FeedEvent), Q # << >>, ~Matters(Head(Q))
  PROVE  Within(L \o Tail(Q), L \o Q,
                [i \in 0 .. Len(L \o Tail(Q)) |-> IF i <= Len(L) THEN i ELSE i + 1])
<1> DEFINE V == L \o Q
           T == Tail(Q)
           W == L \o T
           f == [i \in 0 .. Len(W) |-> IF i <= Len(L) THEN i ELSE i + 1]
<1>1. /\ V \in Seq(FeedEvent) /\ Len(V) = Len(L) + Len(Q) /\ Len(L) \in Nat /\ Len(Q) \in Nat
      /\ \A i \in 1 .. Len(V) : V[i] = IF i <= Len(L) THEN L[i] ELSE Q[i - Len(L)]
  BY ConcatProperties
<1>2. T \in Seq(FeedEvent) /\ Len(T) = Len(Q) - 1 /\ Len(Q) > 0 /\ Head(Q) = Q[1] /\ \A j \in 1 .. Len(T) : T[j] = Q[j + 1]
  OBVIOUS
<1> HIDE DEF T
<1>3. /\ W \in Seq(FeedEvent) /\ Len(W) = Len(L) + Len(T)
      /\ \A i \in 1 .. Len(W) : W[i] = IF i <= Len(L) THEN L[i] ELSE T[i - Len(L)]
  <2>1. T \in Seq(FeedEvent) BY <1>2
  <2>2. W \in Seq(FeedEvent) BY <2>1
  <2> QED BY <2>1, <2>2, ConcatProperties
<1> HIDE DEF V, W
<1>4. Len(W) = Len(V) - 1 BY <1>1, <1>2, <1>3
<1>5. ASSUME NEW j \in 1 .. Len(W) PROVE W[j] = V[f[j]]
  <2>1. CASE j <= Len(L)
    <3>1. j \in 1 .. Len(V) /\ f[j] = j BY <1>1, <1>4, <2>1
    <3> HIDE DEF f
    <3> QED BY <1>1, <1>3, <2>1, <3>1
  <2>2. CASE ~(j <= Len(L))
    <3>1. /\ f[j] = j + 1 /\ j + 1 \in 1 .. Len(V) /\ ~(j + 1 <= Len(L))
          /\ j - Len(L) \in 1 .. Len(T) /\ (j + 1) - Len(L) = (j - Len(L)) + 1
      BY <1>1, <1>2, <1>3, <1>4, <2>2
    <3>2. W[j] = T[j - Len(L)] /\ V[j + 1] = Q[(j + 1) - Len(L)]
      BY <1>1, <1>3, <2>2, <3>1
    <3> HIDE DEF f
    <3> QED BY <1>2, <3>1, <3>2
  <2> QED BY <2>1, <2>2
<1>6. ~Matters(V[Len(L) + 1])
  <2>1. /\ Len(L) + 1 \in 1 .. Len(V) /\ ~(Len(L) + 1 <= Len(L)) /\ (Len(L) + 1) - Len(L) = 1
    BY <1>1, <1>2
  <2> QED BY <1>1, <1>2, <2>1
<1>7. ASSUME NEW i \in 0 .. Len(W), NEW k \in 1 .. Len(V), k > f[i], Matters(V[k])
      PROVE  \E j \in 1 .. Len(W) : j > i /\ f[j] = k
  <2>0. k # Len(L) + 1 BY <1>6, <1>7
  <2> DEFINE j == IF k <= Len(L) THEN k ELSE k - 1
  <2>1. j \in 1 .. Len(W) /\ j \in 0 .. Len(W) /\ f[j] = k /\ j > i BY <1>1, <1>4, <1>7, <2>0
  <2> QED BY <2>1
<1>8. f \in [0 .. Len(W) -> 0 .. Len(V)] BY <1>1, <1>4
<1>9. \A i, j \in 0 .. Len(W) : i < j => f[i] < f[j] BY <1>1, <1>4
<1>10. Within(W, V, f)
  <2> HIDE DEF f
  <2> QED BY <1>5, <1>7, <1>8, <1>9 DEF Within
<1> QED BY <1>10 DEF V, W, T

-----------------------------------------------------------------------------
(* The pages of log-utils.ts *)

\* The rows of a page are a function on some of the rows.
LEMMA LogsTyped ==
  ASSUME NEW logs
  PROVE  logs \in FeedLogs <=> /\ DOMAIN logs \in SUBSET (1 .. MaxRows)
                               /\ logs \in [DOMAIN logs -> {0, 1}]
<1>1. ASSUME logs \in FeedLogs
      PROVE  DOMAIN logs \in SUBSET (1 .. MaxRows) /\ logs \in [DOMAIN logs -> {0, 1}]
  <2>1. PICK D \in SUBSET (1 .. MaxRows) : logs \in [D -> {0, 1}] BY <1>1 DEF FeedLogs
  <2>2. DOMAIN logs = D BY <2>1
  <2> QED BY <2>1, <2>2
<1>2. ASSUME DOMAIN logs \in SUBSET (1 .. MaxRows), logs \in [DOMAIN logs -> {0, 1}]
      PROVE  logs \in FeedLogs
  BY <1>2 DEF FeedLogs
<1> QED BY <1>1, <1>2

\* The fields of a page.
LEMMA PageParts ==
  ASSUME NEW P \in FeedPage
  PROVE  /\ P.logs \in FeedLogs /\ DOMAIN P.logs \in SUBSET (1 .. MaxRows)
         /\ P.logs \in [DOMAIN P.logs -> {0, 1}]
         /\ IsFiniteSet(DOMAIN P.logs) /\ Cardinality(DOMAIN P.logs) \in Nat
         /\ P.limit \in Nat /\ P.limit >= PageLimit /\ P.latest \in Nat /\ P.total \in Nat /\ P.more \in BOOLEAN
<1>1. P.logs \in FeedLogs BY DEF FeedPage
<1>2. DOMAIN P.logs \in SUBSET (1 .. MaxRows) /\ P.logs \in [DOMAIN P.logs -> {0, 1}]
  BY <1>1, LogsTyped
<1>3. IsFiniteSet(1 .. MaxRows) BY FeedAssumption, FS_Interval
<1>4. IsFiniteSet(DOMAIN P.logs) /\ Cardinality(DOMAIN P.logs) \in Nat
  BY <1>2, <1>3, FS_Subset, FS_CardinalityType
<1> QED BY <1>1, <1>2, <1>4 DEF FeedPage

\* What the newest rows of a page are.
LEMMA NewestIs ==
  ASSUME NEW logs, NEW n
  PROVE  /\ DOMAIN NewestOf(logs, n) = TopOf(DOMAIN logs, n)
         /\ \A r \in TopOf(DOMAIN logs, n) : NewestOf(logs, n)[r] = logs[r]
         /\ NewestOf(logs, n) = [r \in TopOf(DOMAIN logs, n) |-> logs[r]]
BY DEF NewestOf, Restrict, TopOf

\* The newest rows of a page are rows of a page.
LEMMA NewestTyped ==
  ASSUME NEW logs \in FeedLogs, NEW n
  PROVE  NewestOf(logs, n) \in FeedLogs
<1>1. DOMAIN logs \in SUBSET (1 .. MaxRows) /\ logs \in [DOMAIN logs -> {0, 1}] BY LogsTyped
<1>2. TopOf(DOMAIN logs, n) \in SUBSET DOMAIN logs BY DEF TopOf
<1> DEFINE kept == [r \in TopOf(DOMAIN logs, n) |-> logs[r]]
<1>3. DOMAIN kept \in SUBSET (1 .. MaxRows) /\ kept \in [DOMAIN kept -> {0, 1}] BY <1>1, <1>2
<1>4. kept \in FeedLogs
  <2> HIDE DEF kept
  <2> QED BY <1>3, LogsTyped
<1> QED BY <1>4, NewestIs

\* Two pages are merged: the first is preferred.
LEMMA JoinTyped ==
  ASSUME NEW f \in FeedLogs, NEW g \in FeedLogs
  PROVE  /\ mergeUniqueLogs(f, g) \in FeedLogs /\ DOMAIN (mergeUniqueLogs(f, g)) = DOMAIN f \cup DOMAIN g
         /\ \A r \in DOMAIN f : (mergeUniqueLogs(f, g))[r] = f[r]
         /\ \A r \in DOMAIN g \ DOMAIN f : (mergeUniqueLogs(f, g))[r] = g[r]
<1>1. /\ DOMAIN f \in SUBSET (1 .. MaxRows) /\ f \in [DOMAIN f -> {0, 1}]
      /\ DOMAIN g \in SUBSET (1 .. MaxRows) /\ g \in [DOMAIN g -> {0, 1}]
  BY LogsTyped
<1> DEFINE h == mergeUniqueLogs(f, g)
<1>2. /\ DOMAIN h = DOMAIN f \cup DOMAIN g
      /\ \A r \in DOMAIN f : h[r] = f[r]
      /\ \A r \in DOMAIN g \ DOMAIN f : h[r] = g[r]
  BY DEF mergeUniqueLogs
<1>3. DOMAIN h \in SUBSET (1 .. MaxRows) BY <1>1, <1>2
<1>4. h \in [DOMAIN h -> {0, 1}] BY <1>1 DEF mergeUniqueLogs
<1>5. h \in FeedLogs
  <2> HIDE DEF h
  <2> QED BY <1>3, <1>4, LogsTyped
<1> QED BY <1>2, <1>5

\* A page with other rows.
LEMMA WithLogsIs ==
  ASSUME NEW P \in FeedPage, NEW logs \in FeedLogs
  PROVE  LET N == WithLogs(P, logs) IN
         /\ N \in FeedPage /\ N.logs = logs /\ N.limit = P.limit /\ N.latest = P.latest
         /\ N.total = P.total /\ (N.more <=> Cardinality(DOMAIN logs) < P.total)
<1> DEFINE more == Cardinality(DOMAIN logs) < P.total
           N == [P EXCEPT !.logs = logs, !.more = more]
<1>1. more \in BOOLEAN OBVIOUS
<1>2. WithLogs(P, logs) = N BY DEF WithLogs
<1> HIDE DEF more
<1>3. /\ N \in FeedPage /\ N.logs = logs /\ N.limit = P.limit /\ N.latest = P.latest
      /\ N.total = P.total /\ N.more = more
  BY <1>1 DEF FeedPage
<1> QED BY <1>2, <1>3 DEF more

\* The page that a live row is merged into.
LEMMA MergeInsertIs ==
  ASSUME NEW P \in FeedPage, NEW e \in RowEvent, e.kind = "insert", NEW q
  PROVE  LET N == mergeLiveLogPage(P, e, q)
             hit == q = "all" \/ e.hit
         IN /\ N \in FeedPage /\ N.limit = P.limit
            /\ ~hit => N.logs = P.logs
            /\ hit => /\ DOMAIN N.logs = TopOf(DOMAIN P.logs \cup {e.row}, LoadedWindow(P))
                      /\ \A r \in DOMAIN N.logs : N.logs[r] = IF r = e.row THEN 0 ELSE P.logs[r]
            /\ N.latest = IF e.row > P.latest THEN e.row ELSE P.latest
            /\ N.total = P.total + (IF hit /\ ~IsDuplicate(P, e) THEN 1 ELSE 0)
            /\ N.more <=> Cardinality(DOMAIN N.logs) < N.total
<1> DEFINE hit == q = "all" \/ e.hit
           live == [told \in {e.row} |-> e.version]
           grown == mergeUniqueLogs(live, P.logs)
           logs == IF hit THEN NewestOf(grown, LoadedWindow(P)) ELSE P.logs
           total == P.total + (IF hit /\ ~IsDuplicate(P, e) THEN 1 ELSE 0)
           latest == IF e.row > P.latest THEN e.row ELSE P.latest
           next == [P EXCEPT !.latest = IF e.row > @ THEN e.row ELSE @, !.total = total]
<1>1. e.row \in 1 .. MaxRows /\ e.version = 0 BY DEF RowEvent
<1>2. live \in FeedLogs
  <2>1. DOMAIN live = {e.row} /\ live \in [DOMAIN live -> {0, 1}] BY <1>1
  <2>2. DOMAIN live \in SUBSET (1 .. MaxRows) BY <1>1, <2>1
  <2> HIDE DEF live
  <2> QED BY <2>1, <2>2, LogsTyped
<1>3. DOMAIN live = {e.row} /\ live[e.row] = 0 BY <1>1
<1> HIDE DEF live
<1>4. /\ grown \in FeedLogs /\ DOMAIN grown = DOMAIN P.logs \cup {e.row}
      /\ \A r \in DOMAIN grown : grown[r] = IF r = e.row THEN 0 ELSE P.logs[r]
  <2>1. P.logs \in FeedLogs BY PageParts
  <2>2. /\ grown \in FeedLogs /\ DOMAIN grown = DOMAIN live \cup DOMAIN P.logs
        /\ \A r \in DOMAIN live : grown[r] = live[r]
        /\ \A r \in DOMAIN P.logs \ DOMAIN live : grown[r] = P.logs[r]
    BY <1>2, <2>1, JoinTyped
  <2> HIDE DEF grown
  <2> QED BY <1>3, <2>2
<1> HIDE DEF grown
<1>5. /\ logs \in FeedLogs
      /\ ~hit => logs = P.logs
      /\ hit => /\ DOMAIN logs = TopOf(DOMAIN P.logs \cup {e.row}, LoadedWindow(P))
                /\ \A r \in DOMAIN logs : logs[r] = IF r = e.row THEN 0 ELSE P.logs[r]
  <2>1. P.logs \in FeedLogs BY PageParts
  <2>2. TopOf(DOMAIN grown, LoadedWindow(P)) \in SUBSET DOMAIN grown BY DEF TopOf
  <2>3. CASE hit
    <3>1. logs = NewestOf(grown, LoadedWindow(P)) BY <2>3
    <3>2. logs \in FeedLogs BY <1>4, <3>1, NewestTyped
    <3>3. /\ DOMAIN logs = TopOf(DOMAIN P.logs \cup {e.row}, LoadedWindow(P))
          /\ \A r \in DOMAIN logs : logs[r] = grown[r]
      BY <1>4, <3>1, NewestIs
    <3> HIDE DEF logs
    <3> QED BY <1>4, <2>2, <2>3, <3>2, <3>3
  <2>4. CASE ~hit BY <2>1, <2>4
  <2> QED BY <2>3, <2>4
<1> HIDE DEF logs
<1>6. total \in Nat /\ latest \in Nat
  <2>1. P.total \in Nat /\ P.latest \in Nat BY PageParts
  <2> QED BY <1>1, <2>1
<1> HIDE DEF total
<1>7. next \in FeedPage /\ next.logs = P.logs /\ next.limit = P.limit /\ next.latest = latest
      /\ next.total = total
  BY <1>1, <1>6 DEF FeedPage
<1>8. mergeLiveLogPage(P, e, q) = WithLogs(next, logs) BY DEF mergeLiveLogPage, logs, total, grown, live
<1> HIDE DEF next, hit, latest
<1>9. LET N == WithLogs(next, logs) IN
         /\ N \in FeedPage /\ N.logs = logs /\ N.limit = P.limit /\ N.latest = latest
         /\ N.total = total /\ (N.more <=> Cardinality(DOMAIN logs) < total)
  BY <1>5, <1>7, WithLogsIs
<1> QED BY <1>5, <1>8, <1>9 DEF latest, total, hit

\* The page that an update is merged into.
LEMMA MergeUpdateIs ==
  ASSUME NEW P \in FeedPage, NEW e \in RowEvent, e.kind = "update", NEW q
  PROVE  LET N == mergeLiveLogPage(P, e, q) IN
         /\ N \in FeedPage /\ N.limit = P.limit /\ N.latest = P.latest /\ N.total = P.total
         /\ (N.more <=> P.more) /\ DOMAIN N.logs = DOMAIN P.logs
         /\ \A r \in DOMAIN P.logs : N.logs[r] = IF r = e.row THEN 1 ELSE P.logs[r]
<1>1. e.version = 1 BY DEF RowEvent
<1>2. /\ P.logs \in FeedLogs /\ DOMAIN P.logs \in SUBSET (1 .. MaxRows)
      /\ P.logs \in [DOMAIN P.logs -> {0, 1}]
  BY PageParts
<1> DEFINE logs == [P.logs EXCEPT ![e.row] = 1]
<1>3. /\ DOMAIN logs = DOMAIN P.logs /\ logs \in [DOMAIN P.logs -> {0, 1}]
      /\ \A r \in DOMAIN P.logs : logs[r] = IF r = e.row THEN 1 ELSE P.logs[r]
  BY <1>2
<1> HIDE DEF logs
<1>4. logs \in FeedLogs BY <1>2, <1>3, LogsTyped
<1>5. CASE e.row \in DOMAIN P.logs
  <2>1. mergeLiveLogPage(P, e, q) = [P EXCEPT !.logs[e.row] = 1]
    BY <1>1, <1>5 DEF mergeLiveLogPage
  <2>2. [P EXCEPT !.logs[e.row] = 1] = [P EXCEPT !.logs = logs] BY DEF logs
  <2>3. LET N == [P EXCEPT !.logs = logs] IN
         /\ N \in FeedPage /\ N.limit = P.limit /\ N.latest = P.latest /\ N.total = P.total
         /\ N.more = P.more /\ N.logs = logs
    BY <1>4 DEF FeedPage
  <2> QED BY <1>3, <2>1, <2>2, <2>3
<1>6. CASE e.row \notin DOMAIN P.logs
  <2>1. mergeLiveLogPage(P, e, q) = P BY <1>6 DEF mergeLiveLogPage
  <2> QED BY <1>6, <2>1
<1> QED BY <1>5, <1>6

-----------------------------------------------------------------------------
(* A live event is merged into a page *)

\* What a stream tells from one event on is what it tells after the event, or
\* what the event tells.
LEMMA NextTells ==
  ASSUME NEW V \in Seq(FeedEvent), NEW i \in 1 .. Len(V), NEW kind, NEW r
  PROVE  TellsOf(V, kind, r, i - 1) <=> TellsOf(V, kind, r, i) \/ (V[i].kind = kind /\ V[i].row = r)
<1>1. \A j \in 1 .. Len(V) : j > i - 1 <=> (j > i \/ j = i) OBVIOUS
<1> QED BY <1>1 DEF TellsOf

\* Counting the rows up to one more.
LEMMA OneMoreRow ==
  ASSUME NEW D, NEW n \in Nat, D \in SUBSET (1 .. n), NEW k \in Nat
  PROVE  /\ Cardinality({r \in D : r <= k}) \in Nat
         /\ Cardinality({r \in D : r <= k + 1})
              = Cardinality({r \in D : r <= k}) + (IF k + 1 \in D THEN 1 ELSE 0)
<1> DEFINE S == {r \in D : r <= k}
           T == {r \in D : r <= k + 1}
<1>1. IsFiniteSet(1 .. n) BY FS_Interval
<1>2. IsFiniteSet(S) /\ Cardinality(S) \in Nat BY <1>1, FS_Subset, FS_CardinalityType
<1>3. \A r \in D : r \in Int /\ (r <= k + 1 <=> (r <= k \/ r = k + 1)) OBVIOUS
<1>4. ~(k + 1 <= k) OBVIOUS
<1>5. CASE k + 1 \in D
  <2>1. T = S \cup {k + 1} /\ k + 1 \notin S BY <1>3, <1>4, <1>5
  <2> HIDE DEF S, T
  <2>2. Cardinality(T) = Cardinality(S) + 1 BY <1>2, <2>1, FS_AddElement
  <2> QED BY <1>2, <1>5, <2>2 DEF S, T
<1>6. CASE k + 1 \notin D
  <2>1. T = S BY <1>3, <1>6
  <2> QED BY <1>2, <1>6, <2>1
<1> QED BY <1>5, <1>6

\* A live row is merged into the window on screen.
LEMMA InsertKeeps ==
  ASSUME NEW rows, NEW n, RowLog(rows, n), NEW V \in Seq(FeedEvent), NEW lost,
         EventStream(V, rows, n, lost), NEW i \in 1 .. Len(V), V[i] \in RowEvent,
         V[i].kind = "insert", V[i].row \in DOMAIN rows,
         NEW q, NEW P \in FeedPage, P.limit >= PageLimit, ShownBy(P, q, V, i - 1, rows)
  PROVE  LET N == mergeLiveLogPage(P, V[i], q) IN
         /\ ShownBy(N, q, V, i, rows)
         /\ CountedBy(P, q, V, i - 1, rows, n) => CountedBy(N, q, V, i, rows, n)
<1> DEFINE e == V[i]
           new == V[i].row
           hit == q = "all" \/ e.hit
           N == mergeLiveLogPage(P, e, q)
           M == HitBy(rows, q)
           L == DOMAIN P.logs
           K == DOMAIN N.logs
           W == LoadedWindow(P)
<1>1. /\ N \in FeedPage /\ N.limit = P.limit
      /\ ~hit => N.logs = P.logs
      /\ hit => /\ K = TopOf(L \cup {e.row}, W)
                /\ \A r \in K : N.logs[r] = IF r = e.row THEN 0 ELSE P.logs[r]
      /\ N.latest = IF new > P.latest THEN new ELSE P.latest
      /\ N.total = P.total + (IF hit /\ ~IsDuplicate(P, e) THEN 1 ELSE 0)
      /\ N.more <=> Cardinality(K) < N.total
  BY MergeInsertIs
<1>2. InsertOK(V, i, rows, n, lost) BY DEF EventStream
<1>3. /\ new \in 1 .. n /\ new \in 1 .. MaxRows /\ n \in Nat /\ n <= MaxRows /\ MaxRows \in Nat
      /\ M \in SUBSET (1 .. n) /\ M \in SUBSET (1 .. MaxRows) /\ M \in SUBSET DOMAIN rows
  BY <1>2, FeedAssumption DEF InsertOK, RowLog, HitBy
<1>4. /\ L \in SUBSET (1 .. MaxRows) /\ Cardinality(L) \in Nat /\ P.limit \in Nat /\ IsFiniteSet(L)
      /\ P.latest \in Nat /\ P.total \in Nat
  BY PageParts
<1>5. W \in Nat /\ W >= Cardinality(L) /\ W >= PageLimit /\ PageLimit \in Nat
  BY <1>4, FeedAssumption DEF LoadedWindow
<1>6. new \in M <=> hit BY <1>2 DEF InsertOK, HitBy
<1>7. \A kind, r : TellsOf(V, kind, r, i - 1) <=> TellsOf(V, kind, r, i) \/ (e.kind = kind /\ e.row = r)
  BY NextTells
<1>8. \A r \in 1 .. n : TellsOf(V, "insert", r, i) <=> r > new BY <1>2 DEF InsertOK
<1>9. L \in SUBSET M BY DEF ShownBy
<1>10. \A r \in L : P.logs[r] = rows[r].version \/ TellsOf(V, "update", r, i)
  BY <1>7 DEF ShownBy
<1>11. rows[new].version = 0 \/ TellsOf(V, "update", new, i) BY <1>2 DEF InsertOK
<1>12. ASSUME NEW r \in M, r \notin L, r # new, ~TellsOf(V, "insert", r, i)
       PROVE  /\ Cardinality(L) >= PageLimit /\ r < new
              /\ \A x \in L \cup {new} : r < x
  <2>1. ~TellsOf(V, "insert", r, i - 1) BY <1>7, <1>12
  <2>2. Cardinality(L) >= PageLimit /\ \A x \in L : r < x BY <1>12, <2>1 DEF ShownBy
  <2>3. r \in 1 .. n /\ ~(r > new) BY <1>3, <1>8, <1>12
  <2>4. r < new BY <1>3, <1>12, <2>3
  <2> QED BY <2>2, <2>4
<1> HIDE DEF e, new, hit, N, M, L, K, W
<1>13. ShownBy(N, q, V, i, rows)
  <2>1. CASE hit
    <3> DEFINE G == L \cup {new}
    <3>1. G \in SUBSET (1 .. MaxRows) /\ G \in SUBSET M BY <1>3, <1>4, <1>6, <1>9, <2>1
    <3>2. K = TopOf(G, W) BY <1>1, <2>1 DEF new, e
    <3>3. /\ K \in SUBSET G /\ \A r \in G \ K, x \in K : r < x
          /\ K = G \/ Cardinality(K) >= W
      BY <1>3, <1>5, <3>1, <3>2, TopKept
    <3>4. ASSUME Cardinality(L) >= PageLimit PROVE Cardinality(K) >= PageLimit
      <4>1. IsFiniteSet(G) BY <1>4, FS_AddElement
      <4>2. L \in SUBSET G OBVIOUS
      <4>3. Cardinality(G) \in Nat /\ Cardinality(L) <= Cardinality(G)
        BY <4>1, <4>2, FS_Subset, FS_CardinalityType
      <4>4. Cardinality(K) \in Nat BY <3>3, <4>1, FS_Subset, FS_CardinalityType
      <4> HIDE DEF G
      <4>5. CASE K = G BY <1>4, <1>5, <3>4, <4>3, <4>5
      <4>6. CASE Cardinality(K) >= W BY <1>5, <4>4, <4>6
      <4> QED BY <3>3, <4>5, <4>6
    <3>5. ASSUME NEW r \in M \ K, ~TellsOf(V, "insert", r, i)
          PROVE  Cardinality(K) >= PageLimit /\ \A x \in K : r < x
      <4>1. CASE r \in G
        <5>1. K # G /\ \A x \in K : r < x BY <3>3, <3>5, <4>1
        <5>2. IsFiniteSet(1 .. MaxRows) BY <1>3, FS_Interval
        <5>3. Cardinality(K) \in Nat BY <3>1, <3>3, <5>2, FS_Subset, FS_CardinalityType
        <5> QED BY <1>5, <3>3, <5>1, <5>3
      <4>2. CASE r \notin G
        <5>1. Cardinality(L) >= PageLimit /\ \A x \in G : r < x BY <1>12, <3>5, <4>2
        <5> QED BY <3>3, <3>4, <5>1
      <4> QED BY <4>1, <4>2
    <3>6. \A r \in K : N.logs[r] = rows[r].version \/ TellsOf(V, "update", r, i)
      BY <1>1, <1>10, <1>11, <2>1, <3>3 DEF new, e
    <3> QED BY <3>1, <3>3, <3>5, <3>6 DEF ShownBy, K, M
  <2>2. CASE ~hit
    <3>1. N.logs = P.logs BY <1>1, <2>2
    <3>2. \A r \in M : r # new BY <1>6, <2>2
    <3> QED BY <1>9, <1>10, <1>12, <3>1, <3>2 DEF ShownBy, L, M
  <2> QED BY <2>1, <2>2
<1>14. ASSUME CountedBy(P, q, V, i - 1, rows, n) PROVE CountedBy(N, q, V, i, rows, n)
  <2>1. /\ P.latest <= n
        /\ P.total = Cardinality({r \in M : r <= P.latest})
        /\ \A r \in L : r <= P.latest
        /\ \A r \in (P.latest + 1) .. n : TellsOf(V, "insert", r, i - 1)
    BY <1>14 DEF CountedBy, M, L
  <2>2. IsDuplicate(P, e) <=> ~(new > P.latest)
    <3>1. new > P.latest => new \notin L BY <1>3, <1>4, <2>1
    <3>2. new <= P.latest <=> ~(new > P.latest) BY <1>3, <1>4
    <3> QED BY <3>1, <3>2 DEF IsDuplicate, e, new, L
  <2>3. K \in SUBSET (L \cup {new}) /\ (~hit => K = L)
    <3>1. hit => K \in SUBSET (L \cup {new}) BY <1>1 DEF TopOf, new, e
    <3> QED BY <1>1, <3>1 DEF K, L
  <2>4. CASE new > P.latest
    <3>1. \A r \in (P.latest + 1) .. n : r > new \/ r = new
      <4> SUFFICES ASSUME NEW r \in (P.latest + 1) .. n PROVE r > new \/ r = new OBVIOUS
      <4>1. r \in 1 .. n BY <1>3, <1>4
      <4> QED BY <1>7, <1>8, <2>1, <4>1 DEF e, new
    <3>2. P.latest + 1 \in (P.latest + 1) .. n BY <1>3, <1>4, <2>4
    <3>3. new = P.latest + 1 BY <1>3, <1>4, <2>4, <3>1, <3>2
    <3>4. N.latest = new BY <1>1, <2>4
    <3>5. N.total = P.total + (IF hit THEN 1 ELSE 0) BY <1>1, <2>2, <2>4
    <3>6. N.total = Cardinality({r \in M : r <= N.latest})
      <4>1. Cardinality({r \in M : r <= P.latest + 1})
              = Cardinality({r \in M : r <= P.latest}) + (IF P.latest + 1 \in M THEN 1 ELSE 0)
        <5>1. n \in Nat /\ M \in SUBSET (1 .. n) /\ P.latest \in Nat BY <1>3, <1>4
        <5> QED BY <5>1, OneMoreRow
      <4>2. P.latest + 1 \in M <=> hit BY <1>6, <3>3
      <4> QED BY <2>1, <3>3, <3>4, <3>5, <4>1, <4>2
    <3>7. \A r \in (N.latest + 1) .. n : TellsOf(V, "insert", r, i)
      <4> SUFFICES ASSUME NEW r \in (N.latest + 1) .. n PROVE TellsOf(V, "insert", r, i) OBVIOUS
      <4>1. r \in 1 .. n /\ r > new BY <1>3, <3>4
      <4> QED BY <1>8, <4>1
    <3>8. \A r \in K : r <= N.latest
      <4> SUFFICES ASSUME NEW r \in K PROVE r <= N.latest OBVIOUS
      <4>1. r \in L \/ r = new BY <2>3
      <4>2. r \in L => r <= P.latest /\ r \in Int
        <5>1. r \in L => r <= P.latest BY <2>1
        <5>2. r \in L => r \in 1 .. MaxRows BY <1>4
        <5> QED BY <5>1, <5>2
      <4> QED BY <1>3, <1>4, <2>4, <3>4, <4>1, <4>2
    <3>9. N.latest <= n BY <1>3, <3>4
    <3> QED BY <1>1, <3>6, <3>7, <3>8, <3>9 DEF CountedBy, M, K
  <2>5. CASE ~(new > P.latest)
    <3>1. N.latest = P.latest /\ N.total = P.total BY <1>1, <1>4, <2>2, <2>5
    <3>2. \A r \in (P.latest + 1) .. n : TellsOf(V, "insert", r, i)
      <4> SUFFICES ASSUME NEW r \in (P.latest + 1) .. n PROVE TellsOf(V, "insert", r, i) OBVIOUS
      <4>1. r # new BY <1>3, <1>4, <2>5
      <4> QED BY <1>7, <2>1, <4>1 DEF e, new
    <3>3. \A r \in K : r <= P.latest
      <4> SUFFICES ASSUME NEW r \in K PROVE r <= P.latest OBVIOUS
      <4>1. r \in L \/ r = new BY <2>3
      <4>2. new <= P.latest BY <1>3, <1>4, <2>5
      <4> QED BY <2>1, <4>1, <4>2
    <3> QED BY <1>1, <2>1, <3>1, <3>2, <3>3 DEF CountedBy, M, K
  <2> QED BY <2>4, <2>5
<1> QED BY <1>13, <1>14 DEF N, e

\* An update is merged into the window on screen.
LEMMA UpdateKeeps ==
  ASSUME NEW rows, NEW n, RowLog(rows, n), NEW V \in Seq(FeedEvent), NEW lost,
         EventStream(V, rows, n, lost), NEW i \in 1 .. Len(V), V[i] \in RowEvent,
         V[i].kind = "update", NEW q, NEW P \in FeedPage, ShownBy(P, q, V, i - 1, rows)
  PROVE  LET N == mergeLiveLogPage(P, V[i], q) IN
         /\ ShownBy(N, q, V, i, rows)
         /\ CountedBy(P, q, V, i - 1, rows, n) => CountedBy(N, q, V, i, rows, n)
<1> DEFINE N == mergeLiveLogPage(P, V[i], q)
<1>1. /\ N.latest = P.latest /\ N.total = P.total
      /\ (N.more <=> P.more) /\ DOMAIN N.logs = DOMAIN P.logs
      /\ \A r \in DOMAIN P.logs : N.logs[r] = IF r = V[i].row THEN 1 ELSE P.logs[r]
  BY MergeUpdateIs
<1>2. \A kind, r : TellsOf(V, kind, r, i - 1) <=> TellsOf(V, kind, r, i) \/ (V[i].kind = kind /\ V[i].row = r)
  BY NextTells
<1>3. V[i].row \in DOMAIN rows => rows[V[i].row].version = 1
  BY DEF EventStream, UpdateOK
<1>4. DOMAIN P.logs \in SUBSET DOMAIN rows BY DEF ShownBy, HitBy
<1> HIDE DEF N
<1>5. ShownBy(N, q, V, i, rows) BY <1>1, <1>2, <1>3, <1>4 DEF ShownBy
<1>6. ASSUME CountedBy(P, q, V, i - 1, rows, n) PROVE CountedBy(N, q, V, i, rows, n)
  BY <1>1, <1>2, <1>6 DEF CountedBy
<1> QED BY <1>5, <1>6 DEF N

-----------------------------------------------------------------------------
(* The events that were heard meanwhile are replayed *)

\* The fold of the live events, over each of their subsets; see SumsOf.
Newest(s) == CHOOSE x \in s : \A y \in s : x >= y
\* The parts of a set of events with at most n of them.
SmallParts(events, n) == {s \in SUBSET (DOMAIN events) : Cardinality(s) <= n}
\* The fold of the live events over their small parts.
ReplaysUpTo(f, page, events, query, n) ==
  f = [s \in SmallParts(events, n) |->
         IF s = {} THEN page
         ELSE mergeLiveLogPage(f[s \ {Newest(s)}], events[Newest(s)], query)]
\* The fold of the live events over all of their parts.
ReplaysOf(f, page, events, query) ==
  f = [s \in SUBSET (DOMAIN events) |->
         IF s = {} THEN page
         ELSE mergeLiveLogPage(f[s \ {Newest(s)}], events[Newest(s)], query)]

\* The replay is the value of such a function, if there is one.
LEMMA ReplayIsChosen ==
  ASSUME NEW page, NEW events, NEW query
  PROVE  replayLiveLogEvents(page, events, query)
           = (CHOOSE f : ReplaysOf(f, page, events, query))[DOMAIN events]
BY DEF replayLiveLogEvents, FoldLeft, MapThenFoldSet, ReplaysOf, Newest, Max

\* A set of events that is not empty has a newest one, and is smaller without
\* it.
LEMMA NewestTaken ==
  ASSUME NEW n \in Nat, NEW s \in SUBSET (1 .. n), s # {}
  PROVE  /\ Newest(s) \in s /\ \A y \in s : y <= Newest(s)
         /\ Cardinality(s \ {Newest(s)}) = Cardinality(s) - 1
         /\ Cardinality(s) \in Nat
<1>1. PICK x \in s : \A y \in s : y <= x BY NewestRow
<1>2. \A y \in s : x >= y BY <1>1
<1>3. Newest(s) \in s /\ \A y \in s : Newest(s) >= y BY <1>2 DEF Newest
<1>4. \A y \in s : y \in Int OBVIOUS
<1>5. IsFiniteSet(s)
  <2>1. IsFiniteSet(1 .. n) BY FS_Interval
  <2> QED BY <2>1, FS_Subset
<1>6. Cardinality(s) \in Nat /\ Cardinality(s \ {Newest(s)}) = Cardinality(s) - 1
  BY <1>3, <1>5, FS_RemoveElement, FS_CardinalityType
<1> QED BY <1>3, <1>4, <1>6

\* There is such a function on the parts of every size: else there would be a
\* smallest size without one.
LEMMA ReplaysExistUpTo ==
  ASSUME NEW page, NEW events \in Seq(RowEvent), NEW query, NEW n \in Nat
  PROVE  \E f : ReplaysUpTo(f, page, events, query, n)
<1> DEFINE Missing == {k \in Nat : ~ \E f : ReplaysUpTo(f, page, events, query, k)}
           D == DOMAIN events
<1> SUFFICES ASSUME Missing # {} PROVE FALSE
  OBVIOUS
<1>1. PICK m \in Missing : m = 0 \/ m - 1 \in Nat \ Missing
  <2>1. Missing \in SUBSET Nat OBVIOUS
  <2> HIDE DEF Missing
  <2> QED BY <2>1, LeastOf
<1>2. D = 1 .. Len(events) /\ Len(events) \in Nat OBVIOUS
<1>3. \A s \in SUBSET D : s # {} =>
         /\ s \ {Newest(s)} \in SUBSET D
         /\ Cardinality(s \ {Newest(s)}) = Cardinality(s) - 1
  BY <1>2, NewestTaken
<1>4. \A s \in SUBSET D : IsFiniteSet(s) /\ Cardinality(s) \in Nat
  <2>1. IsFiniteSet(D) BY <1>2, FS_Interval
  <2> QED BY <2>1, FS_Subset, FS_CardinalityType
<1>5. CASE m = 0
  <2> DEFINE f == [s \in SmallParts(events, 0) |-> page]
  <2>1. \A s \in SmallParts(events, 0) : s = {}
    BY <1>4, FS_EmptySet DEF SmallParts
  <2>2. ReplaysUpTo(f, page, events, query, 0)
    BY <2>1 DEF ReplaysUpTo
  <2> QED BY <1>1, <1>5, <2>2
<1>6. CASE m - 1 \in Nat \ Missing
  <2>1. PICK h : ReplaysUpTo(h, page, events, query, m - 1)
    BY <1>6
  <2> DEFINE Next1(g, s) == IF s = {} THEN page
                            ELSE mergeLiveLogPage(g[s \ {Newest(s)}], events[Newest(s)], query)
             f == [s \in SmallParts(events, m) |-> Next1(h, s)]
  <2>2. \A s \in SmallParts(events, m) : s # {} => s \ {Newest(s)} \in SmallParts(events, m - 1)
    BY <1>1, <1>3, <1>4 DEF SmallParts
  <2>3. \A s \in SmallParts(events, m - 1) : s \in SmallParts(events, m) /\ f[s] = h[s]
    <3> SUFFICES ASSUME NEW s \in SmallParts(events, m - 1)
                 PROVE  s \in SmallParts(events, m) /\ f[s] = h[s]
      OBVIOUS
    <3>1. s \in SmallParts(events, m)
      BY <1>1, <1>4 DEF SmallParts
    <3>2. h[s] = Next1(h, s)
      BY <2>1 DEF ReplaysUpTo
    <3>3. f[s] = Next1(h, s)
      <4> HIDE DEF Next1
      <4> QED BY <3>1
    <3> QED BY <3>1, <3>2, <3>3
  <2>4. \A s \in SmallParts(events, m) : f[s] = Next1(f, s)
    <3> SUFFICES ASSUME NEW s \in SmallParts(events, m) PROVE f[s] = Next1(f, s)
      OBVIOUS
    <3>1. f[s] = Next1(h, s)
      <4> HIDE DEF Next1
      <4> QED OBVIOUS
    <3>2. s # {} => f[s \ {Newest(s)}] = h[s \ {Newest(s)}] BY <2>2, <2>3
    <3> HIDE DEF f
    <3> QED BY <3>1, <3>2
  <2>5. ReplaysUpTo(f, page, events, query, m)
    <3> HIDE DEF f
    <3>1. f = [s \in SmallParts(events, m) |-> f[s]]
      BY DEF f
    <3> QED BY <3>1, <2>4 DEF ReplaysUpTo
  <2> QED BY <1>1, <2>5
<1> QED BY <1>1, <1>5, <1>6

\* A replay merges one event after the other.
LEMMA ReplaySteps ==
  ASSUME NEW page, NEW events \in Seq(RowEvent), NEW query
  PROVE  \E G : /\ G[0] = page
                /\ replayLiveLogEvents(page, events, query) = G[Len(events)]
                /\ \A k \in 1 .. Len(events) : G[k] = mergeLiveLogPage(G[k - 1], events[k], query)
<1> DEFINE D == DOMAIN events
           f == CHOOSE g : ReplaysOf(g, page, events, query)
           G == [k \in 0 .. Len(events) |-> f[1 .. k]]
<1>1. D = 1 .. Len(events) /\ Len(events) \in Nat OBVIOUS
<1>2. \E g : ReplaysOf(g, page, events, query)
  <2>1. PICK g : ReplaysUpTo(g, page, events, query, Len(events))
    BY <1>1, ReplaysExistUpTo
  <2>2. IsFiniteSet(D) /\ Cardinality(D) = Len(events) BY <1>1, FS_Interval
  <2>3. \A s \in SUBSET D : Cardinality(s) <= Len(events) BY <2>2, FS_Subset
  <2>4. SmallParts(events, Len(events)) = SUBSET D BY <2>3 DEF SmallParts
  <2> QED BY <2>1, <2>4 DEF ReplaysUpTo, ReplaysOf
<1>3. ReplaysOf(f, page, events, query) BY <1>2
<1>4. \A s \in SUBSET D : f[s] = IF s = {} THEN page
                                 ELSE mergeLiveLogPage(f[s \ {Newest(s)}], events[Newest(s)], query)
  <2> HIDE DEF f
  <2> QED BY <1>3 DEF ReplaysOf
<1>5. replayLiveLogEvents(page, events, query) = f[D] BY ReplayIsChosen
<1> HIDE DEF f
<1>6. G[0] = page
  <2>1. 1 .. 0 = {} /\ 0 \in 0 .. Len(events) /\ 1 .. 0 \in SUBSET D BY <1>1
  <2> QED BY <1>4, <2>1
<1>7. G[Len(events)] = f[D] BY <1>1
<1>8. ASSUME NEW k \in 1 .. Len(events)
      PROVE  G[k] = mergeLiveLogPage(G[k - 1], events[k], query)
  <2>1. /\ k \in 0 .. Len(events) /\ k - 1 \in 0 .. Len(events) /\ 1 .. k \in SUBSET D
        /\ k \in 1 .. k /\ 1 .. k # {} /\ k \in Nat
    <3>1. k \in Nat /\ 1 <= k /\ k <= Len(events) BY <1>1
    <3>2. k \in 1 .. k /\ 1 .. k # {}
      <4>1. k \in 1 .. k BY <3>1
      <4> QED BY <4>1
    <3>3. k \in 0 .. Len(events) /\ k - 1 \in 0 .. Len(events) /\ 1 .. k \in SUBSET (1 .. Len(events))
      BY <1>1, <3>1
    <3> HIDE DEF D
    <3> QED BY <1>1, <3>1, <3>2, <3>3
  <2>2. Newest(1 .. k) = k
    <3>1. Newest(1 .. k) \in 1 .. k /\ \A y \in 1 .. k : y <= Newest(1 .. k) BY <2>1, NewestTaken
    <3> QED BY <2>1, <3>1
  <2>3. (1 .. k) \ {k} = 1 .. (k - 1) BY <2>1
  <2>4. f[1 .. k] = mergeLiveLogPage(f[1 .. (k - 1)], events[k], query)
    BY <1>4, <2>1, <2>2, <2>3
  <2>5. G[k] = f[1 .. k] /\ G[k - 1] = f[1 .. (k - 1)] BY <2>1
  <2> QED BY <2>4, <2>5
<1> HIDE DEF G
<1> QED BY <1>5, <1>6, <1>7, <1>8

\* The rows of a stream are in the log: nothing was pruned since.
AllRecorded(L, rows) == \A i \in 1 .. Len(L) : L[i].kind = "insert" => L[i].row \in DOMAIN rows

\* A page brought up to date by what was heard while it was asked for is a page of the
\* log but for what is in the queue.
LEMMA ReplayKeeps ==
  ASSUME NEW P \in FeedPage, NEW L \in Seq(RowEvent), NEW Q \in Seq(FeedEvent), NEW q,
         NEW rows, NEW n, NEW lost
  PROVE  LET N == replayLiveLogEvents(P, L, q)
             V == L \o Q
         IN /\ N \in FeedPage /\ N.limit = P.limit
            /\ /\ RowLog(rows, n) /\ EventStream(V, rows, n, lost) /\ AllRecorded(L, rows)
               /\ P.limit >= PageLimit /\ ShownBy(P, q, V, 0, rows)
               => /\ ShownBy(N, q, Q, 0, rows)
                  /\ CountedBy(P, q, V, 0, rows, n) => CountedBy(N, q, Q, 0, rows, n)
<1> DEFINE V == L \o Q
           Fits == /\ RowLog(rows, n) /\ EventStream(V, rows, n, lost) /\ AllRecorded(L, rows)
                   /\ P.limit >= PageLimit /\ ShownBy(P, q, V, 0, rows)
           Holds(N, k) ==
             /\ N \in FeedPage /\ N.limit = P.limit
             /\ Fits => /\ ShownBy(N, q, V, k, rows)
                        /\ CountedBy(P, q, V, 0, rows, n) => CountedBy(N, q, V, k, rows, n)
<1>1. PICK G : /\ G[0] = P
               /\ replayLiveLogEvents(P, L, q) = G[Len(L)]
               /\ \A k \in 1 .. Len(L) : G[k] = mergeLiveLogPage(G[k - 1], L[k], q)
  <2> HIDE DEF V, Fits, Holds
  <2>1. L \in Seq(RowEvent) OBVIOUS
  <2>2. \E G : /\ G[0] = P
               /\ replayLiveLogEvents(P, L, q) = G[Len(L)]
               /\ \A k \in 1 .. Len(L) : G[k] = mergeLiveLogPage(G[k - 1], L[k], q)
    BY ReplaySteps
  <2> QED BY ONLY <2>2
<1>2. /\ L \in Seq(FeedEvent) /\ Len(L) \in Nat
      /\ \A k \in 1 .. Len(L) : L[k] \in RowEvent
  BY SeqMonotonic DEF FeedEvent
<1>3. /\ V \in Seq(FeedEvent) /\ Len(V) = Len(L) + Len(Q) /\ Len(Q) \in Nat
      /\ \A k \in 1 .. Len(L) : k \in 1 .. Len(V) /\ V[k] = L[k]
  BY <1>2, ConcatProperties
<1>4. Holds(G[0], 0) BY <1>1
<1>5. ASSUME NEW k \in 1 .. Len(L), Holds(G[k - 1], k - 1) PROVE Holds(G[k], k)
  <2> DEFINE N == G[k - 1]
  <2>1. G[k] = mergeLiveLogPage(N, L[k], q) /\ L[k] \in RowEvent /\ V[k] = L[k] /\ k \in 1 .. Len(V)
    BY <1>1, <1>2, <1>3
  <2>2. L[k].kind = "insert" \/ L[k].kind = "update" BY <2>1 DEF RowEvent
  <2>3. N \in FeedPage /\ N.limit = P.limit BY <1>5
  <2>4. G[k] \in FeedPage /\ G[k].limit = P.limit
    <3> HIDE DEF N, V, Fits
    <3>1. CASE L[k].kind = "insert" 
      <4> DEFINE e == L[k]
                 hit == q = "all" \/ e.hit
                 new == mergeLiveLogPage(N, e, q)
      <4>0. e \in RowEvent /\ e.kind = "insert" /\ N \in FeedPage BY <2>1, <2>3, <3>1
      <4> HIDE DEF N, e
      <4>1. /\ new \in FeedPage /\ new.limit = N.limit
            /\ ~hit => new.logs = N.logs
            /\ hit => /\ DOMAIN new.logs = TopOf(DOMAIN N.logs \cup {e.row}, LoadedWindow(N))
                      /\ \A r \in DOMAIN new.logs : new.logs[r] = IF r = e.row THEN 0 ELSE N.logs[r]
            /\ new.latest = IF e.row > N.latest THEN e.row ELSE N.latest
            /\ new.total = N.total + (IF hit /\ ~IsDuplicate(N, e) THEN 1 ELSE 0)
            /\ new.more <=> Cardinality(DOMAIN new.logs) < new.total
        BY <4>0, MergeInsertIs
      <4> QED BY <2>1, <2>3, <4>1 DEF e
    <3>2. CASE L[k].kind = "update" BY <2>1, <2>3, <3>2, MergeUpdateIs
    <3> QED BY <2>2, <3>1, <3>2
  <2>5. ASSUME Fits PROVE /\ ShownBy(G[k], q, V, k, rows)
                          /\ CountedBy(P, q, V, 0, rows, n) => CountedBy(G[k], q, V, k, rows, n)
    <3>1. /\ ShownBy(N, q, V, k - 1, rows)
          /\ CountedBy(P, q, V, 0, rows, n) => CountedBy(N, q, V, k - 1, rows, n)
      BY <1>5, <2>5
    <3> HIDE DEF V, N
    <3>2. CASE L[k].kind = "insert"
      <4>1. L[k].row \in DOMAIN rows BY <2>5, <3>2 DEF AllRecorded
      <4> QED BY <1>3, <2>1, <2>3, <2>5, <3>1, <3>2, <4>1, InsertKeeps
    <3>3. CASE L[k].kind = "update"
      BY <1>3, <2>1, <2>3, <2>5, <3>1, <3>3, UpdateKeeps
    <3> QED BY <2>2, <3>2, <3>3
  <2> HIDE DEF N, V, Fits
  <2> QED BY <2>4, <2>5
<1> DEFINE Bad == {k \in Nat : k <= Len(L) /\ ~Holds(G[k], k)}
<1>6. Holds(G[Len(L)], Len(L))
  <2> HIDE DEF Holds
  <2> SUFFICES ASSUME Bad # {} PROVE FALSE BY <1>2
  <2>1. PICK k \in Bad : k = 0 \/ k - 1 \in Nat \ Bad
    <3>1. Bad \in SUBSET Nat OBVIOUS
    <3> HIDE DEF Bad
    <3> QED BY <3>1, LeastOf
  <2>2. k # 0 BY <1>4, <2>1
  <2>3. k \in 1 .. Len(L) /\ Holds(G[k - 1], k - 1) BY <1>2, <2>1, <2>2
  <2> QED BY <1>5, <2>1, <2>3
<1>7. ASSUME NEW N \in FeedPage
      PROVE  /\ ShownBy(N, q, V, Len(L), rows) => ShownBy(N, q, Q, 0, rows)
             /\ CountedBy(N, q, V, Len(L), rows, n) => CountedBy(N, q, Q, 0, rows, n)
  <2> DEFINE f == [i \in 0 .. Len(Q) |-> i + Len(L)]
  <2>1. Within(Q, V, f) /\ 0 \in 0 .. Len(Q) /\ f[0] = Len(L) BY <1>2, <1>3, QueueWithin
  <2> HIDE DEF f, V
  <2>2. \A p, w : \A i \in 0 .. Len(Q) :
          /\ ShownBy(p, w, V, f[i], rows) => ShownBy(p, w, Q, i, rows)
          /\ CountedBy(p, w, V, f[i], rows, n) => CountedBy(p, w, Q, i, rows, n)
    BY <1>3, <2>1, WithinKeeps
  <2> QED BY <2>1, <2>2
<1> HIDE DEF V
<1> QED BY <1>1, <1>6, <1>7 DEF V

-----------------------------------------------------------------------------
(* The pages that the server reads *)

\* The log as the server keeps it: its last row is never pruned.
LogOK ==
  /\ RowLog(feedRows, feedSequence)
  /\ feedRows = << >> <=> feedSequence = 0
  /\ feedSequence > 0 => feedSequence \in DOMAIN feedRows

\* The rows of a query on the server.
LEMMA HitsOfTheLog ==
  ASSUME LogOK, NEW q
  PROVE  /\ HitBy(feedRows, q) = Matching(q) /\ feedSequence \in Nat /\ feedSequence <= MaxRows
         /\ HitBy(feedRows, q) \in SUBSET DOMAIN feedRows
         /\ HitBy(feedRows, q) \in SUBSET (1 .. feedSequence)
         /\ HitBy(feedRows, q) \in SUBSET (1 .. MaxRows)
         /\ IsFiniteSet(HitBy(feedRows, q)) /\ Cardinality(HitBy(feedRows, q)) \in Nat
<1>1. HitBy(feedRows, q) = Matching(q) BY DEF HitBy, Matching
<1>2. feedSequence \in Nat /\ feedSequence <= MaxRows /\ MaxRows \in Nat
  BY FeedAssumption DEF LogOK, RowLog
<1>3. /\ HitBy(feedRows, q) \in SUBSET DOMAIN feedRows
      /\ HitBy(feedRows, q) \in SUBSET (1 .. feedSequence)
  BY DEF HitBy, LogOK, RowLog
<1>4. HitBy(feedRows, q) \in SUBSET (1 .. MaxRows) BY <1>2, <1>3
<1>5. IsFiniteSet(1 .. MaxRows) BY <1>2, FS_Interval
<1> QED BY <1>1, <1>2, <1>3, <1>4, <1>5, FS_Subset, FS_CardinalityType

\* The page that the server reads.
LEMMA PageRead ==
  ASSUME LogOK, NEW q, NEW k \in Nat
  PROVE  LET N == LogPage(q, k)
             M == HitBy(feedRows, q)
         IN /\ N \in FeedPage /\ N.limit = PageLimit /\ N.latest = feedSequence
            /\ N.total = Cardinality(M)
            /\ DOMAIN N.logs = TopOf({r \in M : Cardinality({s \in M : s > r}) >= k}, PageLimit)
            /\ \A r \in DOMAIN N.logs : N.logs[r] = feedRows[r].version
            /\ N.more <=> k + Cardinality(DOMAIN N.logs) < N.total
<1> DEFINE M == HitBy(feedRows, q)
           after == {r \in M : Cardinality({s \in M : s > r}) >= k}
           logs == NewestOf(Versions(after), PageLimit)
           more == k + Cardinality(DOMAIN logs) < Cardinality(M)
           latest == IF feedRows = << >> THEN 0 ELSE Max(DOMAIN feedRows)
           N == [logs |-> logs, limit |-> PageLimit, latest |-> latest, total |-> Cardinality(M),
                 more |-> more]
<1>1. /\ M = Matching(q) /\ feedSequence \in Nat /\ M \in SUBSET DOMAIN feedRows
      /\ M \in SUBSET (1 .. MaxRows) /\ Cardinality(M) \in Nat
  BY HitsOfTheLog
<1>2. after \in SUBSET M OBVIOUS
<1>3. LogPage(q, k) = N BY <1>1 DEF LogPage
<1> HIDE DEF M, after
<1>4. /\ DOMAIN Versions(after) = after
      /\ \A r \in after : Versions(after)[r] = feedRows[r].version /\ feedRows[r].version \in {0, 1}
  BY <1>1, <1>2 DEF Versions, LogOK, RowLog
<1>5. Versions(after) \in FeedLogs
  <2> DEFINE v == Versions(after)
  <2>1. DOMAIN v \in SUBSET (1 .. MaxRows) BY <1>1, <1>2, <1>4
  <2>2. v = [r \in after |-> v[r]] BY DEF Versions
  <2> HIDE DEF v
  <2>3. DOMAIN v = after /\ \A r \in after : v[r] \in {0, 1} BY <1>4 DEF v
  <2>4. v \in [DOMAIN v -> {0, 1}] BY <2>2, <2>3
  <2>5. v \in FeedLogs BY <2>1, <2>4, LogsTyped
  <2> QED BY <2>5 DEF v
<1>6. /\ logs \in FeedLogs /\ DOMAIN logs = TopOf(after, PageLimit)
      /\ \A r \in DOMAIN logs : logs[r] = feedRows[r].version
  <2>1. TopOf(after, PageLimit) \in SUBSET after BY DEF TopOf
  <2>2. logs \in FeedLogs BY <1>5, NewestTyped
  <2>3. DOMAIN logs = TopOf(after, PageLimit) /\ \A r \in TopOf(after, PageLimit) : logs[r] = Versions(after)[r]
    BY <1>4, NewestIs
  <2> HIDE DEF logs
  <2> QED BY <1>4, <2>1, <2>2, <2>3
<1>7. latest = feedSequence
  <2>1. CASE feedSequence = 0 BY <2>1 DEF LogOK
  <2>2. CASE feedSequence # 0
    <3>1. feedSequence \in DOMAIN feedRows /\ \A r \in DOMAIN feedRows : r \in Int /\ r <= feedSequence
      BY <1>1, <2>2 DEF LogOK, RowLog
    <3>2. \A r \in DOMAIN feedRows : feedSequence >= r BY <1>1, <3>1
    <3>3. Max(DOMAIN feedRows) \in DOMAIN feedRows /\ \A r \in DOMAIN feedRows : Max(DOMAIN feedRows) >= r
      BY <3>1, <3>2 DEF Max
    <3>4. Max(DOMAIN feedRows) = feedSequence BY <1>1, <3>1, <3>3
    <3> QED BY <2>2, <3>4 DEF LogOK
  <2> QED BY <2>1, <2>2
<1>8. PageLimit \in Nat BY FeedAssumption
<1>9. more \in BOOLEAN OBVIOUS
<1> HIDE DEF logs, latest, more
<1>10. N \in FeedPage BY <1>1, <1>6, <1>7, <1>8, <1>9 DEF FeedPage
<1>11. /\ N.logs = logs /\ N.limit = PageLimit /\ N.latest = latest /\ N.total = Cardinality(M)
       /\ N.more = more
  OBVIOUS
<1> HIDE DEF N
<1> QED BY <1>3, <1>6, <1>7, <1>10, <1>11 DEF M, after, more

\* A first page is exact when it is read.
LEMMA FirstPageRead ==
  ASSUME LogOK, NEW q, NEW V, NEW i
  PROVE  /\ ShownBy(LogPage(q, 0), q, V, i, feedRows)
         /\ CountedBy(LogPage(q, 0), q, V, i, feedRows, feedSequence)
<1> DEFINE N == LogPage(q, 0)
           M == HitBy(feedRows, q)
           K == DOMAIN N.logs
<1>1. /\ M \in SUBSET (1 .. feedSequence) /\ M \in SUBSET (1 .. MaxRows) /\ feedSequence \in Nat
      /\ IsFiniteSet(M)
  BY HitsOfTheLog
<1>2. /\ N.latest = feedSequence /\ N.total = Cardinality(M) /\ N \in FeedPage
      /\ K = TopOf({r \in M : Cardinality({s \in M : s > r}) >= 0}, PageLimit)
      /\ \A r \in K : N.logs[r] = feedRows[r].version
      /\ N.more <=> 0 + Cardinality(K) < N.total
  BY PageRead
<1>3. {r \in M : Cardinality({s \in M : s > r}) >= 0} = M
  <2>1. \A r \in M : Cardinality({s \in M : s > r}) \in Nat
    <3> SUFFICES ASSUME NEW r \in M PROVE Cardinality({s \in M : s > r}) \in Nat OBVIOUS
    <3>1. {s \in M : s > r} \in SUBSET M OBVIOUS
    <3> HIDE DEF M
    <3> QED BY <1>1, <3>1, FS_Subset, FS_CardinalityType
  <2> QED BY <2>1
<1> HIDE DEF N, M
<1>4. MaxRows \in Nat /\ PageLimit \in Nat BY FeedAssumption
<1>5. /\ K \in SUBSET M /\ \A r \in M \ K, x \in K : r < x
      /\ K = M \/ Cardinality(K) >= PageLimit
  BY <1>1, <1>2, <1>3, <1>4, TopKept
<1>6. ShownBy(N, q, V, i, feedRows) BY <1>2, <1>5 DEF ShownBy, M
<1>7. {r \in M : r <= N.latest} = M BY <1>1, <1>2
<1>8. Cardinality(K) \in Nat BY <1>2, PageParts
<1>9. /\ \A r \in K : r <= N.latest
      /\ (N.latest + 1) .. feedSequence = {}
  <2>1. \A r \in M : r <= feedSequence BY <1>1
  <2>2. \A r \in K : r <= N.latest
    <3> HIDE DEF K
    <3> QED BY <1>2, <1>5, <2>1
  <2>3. (feedSequence + 1) .. feedSequence = {} BY <1>1
  <2> QED BY <1>2, <2>2, <2>3
<1>10. CountedBy(N, q, V, i, feedRows, feedSequence)
  <2>1. N.latest <= feedSequence BY <1>1, <1>2
  <2>2. N.more <=> Cardinality(K) < N.total BY <1>2, <1>8
  <2> QED BY <1>2, <1>7, <1>9, <2>1, <2>2 DEF CountedBy, M
<1> QED BY <1>6, <1>10 DEF N

\* The window on screen, grown by a page that has been asked for to follow it.
Grown(B, A) == [appendLogPage(B, A) EXCEPT !.limit = Cardinality(DOMAIN B.logs) + PageLimit]

\* The parts of a window that has been grown.
LEMMA GrownIs ==
  ASSUME NEW B \in FeedPage, NEW A \in FeedPage
  PROVE  /\ Grown(B, A) \in FeedPage /\ Grown(B, A).limit = Cardinality(DOMAIN B.logs) + PageLimit
         /\ Grown(B, A).logs = NewestOf(mergeUniqueLogs(B.logs, A.logs), A.total)
         /\ Grown(B, A).latest = A.latest /\ Grown(B, A).total = A.total
         /\ Grown(B, A).more <=> Cardinality(DOMAIN Grown(B, A).logs) < A.total
<1> DEFINE logs == NewestOf(mergeUniqueLogs(B.logs, A.logs), A.total)
           N == WithLogs(A, logs)
           limit == Cardinality(DOMAIN B.logs) + PageLimit
<1>1. logs \in FeedLogs
  <2>1. A.logs \in FeedLogs /\ B.logs \in FeedLogs BY PageParts
  <2>2. mergeUniqueLogs(B.logs, A.logs) \in FeedLogs BY <2>1, JoinTyped
  <2> QED BY <2>2, NewestTyped
<1>2. appendLogPage(B, A) = N BY DEF appendLogPage
<1> HIDE DEF logs
<1>3. /\ N \in FeedPage /\ N.logs = logs /\ N.latest = A.latest /\ N.total = A.total
      /\ N.more <=> Cardinality(DOMAIN logs) < A.total
  BY <1>1, WithLogsIs
<1>4. limit \in {rows \in Nat : rows >= PageLimit}
  <2>1. Cardinality(DOMAIN B.logs) \in Nat BY PageParts
  <2> QED BY <2>1, FeedAssumption
<1> HIDE DEF N, limit
<1>5. Grown(B, A) = [N EXCEPT !.limit = limit] BY <1>2 DEF Grown, limit
<1>6. /\ [N EXCEPT !.limit = limit] \in FeedPage
      /\ [N EXCEPT !.limit = limit].limit = limit
      /\ [N EXCEPT !.limit = limit].logs = N.logs
      /\ [N EXCEPT !.limit = limit].latest = N.latest
      /\ [N EXCEPT !.limit = limit].total = N.total
      /\ [N EXCEPT !.limit = limit].more = N.more
  BY <1>3, <1>4 DEF FeedPage
<1> QED BY <1>3, <1>5, <1>6 DEF limit, logs

\* A window that is right but for a stream is exact once it is grown by the
\* page that follows it.
LEMMA MoreRead ==
  ASSUME LogOK, NEW q, NEW V, NEW B \in FeedPage, ShownBy(B, q, V, 0, feedRows)
  PROVE  LET N == Grown(B, LogPage(q, Cardinality(DOMAIN B.logs))) IN
         ShownBy(N, q, V, 0, feedRows) /\ CountedBy(N, q, V, 0, feedRows, feedSequence)
<1> DEFINE L == DOMAIN B.logs
           k == Cardinality(L)
           A == LogPage(q, k)
           N == Grown(B, A)
           M == HitBy(feedRows, q)
           K == DOMAIN A.logs
           G == L \cup K
           Above(r) == {s \in M : s > r}
           after == {r \in M : Cardinality(Above(r)) >= k}
<1>1. /\ M \in SUBSET (1 .. feedSequence) /\ M \in SUBSET (1 .. MaxRows) /\ feedSequence \in Nat
      /\ IsFiniteSet(M) /\ Cardinality(M) \in Nat
  BY HitsOfTheLog
<1>2. k \in Nat /\ B.logs \in FeedLogs BY PageParts
<1>3. /\ A.latest = feedSequence /\ A.total = Cardinality(M) /\ A \in FeedPage
      /\ K = TopOf(after, PageLimit)
      /\ \A r \in K : A.logs[r] = feedRows[r].version
  BY <1>2, PageRead
<1>4. MaxRows \in Nat /\ PageLimit \in Nat BY FeedAssumption
<1>5. /\ K \in SUBSET after /\ \A r \in after \ K, x \in K : r < x
      /\ K = after \/ Cardinality(K) >= PageLimit
  <2>1. after \in SUBSET (1 .. MaxRows) BY <1>1
  <2> HIDE DEF after, K, A
  <2> QED BY <1>3, <1>4, <2>1, TopKept
<1>6. L \in SUBSET M /\ G \in SUBSET M BY <1>5 DEF ShownBy
<1> HIDE DEF K, A, N, M
<1>7. /\ N \in FeedPage
      /\ N.logs = NewestOf(mergeUniqueLogs(B.logs, A.logs), A.total)
      /\ N.latest = feedSequence /\ N.total = Cardinality(M)
      /\ N.more <=> Cardinality(DOMAIN N.logs) < N.total
  BY <1>3, GrownIs DEF N
<1>8. /\ DOMAIN N.logs = G
      /\ \A r \in L : N.logs[r] = B.logs[r]
      /\ \A r \in K \ L : N.logs[r] = A.logs[r]
  <2> DEFINE both == mergeUniqueLogs(B.logs, A.logs)
  <2>0. A.logs \in FeedLogs BY <1>3, PageParts
  <2>1. /\ DOMAIN both = G /\ \A r \in L : both[r] = B.logs[r]
        /\ \A r \in K \ L : both[r] = A.logs[r]
    BY <1>2, <2>0, JoinTyped DEF K
  <2> HIDE DEF both
  <2>2. IsFiniteSet(G) /\ Cardinality(G) <= Cardinality(M) BY <1>1, <1>6, FS_Subset
  <2>3. G \in SUBSET (1 .. MaxRows) BY <1>1, <1>6
  <2> HIDE DEF G
  <2>4. TopOf(G, Cardinality(M)) = G BY <1>1, <1>4, <2>2, <2>3, TopKept
  <2>5. /\ DOMAIN N.logs = TopOf(G, Cardinality(M))
        /\ \A r \in TopOf(G, Cardinality(M)) : N.logs[r] = both[r]
    BY <1>3, <1>7, <2>1, NewestIs DEF both
  <2> QED BY <2>1, <2>4, <2>5 DEF G
<1>9. IsFiniteSet(G) /\ Cardinality(G) \in Nat /\ Cardinality(L) <= Cardinality(G)
      /\ Cardinality(K) <= Cardinality(G) /\ Cardinality(K) \in Nat
  <2>1. IsFiniteSet(G) BY <1>1, <1>6, FS_Subset
  <2>2. L \in SUBSET G /\ K \in SUBSET G OBVIOUS
  <2> HIDE DEF G
  <2> QED BY <2>1, <2>2, FS_Subset, FS_CardinalityType
<1>10. ASSUME NEW r \in M \ G, ~TellsOf(V, "insert", r, 0)
       PROVE  Cardinality(G) >= PageLimit /\ \A x \in G : r < x
  <2>1. Cardinality(L) >= PageLimit /\ \A x \in L : r < x BY <1>10 DEF ShownBy, M
  <2>2. L \in SUBSET Above(r)
    <3> SUFFICES ASSUME NEW x \in L PROVE x \in M /\ x > r OBVIOUS
    <3>1. x \in M /\ r \in M BY <1>6
    <3>2. \A s \in M : s \in Int BY <1>1
    <3>3. x \in Int /\ r \in Int BY <3>1, <3>2
    <3> QED BY <2>1, <3>1, <3>3
  <2>3. Cardinality(Above(r)) \in Nat /\ k <= Cardinality(Above(r))
    <3>1. Above(r) \in SUBSET M OBVIOUS
    <3>2. IsFiniteSet(Above(r)) BY <1>1, <3>1, FS_Subset
    <3> HIDE DEF Above
    <3> QED BY <2>2, <3>2, FS_Subset, FS_CardinalityType
  <2>4. r \in after \ K BY <1>2, <2>3
  <2>5. \A x \in K : r < x BY <1>5, <2>4
  <2>6. Cardinality(G) >= PageLimit BY <1>2, <1>4, <1>9, <2>1
  <2> QED BY <2>1, <2>5, <2>6
<1>11. \A r \in G : N.logs[r] = feedRows[r].version \/ TellsOf(V, "update", r, 0)
  BY <1>3, <1>8 DEF ShownBy
<1>12. ShownBy(N, q, V, 0, feedRows) BY <1>6, <1>8, <1>10, <1>11 DEF ShownBy, M
<1>13. {r \in M : r <= N.latest} = M BY <1>1, <1>7
<1>14. /\ \A r \in G : r <= N.latest
       /\ (N.latest + 1) .. feedSequence = {} /\ N.latest <= feedSequence
  <2>1. \A r \in M : r <= feedSequence BY <1>1
  <2>2. N.latest = feedSequence BY <1>7
  <2> HIDE DEF G
  <2>3. \A r \in G : r <= feedSequence BY <1>6, <2>1
  <2>4. (feedSequence + 1) .. feedSequence = {} /\ feedSequence <= feedSequence BY <1>1
  <2> QED BY <2>2, <2>3, <2>4
<1>15. CountedBy(N, q, V, 0, feedRows, feedSequence)
  BY <1>7, <1>8, <1>13, <1>14 DEF CountedBy, M
<1> QED BY <1>12, <1>15 DEF N, A

-----------------------------------------------------------------------------
(* The inductive invariant *)

\* The page will be asked for again, whatever is on screen.
Due ==
  \/ requeryRefused \/ streamInterrupted \/ eventStream # "open" \/ pruning
  \/ \E i \in 1 .. Len(eventQueue) : Invalidates(eventQueue[i])

\* What a request will show: its page, or the window it was asked for to follow.
HeardBy(L, Q, rows, n) ==
  LET V == L.live \o Q
      P == IF L.baseline = First THEN L.answer[1] ELSE Grown(L.baseline[1], L.answer[1])
  IN  /\ EventStream(V, rows, n, FALSE)
      /\ L.answer = << >> /\ L.baseline # First => ShownBy(L.baseline[1], L.query, V, 0, rows)
      /\ L.answer # << >> => ShownBy(P, L.query, V, 0, rows) /\ CountedBy(P, L.query, V, 0, rows, n)

\* A request has missed nothing, or its page will not be the last.
KeepsUp(L) == Due \/ L.snapshot \/ HeardBy(L, eventQueue, feedRows, feedSequence)

\* A snapshot on its way is exact but for what follows it, unless rows are gone since.
SnapshotOK(V, i, rows, n, lost) ==
  \/ lost \/ \E j \in 1 .. Len(V) : j > i /\ Invalidates(V[j])
  \/ ShownBy(V[i].page, "all", V, i, rows) /\ CountedBy(V[i].page, "all", V, i, rows, n)

\* What is on its way is true to the log.
QueueSound(V, rows, n, lost) ==
  /\ EventStream(V, rows, n, lost)
  /\ \A i \in 1 .. Len(V) :
       V[i].kind = "snapshot" /\ ~Invalidates(V[i]) => SnapshotOK(V, i, rows, n, lost)

\* The queue of an open stream is true to the log; a stream that was cut is
\* known to be, or the queue tells.
QueueOK ==
  /\ eventStream = "open" =>
       /\ QueueSound(eventQueue, feedRows, feedSequence, pruning)
       /\ \A i \in 1 .. Len(eventQueue) : eventQueue[i].kind # "error"
       /\ streamInterrupted => eventQueue # << >> /\ Head(eventQueue).kind = "open"
  /\ eventStream = "cut" =>
       IF eventQueue = << >> THEN streamInterrupted ELSE eventQueue[Len(eventQueue)].kind = "error"

\* No request has failed, but for the page that follows.
MoreOnly == requestError = << >> \/ requestError[1] = "more"

\* The page on screen is being asked for again.
Refreshing == pendingRefresh # NoFeedLoad /\ (pendingRefresh # NoFeedLoad => ~pendingRefresh.superseded)

\* The requests exclude one another as the hook has it, and each keeps up.
LoadsOK ==
  /\ pendingLoad # NoFeedLoad =>
       /\ isLoadingLogs /\ pendingMore = NoFeedLoad /\ ~Refreshing
       /\ ~pendingLoad.superseded /\ pendingLoad.baseline = First /\ KeepsUp(pendingLoad)
  /\ Refreshing =>
       /\ isLoadingLogs /\ pendingMore = NoFeedLoad /\ pendingRefresh.query = appliedQuery
       /\ pendingRefresh.baseline = First /\ KeepsUp(pendingRefresh)
  /\ pendingMore # NoFeedLoad =>
       /\ MoreOnly /\ ~pendingMore.superseded /\ pendingMore.query = appliedQuery
       /\ KeepsUp(pendingMore)

\* A page will follow that does not depend on the one on screen.
Unsettled ==
  Due \/ pendingLoad # NoFeedLoad \/ (Refreshing /\ pendingRefresh.for # "poll") \/ ~MoreOnly

\* The page on screen is right but for what is on its way, unless another will
\* take its place.
LogPageOK ==
  \/ Unsettled
  \/ /\ ShownBy(logPage, appliedQuery, eventQueue, 0, feedRows)
     /\ overtaken \/ CountedBy(logPage, appliedQuery, eventQueue, 0, feedRows, feedSequence)

\* The values of the tab.
TabTyped ==
  /\ logPage \in FeedPage /\ appliedQuery \in FeedQuery /\ requestedQuery \in FeedQuery
  /\ pendingLoad \in FeedLoad \cup {NoFeedLoad} /\ pendingRefresh \in FeedLoad \cup {NoFeedLoad}
  /\ pendingMore \in FeedLoad \cup {NoFeedLoad}
  /\ isLoadingLogs \in BOOLEAN /\ requeryRefused \in BOOLEAN /\ overtaken \in BOOLEAN
  /\ streamInterrupted \in BOOLEAN

\* The values of the server and its stream.
ServerTyped == LogOK /\ pruning \in BOOLEAN /\ eventQueue \in Seq(FeedEvent)

\* The inductive invariant.
FeedInv == ServerTyped /\ TabTyped /\ QueueOK /\ LoadsOK /\ LogPageOK

-----------------------------------------------------------------------------
(* What a request has heard *)

\* The fields of a request.
LEMMA LoadParts ==
  ASSUME NEW L \in FeedLoad
  PROVE  /\ L # NoFeedLoad
         /\ L.query \in FeedQuery /\ L.for \in {"poll", "reconnect", "always"}
         /\ L.baseline \in Seq(FeedPage) /\ L.answer \in Seq(FeedPage)
         /\ L.live \in Seq(RowEvent) /\ L.live \in Seq(FeedEvent)
         /\ L.superseded \in BOOLEAN /\ L.snapshot \in BOOLEAN
         /\ L.baseline # First => L.baseline[1] \in FeedPage
         /\ L.answer # << >> => L.answer[1] \in FeedPage
<1>1. RowEvent \in SUBSET FeedEvent BY DEF FeedEvent
<1>2. /\ L.query \in FeedQuery /\ L.for \in {"poll", "reconnect", "always"}
      /\ L.baseline \in Seq(FeedPage) /\ L.answer \in Seq(FeedPage) /\ L.live \in Seq(RowEvent)
      /\ L.superseded \in BOOLEAN /\ L.snapshot \in BOOLEAN
  BY DEF FeedLoad
<1>3. L.live \in Seq(FeedEvent) BY <1>1, <1>2
<1>4. \A s \in Seq(FeedPage) : s # << >> => s[1] \in FeedPage OBVIOUS
<1>5. L # NoFeedLoad BY FeedAssumption
<1> QED BY <1>2, <1>3, <1>4, <1>5 DEF First

\* What a request will show once it is answered.
PageOf(L) == IF L.baseline = First THEN L.answer[1] ELSE Grown(L.baseline[1], L.answer[1])

\* What HeardBy says, without its local names.
LEMMA HeardByIs ==
  ASSUME NEW L \in FeedLoad, NEW Q \in Seq(FeedEvent), NEW rows, NEW n
  PROVE  /\ L.live \o Q \in Seq(FeedEvent)
         /\ L.answer # << >> => PageOf(L) \in FeedPage
         /\ HeardBy(L, Q, rows, n) <=>
              /\ EventStream(L.live \o Q, rows, n, FALSE)
              /\ L.answer = << >> /\ L.baseline # First
                   => ShownBy(L.baseline[1], L.query, L.live \o Q, 0, rows)
              /\ L.answer # << >> => /\ ShownBy(PageOf(L), L.query, L.live \o Q, 0, rows)
                                     /\ CountedBy(PageOf(L), L.query, L.live \o Q, 0, rows, n)
<1>1. L.live \o Q \in Seq(FeedEvent) BY LoadParts
<1>2. L.answer # << >> => PageOf(L) \in FeedPage BY LoadParts, GrownIs DEF PageOf
<1> QED BY <1>1, <1>2 DEF HeardBy, PageOf

\* What has been heard of a request and what is still to be read.
LEMMA ToldLast ==
  ASSUME NEW L \in Seq(FeedEvent), NEW Q \in Seq(FeedEvent), NEW e \in FeedEvent
  PROVE  L \o Append(Q, e) = Append(L \o Q, e)
<1> DEFINE V == L \o Append(Q, e)
           W == Append(L \o Q, e)
<1>1. V \in Seq(FeedEvent) /\ Len(V) = Len(W) /\ W \in Seq(FeedEvent) OBVIOUS
<1>2. \A j \in 1 .. Len(V) : V[j] = W[j] OBVIOUS
<1> HIDE DEF V, W
<1>3. V = W BY <1>1, <1>2, SeqEqual
<1> QED BY <1>3 DEF V, W

\* An event that is read moves from the queue to what has been heard.
LEMMA ReadFirst ==
  ASSUME NEW L \in Seq(FeedEvent), NEW Q \in Seq(FeedEvent), Q # << >>
  PROVE  Append(L, Head(Q)) \o Tail(Q) = L \o Q
<1> DEFINE V == Append(L, Head(Q)) \o Tail(Q)
           W == L \o Q
<1>1. V \in Seq(FeedEvent) /\ Len(V) = Len(W) /\ W \in Seq(FeedEvent) OBVIOUS
<1>2. \A j \in 1 .. Len(V) : V[j] = W[j] OBVIOUS
<1> HIDE DEF V, W
<1>3. V = W BY <1>1, <1>2, SeqEqual
<1> QED BY <1>3 DEF V, W
\* One more event is told.
LEMMA HeardAdvances ==
  ASSUME NEW L \in FeedLoad, NEW Q \in Seq(FeedEvent), NEW e \in FeedEvent, NEW rows, NEW n,
         NEW after, NEW m, RowLog(rows, n), Advances(rows, n, after, m, e), ~Invalidates(e),
         HeardBy(L, Q, rows, n)
  PROVE  HeardBy(L, Append(Q, e), after, m)
<1> DEFINE V == L.live \o Q
           W == Append(V, e)
<1>1. W = L.live \o Append(Q, e) /\ Append(Q, e) \in Seq(FeedEvent)
  <2>1. L.live \in Seq(FeedEvent) BY LoadParts
  <2>2. L.live \o Append(Q, e) = Append(L.live \o Q, e) BY <2>1, ToldLast
  <2>3. Append(Q, e) \in Seq(FeedEvent) OBVIOUS
  <2> QED BY <2>2, <2>3
<1>2. V \in Seq(FeedEvent) /\ 0 \in 0 .. Len(V)
  <2>1. V \in Seq(FeedEvent) BY HeardByIs
  <2> HIDE DEF V
  <2> QED BY <2>1
<1>3. /\ EventStream(V, rows, n, FALSE)
      /\ L.answer = << >> /\ L.baseline # First => ShownBy(L.baseline[1], L.query, V, 0, rows)
      /\ L.answer # << >> => ShownBy(PageOf(L), L.query, V, 0, rows) /\ CountedBy(PageOf(L), L.query, V, 0, rows, n)
      /\ L.answer # << >> => PageOf(L) \in FeedPage
  BY HeardByIs
<1>4. L.baseline # First => L.baseline[1] \in FeedPage BY LoadParts
<1> HIDE DEF V
<1>5. EventStream(W, after, m, FALSE) BY <1>2, <1>3, StreamAdvances
<1>6. L.answer = << >> /\ L.baseline # First => ShownBy(L.baseline[1], L.query, W, 0, after)
  BY <1>2, <1>3, <1>4, PageAdvances
<1>7. L.answer # << >> => ShownBy(PageOf(L), L.query, W, 0, after) /\ CountedBy(PageOf(L), L.query, W, 0, after, m)
  BY <1>2, <1>3, PageAdvances
<1> HIDE DEF W
<1> QED BY <1>1, <1>5, <1>6, <1>7, HeardByIs

\* The row that is read is kept.
LEMMA HeardRead ==
  ASSUME NEW L \in FeedLoad, NEW Q \in Seq(FeedEvent), Q # << >>, NEW rows, NEW n, NEW M \in FeedLoad,
         M.live = Append(L.live, Head(Q)), M.baseline = L.baseline, M.answer = L.answer,
         M.query = L.query, HeardBy(L, Q, rows, n)
  PROVE  HeardBy(M, Tail(Q), rows, n)
<1>1. Tail(Q) \in Seq(FeedEvent) /\ Head(Q) \in FeedEvent OBVIOUS
<1>2. Append(L.live, Head(Q)) \o Tail(Q) = L.live \o Q
  BY LoadParts, ReadFirst
<1>3. PageOf(M) = PageOf(L) BY DEF PageOf
<1> QED BY <1>1, <1>2, <1>3, HeardByIs

\* An event about no row is read.
LEMMA HeardSkips ==
  ASSUME NEW L \in FeedLoad, NEW Q \in Seq(FeedEvent), Q # << >>, ~Matters(Head(Q)), NEW rows, NEW n,
         HeardBy(L, Q, rows, n)
  PROVE  HeardBy(L, Tail(Q), rows, n)
<1> DEFINE V == L.live \o Q
           W == L.live \o Tail(Q)
           f == [i \in 0 .. Len(W) |-> IF i <= Len(L.live) THEN i ELSE i + 1]
<1>1. L.live \in Seq(FeedEvent) /\ Tail(Q) \in Seq(FeedEvent) BY LoadParts
<1>2. Within(W, V, f) BY <1>1, SkipWithin
<1>3. V \in Seq(FeedEvent) /\ W \in Seq(FeedEvent) BY <1>1, HeardByIs
<1>4. f[0] = 0 /\ 0 \in 0 .. Len(W)
  <2> HIDE DEF W
  <2>1. Len(W) \in Nat /\ Len(L.live) \in Nat BY <1>1, <1>3
  <2> QED BY <2>1
<1> HIDE DEF f
<1>5. /\ EventStream(V, rows, n, FALSE)
      /\ L.answer = << >> /\ L.baseline # First => ShownBy(L.baseline[1], L.query, V, 0, rows)
      /\ L.answer # << >> => ShownBy(PageOf(L), L.query, V, 0, rows) /\ CountedBy(PageOf(L), L.query, V, 0, rows, n)
  BY HeardByIs
<1> HIDE DEF V, W
<1>6. /\ \A lost : EventStream(V, rows, n, lost) => EventStream(W, rows, n, lost)
      /\ \A P, q : /\ ShownBy(P, q, V, 0, rows) => ShownBy(P, q, W, 0, rows)
                   /\ CountedBy(P, q, V, 0, rows, n) => CountedBy(P, q, W, 0, rows, n)
  <2>1. /\ \A lost : EventStream(V, rows, n, lost) => EventStream(W, rows, n, lost)
        /\ \A P, q : \A i \in 0 .. Len(W) :
              /\ ShownBy(P, q, V, f[i], rows) => ShownBy(P, q, W, i, rows)
              /\ CountedBy(P, q, V, f[i], rows, n) => CountedBy(P, q, W, i, rows, n)
    BY <1>2, <1>3, WithinKeeps
  <2> QED BY <1>4, <2>1
<1> QED BY <1>1, <1>5, <1>6, HeardByIs DEF W

\* A request that has just been made.
LEMMA HeardAfresh ==
  ASSUME NEW L \in FeedLoad, NEW Q \in Seq(FeedEvent), NEW rows, NEW n, L.live = << >>,
         L.answer = << >>, EventStream(Q, rows, n, FALSE),
         L.baseline # First => ShownBy(L.baseline[1], L.query, Q, 0, rows)
  PROVE  HeardBy(L, Q, rows, n)
<1>1. L.live \o Q = Q OBVIOUS
<1> QED BY <1>1, HeardByIs

\* The answer is what was asked for.
LEMMA AnswerParts ==
  ASSUME LogOK, NEW L \in FeedLoad
  PROVE  LET A == AnswerPage(L)
             k == IF L.baseline = First THEN 0 ELSE Cardinality(DOMAIN L.baseline[1].logs)
         IN /\ A \in FeedLoad /\ A.answer = << LogPage(L.query, k) >> /\ k \in Nat
            /\ A.query = L.query /\ A.baseline = L.baseline /\ A.superseded = L.superseded
            /\ A.snapshot = L.snapshot /\ A.for = L.for /\ A.live = L.live
<1> DEFINE k == IF L.baseline = First THEN 0 ELSE Cardinality(DOMAIN L.baseline[1].logs)
           page == LogPage(L.query, k)
           A == [L EXCEPT !.answer = << page >>]
<1>1. k \in Nat BY LoadParts, PageParts
<1> HIDE DEF k
<1>2. page \in FeedPage BY <1>1, PageRead
<1> HIDE DEF page
<1>3. << page >> \in Seq(FeedPage) BY <1>2
<1>4. /\ A \in FeedLoad /\ A.answer = << page >>
      /\ A.query = L.query /\ A.baseline = L.baseline /\ A.superseded = L.superseded
      /\ A.snapshot = L.snapshot /\ A.for = L.for /\ A.live = L.live
  BY <1>3 DEF FeedLoad
<1>5. AnswerPage(L) = A BY DEF AnswerPage, page, k
<1> HIDE DEF A
<1> QED BY <1>1, <1>4, <1>5 DEF page, k

\* An answer is read at a moment at which the request has heard everything.
LEMMA HeardAnswer ==
  ASSUME LogOK, NEW L \in FeedLoad, NEW Q \in Seq(FeedEvent), L.answer = << >>,
         HeardBy(L, Q, feedRows, feedSequence)
  PROVE  HeardBy(AnswerPage(L), Q, feedRows, feedSequence)
<1> DEFINE k == IF L.baseline = First THEN 0 ELSE Cardinality(DOMAIN L.baseline[1].logs)
           page == LogPage(L.query, k)
           A == AnswerPage(L)
           V == L.live \o Q
<1>1. /\ A \in FeedLoad /\ A.answer = << page >> /\ k \in Nat
      /\ A.query = L.query /\ A.baseline = L.baseline /\ A.live = L.live
  BY AnswerParts
<1>2. /\ EventStream(V, feedRows, feedSequence, FALSE)
      /\ L.baseline # First => ShownBy(L.baseline[1], L.query, V, 0, feedRows)
  BY HeardByIs
<1>3. PageOf(A) = IF L.baseline = First THEN page ELSE Grown(L.baseline[1], page)
  <2> HIDE DEF A, page
  <2> QED BY <1>1 DEF PageOf
<1> HIDE DEF A, V
<1>4. ShownBy(PageOf(A), L.query, V, 0, feedRows) /\ CountedBy(PageOf(A), L.query, V, 0, feedRows, feedSequence)
  <2>1. CASE L.baseline = First
    <3>1. PageOf(A) = LogPage(L.query, 0) BY <1>3, <2>1
    <3> QED BY <3>1, FirstPageRead
  <2>2. CASE L.baseline # First
    <3>1. PageOf(A) = Grown(L.baseline[1], LogPage(L.query, Cardinality(DOMAIN L.baseline[1].logs)))
      BY <1>3, <2>2
    <3>2. L.baseline[1] \in FeedPage BY <2>2, LoadParts
    <3> QED BY <1>2, <2>2, <3>1, <3>2, MoreRead
  <2> QED BY <2>1, <2>2
<1>5. A.answer # << >> BY <1>1
<1>6. A.live \o Q = V BY <1>1 DEF V
<1> QED BY <1>1, <1>2, <1>4, <1>5, <1>6, HeardByIs DEF A

\* No event on its way says that rows are gone.
NothingGone(Q) == \A i \in 1 .. Len(Q) : ~Invalidates(Q[i])

\* The page of a request that is over is a page of the log, but for what is in the queue.
LEMMA HeardOver ==
  ASSUME NEW L \in FeedLoad, L.answer # << >>, NEW Q \in Seq(FeedEvent), NEW rows, NEW n,
         NEW N, N = replayLiveLogEvents(PageOf(L), L.live, L.query)
  PROVE  /\ N \in FeedPage
         /\ RowLog(rows, n) /\ HeardBy(L, Q, rows, n) /\ NothingGone(Q)
            => ShownBy(N, L.query, Q, 0, rows) /\ CountedBy(N, L.query, Q, 0, rows, n)
<1> DEFINE V == L.live \o Q
           P == PageOf(L)
<1>1. L.live \in Seq(RowEvent) /\ L.live \in Seq(FeedEvent) BY LoadParts
<1>2. P \in FeedPage BY HeardByIs
<1>3. /\ N \in FeedPage
      /\ /\ RowLog(rows, n) /\ EventStream(V, rows, n, FALSE) /\ AllRecorded(L.live, rows)
         /\ P.limit >= PageLimit /\ ShownBy(P, L.query, V, 0, rows)
         => /\ ShownBy(N, L.query, Q, 0, rows)
            /\ CountedBy(P, L.query, V, 0, rows, n) => CountedBy(N, L.query, Q, 0, rows, n)
  <2> HIDE DEF P
  <2>1. LET R == replayLiveLogEvents(P, L.live, L.query)
            W == L.live \o Q
        IN /\ R \in FeedPage /\ R.limit = P.limit
           /\ /\ RowLog(rows, n) /\ EventStream(W, rows, n, FALSE) /\ AllRecorded(L.live, rows)
              /\ P.limit >= PageLimit /\ ShownBy(P, L.query, W, 0, rows)
              => /\ ShownBy(R, L.query, Q, 0, rows)
                 /\ CountedBy(P, L.query, W, 0, rows, n) => CountedBy(R, L.query, Q, 0, rows, n)
    BY <1>1, <1>2, ReplayKeeps
  <2> QED BY <2>1 DEF P
<1>4. P.limit >= PageLimit BY <1>2, PageParts
<1>5. ASSUME RowLog(rows, n), HeardBy(L, Q, rows, n), NothingGone(Q)
      PROVE  ShownBy(N, L.query, Q, 0, rows) /\ CountedBy(N, L.query, Q, 0, rows, n)
  <2>1. /\ EventStream(V, rows, n, FALSE) /\ ShownBy(P, L.query, V, 0, rows)
        /\ CountedBy(P, L.query, V, 0, rows, n)
    BY <1>5, HeardByIs
  <2>2. /\ Len(V) = Len(L.live) + Len(Q) /\ Len(L.live) \in Nat /\ Len(Q) \in Nat
        /\ \A i \in 1 .. Len(V) : V[i] = IF i <= Len(L.live) THEN L.live[i] ELSE Q[i - Len(L.live)]
    BY <1>1, ConcatProperties
  <2> HIDE DEF V, P
  <2>3. ASSUME NEW i \in 1 .. Len(V), Invalidates(V[i]) PROVE FALSE
    <3>1. CASE i <= Len(L.live)
      <4>1. i \in 1 .. Len(L.live) /\ V[i] = L.live[i] BY <2>2, <3>1
      <4>2. L.live[i] \in RowEvent BY <1>1, <4>1
      <4>3. V[i].kind \in {"insert", "update"} BY <4>1, <4>2 DEF RowEvent
      <4> QED BY <2>3, <4>3 DEF Invalidates
    <3>2. CASE ~(i <= Len(L.live))
      <4>1. i - Len(L.live) \in 1 .. Len(Q) /\ V[i] = Q[i - Len(L.live)] BY <2>2, <3>2
      <4> QED BY <1>5, <2>3, <4>1 DEF NothingGone
    <3> QED BY <3>1, <3>2
  <2>4. AllRecorded(L.live, rows)
    <3> SUFFICES ASSUME NEW i \in 1 .. Len(L.live), L.live[i].kind = "insert"
                 PROVE  L.live[i].row \in DOMAIN rows
      BY DEF AllRecorded
    <3>1. i \in 1 .. Len(V) /\ V[i] = L.live[i] BY <2>2
    <3>2. InsertOK(V, i, rows, n, FALSE) BY <2>1, <3>1 DEF EventStream
    <3> QED BY <2>3, <3>1, <3>2 DEF InsertOK
  <2> QED BY <1>3, <1>4, <1>5, <2>1, <2>4
<1> QED BY <1>3, <1>5

\* A snapshot is merged into the page.
LEMMA SnapshotMerged ==
  ASSUME NEW P \in FeedPage, NEW S \in FeedPage
  PROVE  LET N == mergeSnapshotLogPage(P, S) IN
         /\ N \in FeedPage
         /\ \A q, V, i, rows : ShownBy(P, q, V, i, rows) /\ ShownBy(S, q, V, i, rows) => ShownBy(N, q, V, i, rows)
         /\ \A q, V, i, rows, n :
              CountedBy(S, q, V, i, rows, n) /\ (\A r \in DOMAIN P.logs : ~(r > S.latest))
              => CountedBy(N, q, V, i, rows, n)
<1> DEFINE logs == mergeUniqueLogs(S.logs, P.logs)
           N == WithLogs(S, logs)
<1>1. P.logs \in FeedLogs /\ S.logs \in FeedLogs BY PageParts
<1>2. /\ logs \in FeedLogs /\ DOMAIN logs = DOMAIN S.logs \cup DOMAIN P.logs
      /\ \A r \in DOMAIN S.logs : logs[r] = S.logs[r]
      /\ \A r \in DOMAIN P.logs \ DOMAIN S.logs : logs[r] = P.logs[r]
  BY <1>1, JoinTyped
<1>3. mergeSnapshotLogPage(P, S) = N BY DEF mergeSnapshotLogPage
<1> HIDE DEF logs
<1>4. /\ N \in FeedPage /\ N.logs = logs /\ N.latest = S.latest
      /\ N.total = S.total /\ (N.more <=> Cardinality(DOMAIN logs) < S.total)
  BY <1>2, WithLogsIs
<1> HIDE DEF N
<1>5. /\ DOMAIN P.logs \in SUBSET (1 .. MaxRows) /\ DOMAIN S.logs \in SUBSET (1 .. MaxRows)
      /\ S.latest \in Nat /\ MaxRows \in Nat
  BY PageParts, FeedAssumption
<1>6. /\ IsFiniteSet(DOMAIN logs)
      /\ Cardinality(DOMAIN P.logs) \in Nat /\ Cardinality(DOMAIN S.logs) \in Nat /\ Cardinality(DOMAIN logs) \in Nat
      /\ Cardinality(DOMAIN S.logs) <= Cardinality(DOMAIN logs)
      /\ Cardinality(DOMAIN P.logs) <= Cardinality(DOMAIN logs)
  <2>1. IsFiniteSet(DOMAIN P.logs) /\ IsFiniteSet(DOMAIN S.logs) BY PageParts
  <2>2. IsFiniteSet(DOMAIN logs) BY <1>2, <2>1, FS_Union
  <2>3. DOMAIN P.logs \in SUBSET DOMAIN logs /\ DOMAIN S.logs \in SUBSET DOMAIN logs BY <1>2
  <2> QED BY <2>1, <2>2, <2>3, FS_Subset, FS_CardinalityType
<1>7. ASSUME NEW q, NEW V, NEW i, NEW rows, ShownBy(P, q, V, i, rows), ShownBy(S, q, V, i, rows)
      PROVE  ShownBy(N, q, V, i, rows)
  <2>1. DOMAIN logs \in SUBSET HitBy(rows, q) BY <1>2, <1>7 DEF ShownBy
  <2>2. ASSUME NEW r \in HitBy(rows, q) \ DOMAIN logs, ~TellsOf(V, "insert", r, i)
        PROVE  Cardinality(DOMAIN logs) >= PageLimit /\ \A x \in DOMAIN logs : r < x
    <3>1. r \notin DOMAIN P.logs /\ r \notin DOMAIN S.logs BY <1>2, <2>2
    <3>2. /\ Cardinality(DOMAIN P.logs) >= PageLimit /\ \A x \in DOMAIN P.logs : r < x
          /\ Cardinality(DOMAIN S.logs) >= PageLimit /\ \A x \in DOMAIN S.logs : r < x
      BY <1>7, <2>2, <3>1 DEF ShownBy
    <3>3. Cardinality(DOMAIN logs) >= PageLimit BY <1>6, <3>2, FeedAssumption
    <3> QED BY <1>2, <3>2, <3>3
  <2>3. ASSUME NEW r \in DOMAIN logs
        PROVE  logs[r] = rows[r].version \/ TellsOf(V, "update", r, i)
    BY <1>2, <1>7, <2>3 DEF ShownBy
  <2> QED BY <1>4, <2>1, <2>2, <2>3 DEF ShownBy
<1>8. ASSUME NEW q, NEW V, NEW i, NEW rows, NEW n, CountedBy(S, q, V, i, rows, n),
             \A r \in DOMAIN P.logs : ~(r > S.latest)
      PROVE  CountedBy(N, q, V, i, rows, n)
  <2>1. \A r \in DOMAIN logs : r <= N.latest
    <3>1. \A r \in DOMAIN P.logs : r <= S.latest BY <1>5, <1>8
    <3>2. \A r \in DOMAIN S.logs : r <= S.latest BY <1>8 DEF CountedBy
    <3> QED BY <1>2, <1>4, <3>1, <3>2
  <2> QED BY <1>4, <1>8, <2>1 DEF CountedBy
<1> QED BY <1>3, <1>4, <1>7, <1>8

-----------------------------------------------------------------------------
(* The queue of the stream *)

\* A page that is exact, whatever is still on its way.
Exact(P, rows, n) ==
  \A V, i : ShownBy(P, "all", V, i, rows) /\ CountedBy(P, "all", V, i, rows, n)

\* The queue stays true to the log when it is told of what happens to the log.
LEMMA QueueAdvances ==
  ASSUME NEW V \in Seq(FeedEvent), NEW e \in FeedEvent, NEW rows, NEW n, NEW after, NEW m,
         RowLog(rows, n), Advances(rows, n, after, m, e), NEW lost, NEW gone,
         QueueSound(V, rows, n, lost), (gone = lost) \/ Invalidates(e),
         e.kind = "snapshot" => Exact(e.page, after, m)
  PROVE  QueueSound(Append(V, e), after, m, gone)
<1> DEFINE W == Append(V, e)
<1>1. /\ W \in Seq(FeedEvent) /\ Len(W) = Len(V) + 1 /\ W[Len(V) + 1] = e
      /\ \A j \in 1 .. Len(V) : W[j] = V[j]
      /\ Len(V) \in Nat
  BY Appended
<1>2. EventStream(W, after, m, gone) BY StreamAdvances DEF QueueSound
<1>3. ASSUME NEW i \in 1 .. Len(V), V[i].kind = "snapshot", ~Invalidates(V[i])
      PROVE  SnapshotOK(W, i, after, m, gone)
  <2>1. SnapshotOK(V, i, rows, n, lost) BY <1>3 DEF QueueSound
  <2>2. V[i].page \in FeedPage
    <3>1. V[i] \in FeedEvent OBVIOUS
    <3> QED BY <1>3, <3>1 DEF FeedEvent, RowEvent
  <2>3. W[i] = V[i] /\ i \in 0 .. Len(V) BY <1>1
  <2>4. CASE Invalidates(e)
    <3>1. Len(V) + 1 \in 1 .. Len(W) /\ Len(V) + 1 > i /\ Invalidates(W[Len(V) + 1]) BY <1>1, <2>4
    <3> HIDE DEF W
    <3> QED BY <3>1 DEF SnapshotOK
  <2>5. CASE lost /\ gone
    BY <2>5 DEF SnapshotOK
  <2>6. CASE \E j \in 1 .. Len(V) : j > i /\ Invalidates(V[j])
    <3>1. PICK j \in 1 .. Len(V) : j > i /\ Invalidates(V[j]) BY <2>6
    <3>2. j \in 1 .. Len(W) /\ W[j] = V[j] BY <1>1
    <3> HIDE DEF W
    <3> QED BY <3>1, <3>2 DEF SnapshotOK
  <2>7. CASE /\ ShownBy(V[i].page, "all", V, i, rows)
             /\ CountedBy(V[i].page, "all", V, i, rows, n)
    <3>1. ShownBy(V[i].page, "all", W, i, after) /\ CountedBy(V[i].page, "all", W, i, after, m)
      BY <2>2, <2>3, <2>7, PageAdvances
    <3> HIDE DEF W
    <3> QED BY <2>3, <3>1 DEF SnapshotOK
  <2> QED BY <2>1, <2>4, <2>5, <2>6, <2>7 DEF SnapshotOK
<1>4. e.kind = "snapshot" => SnapshotOK(W, Len(V) + 1, after, m, gone)
  <2>1. e.kind = "snapshot" => /\ ShownBy(W[Len(V) + 1].page, "all", W, Len(V) + 1, after)
                               /\ CountedBy(W[Len(V) + 1].page, "all", W, Len(V) + 1, after, m)
    <3> HIDE DEF W
    <3> QED BY <1>1 DEF Exact
  <2> HIDE DEF W
  <2> QED BY <2>1 DEF SnapshotOK
<1> HIDE DEF W
<1>5. ASSUME NEW i \in 1 .. Len(W), W[i].kind = "snapshot", ~Invalidates(W[i])
      PROVE  SnapshotOK(W, i, after, m, gone)
  <2>1. CASE i \in 1 .. Len(V) BY <1>1, <1>3, <1>5, <2>1
  <2>2. CASE i = Len(V) + 1 BY <1>1, <1>4, <1>5, <2>2
  <2> QED BY <1>1, <2>1, <2>2
<1> QED BY <1>2, <1>5 DEF QueueSound, W

\* The queue stays true to the log when its first event is read.
LEMMA QueueTail ==
  ASSUME NEW V \in Seq(FeedEvent), V # << >>, NEW rows, NEW n, NEW lost, QueueSound(V, rows, n, lost)
  PROVE  QueueSound(Tail(V), rows, n, lost)
<1> DEFINE W == Tail(V)
           f == [i \in 0 .. Len(W) |-> i + 1]
<1>1. /\ W \in Seq(FeedEvent) /\ Len(V) = Len(W) + 1 /\ Len(W) \in Nat
      /\ \A j \in 1 .. Len(W) : W[j] = V[j + 1]
  OBVIOUS
<1>2. Within(W, V, f) BY TailWithin
<1> HIDE DEF W
<1>3. \A i \in 0 .. Len(W) : f[i] = i + 1 OBVIOUS
<1> HIDE DEF f
<1>4. /\ \A gone : EventStream(V, rows, n, gone) => EventStream(W, rows, n, gone)
      /\ \A P, q : \A i \in 0 .. Len(W) :
              /\ ShownBy(P, q, V, f[i], rows) => ShownBy(P, q, W, i, rows)
              /\ CountedBy(P, q, V, f[i], rows, n) => CountedBy(P, q, W, i, rows, n)
  BY <1>1, <1>2, WithinKeeps
<1>5. EventStream(W, rows, n, lost) BY <1>4 DEF QueueSound
<1>6. ASSUME NEW i \in 1 .. Len(W), W[i].kind = "snapshot", ~Invalidates(W[i])
      PROVE  SnapshotOK(W, i, rows, n, lost)
  <2>1. i + 1 \in 1 .. Len(V) /\ V[i + 1] = W[i] /\ i \in 0 .. Len(W) BY <1>1
  <2>2. SnapshotOK(V, i + 1, rows, n, lost) BY <1>6, <2>1 DEF QueueSound
  <2>3. CASE \E j \in 1 .. Len(V) : j > i + 1 /\ Invalidates(V[j])
    <3>1. PICK j \in 1 .. Len(V) : j > i + 1 /\ Invalidates(V[j]) BY <2>3
    <3>2. j - 1 \in 1 .. Len(W) /\ j - 1 > i /\ W[j - 1] = V[(j - 1) + 1] /\ (j - 1) + 1 = j BY <1>1, <3>1
    <3> QED BY <3>1, <3>2 DEF SnapshotOK
  <2>4. CASE /\ ShownBy(V[i + 1].page, "all", V, i + 1, rows)
             /\ CountedBy(V[i + 1].page, "all", V, i + 1, rows, n)
    <3>1. ShownBy(W[i].page, "all", W, i, rows) /\ CountedBy(W[i].page, "all", W, i, rows, n)
      BY <1>3, <1>4, <2>1, <2>4
    <3> QED BY <3>1 DEF SnapshotOK
  <2>5. CASE lost BY <2>5 DEF SnapshotOK
  <2> QED BY <2>2, <2>3, <2>4, <2>5 DEF SnapshotOK
<1> QED BY <1>5, <1>6 DEF QueueSound, W

\* The queue stays true to a log that is pruned, but for the rows that are
\* gone.
LEMMA QueuePruned ==
  ASSUME NEW V, NEW rows, NEW n, NEW kept, NEW lost,
         DOMAIN kept \in SUBSET DOMAIN rows, \A r \in DOMAIN kept : kept[r] = rows[r],
         QueueSound(V, rows, n, lost)
  PROVE  QueueSound(V, kept, n, TRUE)
BY StreamPruned DEF QueueSound, SnapshotOK

\* The snapshot that the server sends is a first page read at that moment.
LEMMA SnapshotRead ==
  ASSUME LogOK, NEW invalidated \in BOOLEAN
  PROVE  /\ FeedSnapshot(invalidated) \in FeedEvent
         /\ FeedSnapshot(invalidated).kind = "snapshot"
         /\ FeedSnapshot(invalidated).invalidated = invalidated
         /\ Exact(FeedSnapshot(invalidated).page, feedRows, feedSequence)
<1> DEFINE page == LogPage("all", 0)
<1>1. page \in FeedPage BY PageRead
<1>2. Exact(page, feedRows, feedSequence) BY FirstPageRead DEF Exact
<1> HIDE DEF page
<1> QED BY <1>1, <1>2 DEF FeedSnapshot, FeedEvent, page

\* A subscription starts with a snapshot.
LEMMA QueueOpened ==
  ASSUME NEW rows, NEW n, NEW lost, NEW s \in FeedEvent, s.kind = "snapshot", s.invalidated = FALSE,
         Exact(s.page, rows, n), NEW V, V = << [kind |-> "open"], s >>
  PROVE  /\ V \in Seq(FeedEvent) /\ QueueSound(V, rows, n, lost)
         /\ V # << >> /\ Head(V).kind = "open"
         /\ \A i \in 1 .. Len(V) : V[i].kind # "error" /\ ~Invalidates(V[i])
         /\ \A kind \in {"insert", "update"} : \A r, i : ~TellsOf(V, kind, r, i)
<1>1. [kind |-> "open"] \in FeedEvent BY DEF FeedEvent
<1>2. /\ V \in Seq(FeedEvent) /\ Len(V) = 2 /\ V[1].kind = "open" /\ V[2] = s
      /\ Head(V) = V[1] /\ V # << >>
  BY <1>1
<1>3. \A i \in 1 .. Len(V) : V[i].kind \in {"open", "snapshot"} /\ (V[i].kind = "snapshot" => V[i] = s)
  BY <1>2
<1>4. EventStream(V, rows, n, lost) BY <1>3 DEF EventStream
<1>5. \A i \in 1 .. Len(V) : V[i].kind = "snapshot" => SnapshotOK(V, i, rows, n, lost)
  BY <1>3 DEF SnapshotOK, Exact
<1>6. \A kind \in {"insert", "update"} : \A r, i : ~TellsOf(V, kind, r, i) BY <1>3 DEF TellsOf
<1> QED BY <1>2, <1>3, <1>4, <1>5, <1>6 DEF QueueSound, Invalidates

-----------------------------------------------------------------------------
(* A step of the server leaves the tab sound *)

\* A step that leaves the tab alone leaves its types alone.
LEMMA TabKept ==
  ASSUME TabTyped, UNCHANGED tabVars
  PROVE  /\ TabTyped'
         /\ logPage' = logPage /\ appliedQuery' = appliedQuery /\ requestedQuery' = requestedQuery
         /\ requestError' = requestError /\ overtaken' = overtaken /\ pendingLoad' = pendingLoad
         /\ pendingRefresh' = pendingRefresh /\ pendingMore' = pendingMore
         /\ isLoadingLogs' = isLoadingLogs /\ requeryRefused' = requeryRefused
         /\ streamInterrupted' = streamInterrupted
BY DEF TabTyped, tabVars, viewVars, loadVars

\* The tab has not moved: what is due, or is still heard, keeps its requests and its page sound.
LEMMA TabSound ==
  ASSUME TabTyped, LoadsOK, LogPageOK, UNCHANGED tabVars, Due => Due',
         \A L \in FeedLoad : HeardBy(L, eventQueue, feedRows, feedSequence)
            => Due' \/ HeardBy(L, eventQueue', feedRows', feedSequence'),
         \A P \in FeedPage, q \in FeedQuery : ShownBy(P, q, eventQueue, 0, feedRows)
            => \/ Due'
               \/ /\ ShownBy(P, q, eventQueue', 0, feedRows')
                  /\ CountedBy(P, q, eventQueue, 0, feedRows, feedSequence)
                       => CountedBy(P, q, eventQueue', 0, feedRows', feedSequence')
  PROVE  TabTyped' /\ LoadsOK' /\ LogPageOK'
<1>1. /\ logPage' = logPage /\ appliedQuery' = appliedQuery
      /\ requestError' = requestError /\ overtaken' = overtaken /\ pendingLoad' = pendingLoad
      /\ pendingRefresh' = pendingRefresh /\ pendingMore' = pendingMore
      /\ isLoadingLogs' = isLoadingLogs /\ TabTyped'
  BY TabKept
<1>2. \A L \in FeedLoad : L.snapshot \/ Due \/ HeardBy(L, eventQueue, feedRows, feedSequence)
        => L.snapshot \/ Due' \/ HeardBy(L, eventQueue', feedRows', feedSequence')
  OBVIOUS
<1>3. /\ pendingLoad # NoFeedLoad => pendingLoad \in FeedLoad
      /\ pendingRefresh # NoFeedLoad => pendingRefresh \in FeedLoad
      /\ pendingMore # NoFeedLoad => pendingMore \in FeedLoad
      /\ logPage \in FeedPage /\ appliedQuery \in FeedQuery
  BY DEF TabTyped
<1>4. /\ pendingLoad # NoFeedLoad => (KeepsUp(pendingLoad) => KeepsUp(pendingLoad)')
      /\ pendingRefresh # NoFeedLoad => (KeepsUp(pendingRefresh) => KeepsUp(pendingRefresh)')
      /\ pendingMore # NoFeedLoad => (KeepsUp(pendingMore) => KeepsUp(pendingMore)')
  <2>1. /\ KeepsUp(pendingLoad)' <=> pendingLoad.snapshot \/ Due' \/ HeardBy(pendingLoad, eventQueue', feedRows', feedSequence')
        /\ KeepsUp(pendingRefresh)' <=> pendingRefresh.snapshot \/ Due' \/ HeardBy(pendingRefresh, eventQueue', feedRows', feedSequence')
        /\ KeepsUp(pendingMore)' <=> pendingMore.snapshot \/ Due' \/ HeardBy(pendingMore, eventQueue', feedRows', feedSequence')
    BY <1>1 DEF KeepsUp
  <2> QED BY <1>2, <1>3, <2>1 DEF KeepsUp
<1>5. Refreshing' = Refreshing /\ MoreOnly' = MoreOnly BY <1>1 DEF Refreshing, MoreOnly
<1>6. LoadsOK'
  <2>1. /\ pendingLoad' # NoFeedLoad =>
             /\ isLoadingLogs' /\ pendingMore' = NoFeedLoad /\ ~Refreshing'
             /\ ~pendingLoad'.superseded /\ pendingLoad'.baseline = First /\ KeepsUp(pendingLoad)'
        /\ Refreshing' =>
             /\ isLoadingLogs' /\ pendingMore' = NoFeedLoad /\ pendingRefresh'.query = appliedQuery'
             /\ pendingRefresh'.baseline = First /\ KeepsUp(pendingRefresh)'
        /\ pendingMore' # NoFeedLoad =>
             /\ MoreOnly' /\ ~pendingMore'.superseded /\ pendingMore'.query = appliedQuery'
             /\ KeepsUp(pendingMore)'
    <3>1. Refreshing => pendingRefresh # NoFeedLoad BY DEF Refreshing
    <3> QED BY <1>1, <1>4, <1>5, <3>1 DEF LoadsOK
  <2> QED BY <2>1 DEF LoadsOK
<1>7. Unsettled => Unsettled' BY <1>1, <1>5 DEF Unsettled
<1>8. LogPageOK'
  <2>1. CASE Unsettled BY <1>7, <2>1 DEF LogPageOK
  <2>2. CASE /\ ShownBy(logPage, appliedQuery, eventQueue, 0, feedRows)
             /\ overtaken \/ CountedBy(logPage, appliedQuery, eventQueue, 0, feedRows, feedSequence)
    <3>1. \/ Due'
          \/ /\ ShownBy(logPage, appliedQuery, eventQueue', 0, feedRows')
             /\ CountedBy(logPage, appliedQuery, eventQueue, 0, feedRows, feedSequence)
                  => CountedBy(logPage, appliedQuery, eventQueue', 0, feedRows', feedSequence')
      BY <1>3, <2>2
    <3>2. CASE Due' BY <3>2 DEF LogPageOK, Unsettled
    <3>3. CASE ~Due'
      <4>1. /\ ShownBy(logPage, appliedQuery, eventQueue', 0, feedRows')
            /\ overtaken \/ CountedBy(logPage, appliedQuery, eventQueue', 0, feedRows', feedSequence')
        BY <2>2, <3>1, <3>3
      <4>2. /\ ShownBy(logPage', appliedQuery', eventQueue', 0, feedRows')
            /\ overtaken' \/ CountedBy(logPage', appliedQuery', eventQueue', 0, feedRows', feedSequence')
        BY <1>1, <4>1
      <4> QED BY <4>2 DEF LogPageOK
    <3> QED BY <3>2, <3>3
  <2> QED BY <2>1, <2>2 DEF LogPageOK
<1> QED BY <1>1, <1>6, <1>8

\* An event is told of what has happened to the log.
LEMMA Told ==
  ASSUME FeedInv, NEW e \in FeedEvent, e.kind \notin {"open", "error"},
         Advances(feedRows, feedSequence, feedRows', feedSequence', e),
         Broadcasts(e), UNCHANGED tabVars, LogOK', pruning' \in BOOLEAN,
         \/ pruning' = pruning
         \/ pruning' = FALSE /\ Invalidates(e),
         e.kind = "snapshot" => Exact(e.page, feedRows', feedSequence')
  PROVE  FeedInv'
<1>1. /\ eventQueue \in Seq(FeedEvent) /\ LogOK /\ RowLog(feedRows, feedSequence) /\ TabTyped
      /\ QueueOK /\ LoadsOK /\ LogPageOK /\ pruning \in BOOLEAN
  BY DEF FeedInv, ServerTyped, LogOK
<1>2. requeryRefused' = requeryRefused /\ streamInterrupted' = streamInterrupted BY <1>1, TabKept
<1>3. CASE eventStream # "open"
  <2>1. eventStream' = eventStream /\ eventQueue' = eventQueue BY <1>3 DEF Broadcasts
  <2>2. Due' BY <1>3, <2>1 DEF Due
  <2>3. TabTyped' /\ LoadsOK' /\ LogPageOK' BY <1>1, <2>2, TabSound
  <2>4. QueueOK' BY <1>1, <1>2, <1>3, <2>1 DEF QueueOK
  <2>5. ServerTyped' BY <1>1, <2>1 DEF ServerTyped
  <2> QED BY <2>3, <2>4, <2>5 DEF FeedInv
<1>4. CASE Cut
  <2>1. PICK received \in 0 .. Len(eventQueue) :
          eventQueue' = Append(SubSeq(eventQueue, 1, received), [kind |-> "error"])
    BY <1>4 DEF Cut
  <2>2. eventStream' = "cut" BY <1>4 DEF Cut
  <2>3. [kind |-> "error"] \in FeedEvent BY DEF FeedEvent
  <2>4. SubSeq(eventQueue, 1, received) \in Seq(FeedEvent) BY <1>1
  <2>5. /\ eventQueue' \in Seq(FeedEvent) /\ eventQueue' # << >>
        /\ eventQueue'[Len(eventQueue')] = [kind |-> "error"]
    <3> DEFINE V == SubSeq(eventQueue, 1, received)
    <3>1. V \in Seq(FeedEvent) BY <2>4
    <3> HIDE DEF V
    <3> QED BY <2>1, <2>3, <3>1 DEF V
  <2>6. Due' BY <2>2 DEF Due
  <2>7. TabTyped' /\ LoadsOK' /\ LogPageOK' BY <1>1, <2>6, TabSound
  <2>8. QueueOK' BY <2>2, <2>5 DEF QueueOK
  <2>9. ServerTyped' BY <1>1, <2>5 DEF ServerTyped
  <2> QED BY <2>7, <2>8, <2>9 DEF FeedInv
<1>5. CASE eventStream = "open" /\ eventStream' = eventStream /\ eventQueue' = Append(eventQueue, e)
  <2>1. /\ eventQueue' \in Seq(FeedEvent) /\ Len(eventQueue') = Len(eventQueue) + 1
        /\ eventQueue'[Len(eventQueue) + 1] = e
        /\ \A j \in 1 .. Len(eventQueue) : eventQueue'[j] = eventQueue[j]
        /\ Len(eventQueue) \in Nat
    BY <1>1, <1>5, Appended
  <2>2. Invalidates(e) => Due'
    <3>1. Len(eventQueue) + 1 \in 1 .. Len(eventQueue') BY <2>1
    <3> QED BY <2>1, <3>1 DEF Due
  <2>3. Due => Due'
    <3>1. \A i \in 1 .. Len(eventQueue) : i \in 1 .. Len(eventQueue') BY <2>1
    <3>2. (\E i \in 1 .. Len(eventQueue) : Invalidates(eventQueue[i]))
            => \E i \in 1 .. Len(eventQueue') : Invalidates(eventQueue'[i])
      BY <2>1, <3>1
    <3> QED BY <1>2, <1>5, <2>2, <3>2 DEF Due
  <2>4. \A L \in FeedLoad : HeardBy(L, eventQueue, feedRows, feedSequence)
            => Due' \/ HeardBy(L, eventQueue', feedRows', feedSequence')
    <3>1. \A L \in FeedLoad : ~Invalidates(e) /\ HeardBy(L, eventQueue, feedRows, feedSequence)
            => HeardBy(L, Append(eventQueue, e), feedRows', feedSequence')
      BY <1>1, HeardAdvances
    <3> QED BY <1>5, <2>2, <3>1
  <2>5. \A P \in FeedPage, q \in FeedQuery : ShownBy(P, q, eventQueue, 0, feedRows)
            => \/ Due'
               \/ /\ ShownBy(P, q, eventQueue', 0, feedRows')
                  /\ CountedBy(P, q, eventQueue, 0, feedRows, feedSequence)
                       => CountedBy(P, q, eventQueue', 0, feedRows', feedSequence')
    <3>1. 0 \in 0 .. Len(eventQueue) BY <2>1
    <3>2. \A P \in FeedPage, q \in FeedQuery : ShownBy(P, q, eventQueue, 0, feedRows)
            => /\ ShownBy(P, q, Append(eventQueue, e), 0, feedRows')
               /\ CountedBy(P, q, eventQueue, 0, feedRows, feedSequence)
                    => CountedBy(P, q, Append(eventQueue, e), 0, feedRows', feedSequence')
      BY <1>1, <3>1, PageAdvances
    <3> QED BY <1>5, <3>2
  <2>6. TabTyped' /\ LoadsOK' /\ LogPageOK' BY <1>1, <2>3, <2>4, <2>5, TabSound
  <2>7. QueueOK'
    <3>1. QueueSound(eventQueue, feedRows, feedSequence, pruning) BY <1>1, <1>5 DEF QueueOK
    <3>2. (pruning' = pruning) \/ Invalidates(e) OBVIOUS
    <3>3. QueueSound(Append(eventQueue, e), feedRows', feedSequence', pruning')
      BY <1>1, <3>1, <3>2, QueueAdvances
    <3>4. QueueSound(eventQueue', feedRows', feedSequence', pruning') BY <1>5, <3>3
    <3>5. \A i \in 1 .. Len(eventQueue') : eventQueue'[i].kind # "error"
      <4>1. \A i \in 1 .. Len(eventQueue) : eventQueue[i].kind # "error" BY <1>1, <1>5 DEF QueueOK
      <4>2. \A i \in 1 .. Len(eventQueue') : i \in 1 .. Len(eventQueue) \/ i = Len(eventQueue) + 1 BY <2>1
      <4> QED BY <2>1, <4>1, <4>2
    <3>6. streamInterrupted' => eventQueue' # << >> /\ Head(eventQueue').kind = "open"
      <4>1. streamInterrupted' => eventQueue # << >> /\ Head(eventQueue).kind = "open"
        BY <1>1, <1>2, <1>5 DEF QueueOK
      <4>2. eventQueue # << >> => eventQueue' # << >> /\ Head(eventQueue') = Head(eventQueue)
        BY <1>1, <2>1
      <4> QED BY <4>1, <4>2
    <3> QED BY <1>5, <3>4, <3>5, <3>6 DEF QueueOK
  <2>8. ServerTyped' BY <2>1 DEF ServerTyped
  <2> QED BY <2>6, <2>7, <2>8 DEF FeedInv
<1> QED BY <1>3, <1>4, <1>5 DEF Broadcasts

-----------------------------------------------------------------------------
(* The steps of the server *)

\* A request is recorded.
LEMMA RecordStep ==
  ASSUME FeedInv, NEW hit \in BOOLEAN, RecordRow(hit)
  PROVE  FeedInv'
<1> DEFINE n == feedSequence
           e == [kind |-> "insert", row |-> feedSequence', hit |-> hit, version |-> 0]
           new == [hit |-> hit, version |-> 0]
<1>1. /\ LogOK /\ RowLog(feedRows, n) /\ pruning \in BOOLEAN /\ n \in Nat /\ n <= MaxRows
      /\ DOMAIN feedRows \in SUBSET (1 .. n)
      /\ feedRows \in [DOMAIN feedRows -> [hit : BOOLEAN, version : {0, 1}]]
      /\ MaxRows \in Nat
  BY FeedAssumption DEF FeedInv, ServerTyped, LogOK, RowLog
<1>2. /\ n < MaxRows /\ feedSequence' = n + 1 /\ Broadcasts(e) /\ pruning' = pruning
      /\ UNCHANGED tabVars
      /\ feedRows' = [row \in DOMAIN feedRows \cup {n + 1} |-> IF row = n + 1 THEN new ELSE feedRows[row]]
  BY DEF RecordRow
<1>3. n + 1 \in 1 .. MaxRows /\ n + 1 \notin DOMAIN feedRows BY <1>1, <1>2
<1>4. /\ DOMAIN feedRows' = DOMAIN feedRows \cup {n + 1}
      /\ feedRows'[n + 1] = new
      /\ \A r \in DOMAIN feedRows : feedRows'[r] = feedRows[r]
  BY <1>2, <1>3
<1>5. e \in FeedEvent /\ e.kind = "insert" /\ e.row = n + 1 /\ e.hit = hit
  BY <1>2, <1>3 DEF FeedEvent, RowEvent
<1>6. RowLog(feedRows', feedSequence')
  <2>1. new \in [hit : BOOLEAN, version : {0, 1}] OBVIOUS
  <2>2. feedRows' \in [DOMAIN feedRows' -> [hit : BOOLEAN, version : {0, 1}]]
    <3> HIDE DEF new
    <3>1. \A r \in DOMAIN feedRows \cup {n + 1} :
            (IF r = n + 1 THEN new ELSE feedRows[r]) \in [hit : BOOLEAN, version : {0, 1}]
      BY <1>1, <2>1
    <3> QED BY <1>2, <1>4, <3>1
  <2>3. n + 1 \in 0 .. MaxRows /\ DOMAIN feedRows' \in SUBSET (1 .. (n + 1))
    BY <1>1, <1>3, <1>4
  <2> QED BY <1>2, <2>2, <2>3 DEF RowLog
<1>7. LogOK'
  <2>1. feedRows' # << >> /\ feedSequence' > 0 /\ feedSequence' \in DOMAIN feedRows'
    <3>1. n + 1 \in DOMAIN feedRows' BY <1>4
    <3>2. DOMAIN << >> = {} OBVIOUS
    <3> QED BY <1>1, <1>2, <3>1, <3>2
  <2> QED BY <1>2, <1>6, <2>1 DEF LogOK
<1>8. Advances(feedRows, n, feedRows', feedSequence', e)
  <2>1. \A r \in DOMAIN feedRows : feedRows'[r].hit = feedRows[r].hit /\ feedRows'[r].version = feedRows[r].version
    BY <1>4
  <2>2. feedRows'[n + 1].hit = hit /\ feedRows'[n + 1].version = 0 BY <1>4
  <2> HIDE DEF e
  <2> QED BY <1>2, <1>4, <1>5, <1>6, <2>1, <2>2 DEF Advances
<1> HIDE DEF e
<1> QED BY <1>1, <1>2, <1>5, <1>7, <1>8, Told

\* The row of a request is completed.
LEMMA SettleStep ==
  ASSUME FeedInv, NEW row \in DOMAIN feedRows, SettleRow(row)
  PROVE  FeedInv'
<1> DEFINE n == feedSequence
           e == [kind |-> "update", row |-> row, version |-> 1]
           settled == [feedRows[row] EXCEPT !.version = 1]
<1>1. /\ LogOK /\ RowLog(feedRows, n) /\ pruning \in BOOLEAN /\ n \in Nat /\ n <= MaxRows
      /\ DOMAIN feedRows \in SUBSET (1 .. n) /\ n \in 0 .. MaxRows
      /\ feedRows \in [DOMAIN feedRows -> [hit : BOOLEAN, version : {0, 1}]]
      /\ MaxRows \in Nat
  BY FeedAssumption DEF FeedInv, ServerTyped, LogOK, RowLog
<1>2. /\ feedSequence' = n /\ Broadcasts(e) /\ pruning' = pruning /\ UNCHANGED tabVars
      /\ feedRows' = [feedRows EXCEPT ![row] = settled]
  BY DEF SettleRow
<1>3. feedRows[row] \in [hit : BOOLEAN, version : {0, 1}] BY <1>1
<1>4. /\ settled \in [hit : BOOLEAN, version : {0, 1}] /\ settled.hit = feedRows[row].hit
      /\ settled.version = 1
  BY <1>3
<1> HIDE DEF settled
<1>5. /\ DOMAIN feedRows' = DOMAIN feedRows /\ feedRows'[row] = settled
      /\ \A r \in DOMAIN feedRows : r # row => feedRows'[r] = feedRows[r]
      /\ feedRows' \in [DOMAIN feedRows -> [hit : BOOLEAN, version : {0, 1}]]
  BY <1>1, <1>2, <1>4
<1>6. e \in FeedEvent /\ e.kind = "update" /\ e.row = row
  <2>1. row \in 1 .. MaxRows BY <1>1
  <2> QED BY <2>1 DEF FeedEvent, RowEvent
<1>7. RowLog(feedRows', feedSequence') BY <1>1, <1>2, <1>5 DEF RowLog
<1>8. LogOK'
  <2>1. feedRows # << >> /\ feedRows' # << >>
    <3>1. DOMAIN << >> = {} OBVIOUS
    <3> QED BY <1>5, <3>1
  <2> QED BY <1>1, <1>2, <1>5, <1>7, <2>1 DEF LogOK
<1>9. Advances(feedRows, n, feedRows', feedSequence', e)
  <2>1. \A r \in DOMAIN feedRows : /\ feedRows'[r].hit = feedRows[r].hit
                                   /\ feedRows'[r].version = feedRows[r].version \/ row = r
    BY <1>4, <1>5
  <2>2. feedRows'[row].version = 1 BY <1>4, <1>5
  <2> HIDE DEF e
  <2> QED BY <1>2, <1>5, <1>6, <1>7, <2>1, <2>2 DEF Advances
<1> HIDE DEF e
<1> QED BY <1>1, <1>2, <1>6, <1>8, <1>9, Told

\* A snapshot says nothing of the log that is not in it.
LEMMA SnapshotAdvances ==
  ASSUME LogOK, NEW invalidated \in BOOLEAN
  PROVE  Advances(feedRows, feedSequence, feedRows, feedSequence, FeedSnapshot(invalidated))
<1>1. FeedSnapshot(invalidated).kind = "snapshot" BY SnapshotRead
<1>2. RowLog(feedRows, feedSequence) BY DEF LogOK
<1> QED BY <1>1, <1>2 DEF Advances

\* A snapshot is sent.
LEMMA SnapshotStep ==
  ASSUME FeedInv, BroadcastSnapshot \/ AnnouncePrune
  PROVE  FeedInv'
<1>0. LogOK /\ pruning \in BOOLEAN BY DEF FeedInv, ServerTyped
<1>1. PICK invalidated \in BOOLEAN :
        /\ Broadcasts(FeedSnapshot(invalidated)) /\ UNCHANGED tabVars
        /\ feedRows' = feedRows /\ feedSequence' = feedSequence
        /\ (pruning' = pruning) \/ (pruning' = FALSE /\ invalidated)
  BY DEF BroadcastSnapshot, AnnouncePrune, rowVars
<1> DEFINE e == FeedSnapshot(invalidated)
<1>2. /\ e \in FeedEvent /\ e.kind = "snapshot" /\ e.invalidated = invalidated
      /\ Exact(e.page, feedRows, feedSequence)
  BY <1>0, SnapshotRead
<1>3. Advances(feedRows, feedSequence, feedRows', feedSequence', e) BY <1>0, <1>1, SnapshotAdvances
<1>4. LogOK' BY <1>0, <1>1 DEF LogOK
<1>5. pruning' \in BOOLEAN BY <1>0, <1>1
<1> HIDE DEF e
<1>6. \/ pruning' = pruning
      \/ pruning' = FALSE /\ Invalidates(e)
  BY <1>1, <1>2 DEF Invalidates
<1>7. e.kind = "snapshot" => Exact(e.page, feedRows', feedSequence') BY <1>1, <1>2
<1>8. Broadcasts(e) /\ UNCHANGED tabVars BY <1>1 DEF e
<1> QED BY <1>2, <1>3, <1>4, <1>5, <1>6, <1>7, <1>8, Told

\* The stream has been given up, or rows are gone: a page is due.
LEMMA DueStep ==
  ASSUME FeedInv, Due', UNCHANGED tabVars, ServerTyped', QueueOK'
  PROVE  FeedInv'
<1>1. TabTyped /\ LoadsOK /\ LogPageOK BY DEF FeedInv
<1>2. TabTyped' /\ LoadsOK' /\ LogPageOK' BY <1>1, TabSound
<1> QED BY <1>2 DEF FeedInv

\* Rows are pruned.
LEMMA LogPruneStep ==
  ASSUME FeedInv, NEW kept \in 1 .. MaxRows, PruneRows(kept)
  PROVE  FeedInv'
<1>1. /\ LogOK /\ RowLog(feedRows, feedSequence) /\ QueueOK /\ eventQueue \in Seq(FeedEvent)
      /\ DOMAIN feedRows \in SUBSET (1 .. feedSequence) /\ feedSequence \in Nat
      /\ feedRows \in [DOMAIN feedRows -> [hit : BOOLEAN, version : {0, 1}]] /\ TabTyped
  BY FeedAssumption DEF FeedInv, ServerTyped, LogOK, RowLog
<1>2. /\ feedRows' = NewestOf(feedRows, kept) /\ pruning' = TRUE /\ feedSequence' = feedSequence
      /\ eventStream' = eventStream /\ eventQueue' = eventQueue /\ UNCHANGED tabVars
      /\ kept < Cardinality(DOMAIN feedRows)
  BY DEF PruneRows
<1>3. /\ DOMAIN feedRows' = TopOf(DOMAIN feedRows, kept)
      /\ \A r \in DOMAIN feedRows' : feedRows'[r] = feedRows[r]
      /\ feedRows' = [r \in DOMAIN feedRows' |-> feedRows[r]]
  BY <1>2, NewestIs
<1>4. /\ DOMAIN feedRows' \in SUBSET DOMAIN feedRows
      /\ \A r \in DOMAIN feedRows \ DOMAIN feedRows', x \in DOMAIN feedRows' : r < x
      /\ DOMAIN feedRows' = DOMAIN feedRows \/ Cardinality(DOMAIN feedRows') >= kept
  <2>1. kept \in Nat /\ kept # 0 OBVIOUS
  <2> QED BY <1>1, <1>3, <2>1, TopKept
<1>5. RowLog(feedRows', feedSequence')
  <2>1. feedRows' \in [DOMAIN feedRows' -> [hit : BOOLEAN, version : {0, 1}]]
    <3>1. \A r \in DOMAIN feedRows' : feedRows[r] \in [hit : BOOLEAN, version : {0, 1}] BY <1>1, <1>4
    <3> QED BY <1>3, <3>1
  <2> QED BY <1>1, <1>2, <1>4, <2>1 DEF RowLog
<1>6. LogOK'
  <2>1. DOMAIN feedRows # {} => DOMAIN feedRows' # {}
    <3>1. SUFFICES ASSUME DOMAIN feedRows' = {} PROVE DOMAIN feedRows = {}
      OBVIOUS
    <3>2. Cardinality(DOMAIN feedRows') = 0 BY <3>1, FS_EmptySet
    <3>3. DOMAIN feedRows' = DOMAIN feedRows BY <1>4, <3>2
    <3> QED BY <3>1, <3>3
  <2>2. DOMAIN feedRows = {} => feedRows' = << >>
    <3>1. ASSUME DOMAIN feedRows = {} PROVE feedRows = << >>
      <4>1. DOMAIN feedRows = {} BY <3>1
      <4>2. feedRows = [r \in {} |-> feedRows[r]] BY <1>1, <4>1
      <4>3. << >> = [r \in {} |-> << >>[r]] OBVIOUS
      <4> QED BY <4>2, <4>3
    <3>2. ASSUME DOMAIN feedRows = {} PROVE feedRows' = feedRows
      <4>1. DOMAIN feedRows' = {} BY <1>4, <3>2
      <4> QED BY <1>1, <1>3, <3>2, <4>1
    <3> QED BY <3>1, <3>2
  <2>3. DOMAIN << >> = {} OBVIOUS
  <2>4. feedSequence > 0 => feedSequence \in DOMAIN feedRows'
    <3>1. SUFFICES ASSUME feedSequence > 0, feedSequence \notin DOMAIN feedRows' PROVE FALSE
      OBVIOUS
    <3>2. feedSequence \in DOMAIN feedRows BY <1>1, <3>1 DEF LogOK
    <3>3. PICK x : x \in DOMAIN feedRows' BY <2>1, <3>2
    <3>4. feedSequence < x /\ x \in 1 .. feedSequence BY <1>1, <1>4, <3>1, <3>2, <3>3
    <3> QED BY <1>1, <3>4
  <2>5. feedRows' = << >> <=> feedSequence' = 0
    <3>1. feedRows = << >> <=> feedSequence = 0 BY <1>1 DEF LogOK
    <3>2. DOMAIN feedRows = {} => feedSequence = 0
      <4>1. feedSequence > 0 => feedSequence \in DOMAIN feedRows BY <1>1 DEF LogOK
      <4> QED BY <1>1, <4>1
    <3> QED BY <1>2, <2>1, <2>2, <2>3, <3>1, <3>2
  <2> QED BY <1>2, <1>5, <2>4, <2>5 DEF LogOK
<1>7. Due' BY <1>2 DEF Due
<1>8. ServerTyped' BY <1>1, <1>2, <1>6 DEF ServerTyped
<1>9. QueueOK'
  <2>1. streamInterrupted' = streamInterrupted BY <1>1, <1>2, TabKept
  <2>2. QueueSound(eventQueue, feedRows, feedSequence, pruning)
          => QueueSound(eventQueue, feedRows', feedSequence, TRUE)
    BY <1>3, <1>4, QueuePruned
  <2> QED BY <1>1, <1>2, <2>1, <2>2 DEF QueueOK
<1> QED BY <1>2, <1>7, <1>8, <1>9, DueStep

\* The connection is lost.
LEMMA LoseStep ==
  ASSUME FeedInv, LoseStream
  PROVE  FeedInv'
<1>1. /\ ServerTyped /\ eventQueue \in Seq(FeedEvent) /\ UNCHANGED << rowVars, tabVars >> /\ eventStream' = "cut"
      /\ TabTyped
  BY DEF FeedInv, ServerTyped, LoseStream, Cut
<1>2. PICK received \in 0 .. Len(eventQueue) :
        eventQueue' = Append(SubSeq(eventQueue, 1, received), [kind |-> "error"])
  BY DEF LoseStream, Cut
<1>3. [kind |-> "error"] \in FeedEvent BY DEF FeedEvent
<1>4. /\ eventQueue' \in Seq(FeedEvent) /\ eventQueue' # << >>
      /\ eventQueue'[Len(eventQueue')] = [kind |-> "error"]
  <2> DEFINE V == SubSeq(eventQueue, 1, received)
  <2>1. V \in Seq(FeedEvent) BY <1>1
  <2> HIDE DEF V
  <2> QED BY <1>2, <1>3, <2>1 DEF V
<1>5. Due' BY <1>1 DEF Due
<1>6. QueueOK' BY <1>1, <1>4 DEF QueueOK
<1>7. ServerTyped' BY <1>1, <1>4 DEF ServerTyped, LogOK, rowVars
<1> QED BY <1>1, <1>5, <1>6, <1>7, DueStep

\* The browser connects again.
LEMMA SubscribeStep ==
  ASSUME FeedInv, Subscribe \/ RefuseSubscription
  PROVE  FeedInv'
<1>1. /\ ServerTyped /\ LogOK /\ eventQueue \in Seq(FeedEvent) /\ UNCHANGED << rowVars, tabVars >>
      /\ eventStream = "cut" /\ eventQueue = << >> /\ QueueOK /\ TabTyped
  BY DEF FeedInv, ServerTyped, Subscribe, RefuseSubscription
<1>2. /\ streamInterrupted' = streamInterrupted /\ feedRows' = feedRows
      /\ feedSequence' = feedSequence /\ pruning' = pruning
  BY <1>1, TabKept DEF rowVars
<1>3. streamInterrupted' BY <1>1, <1>2 DEF QueueOK
<1>4. Due' BY <1>3 DEF Due
<1>5. CASE Subscribe
  <2> DEFINE s == FeedSnapshot(FALSE)
             V == << [kind |-> "open"], s >>
  <2>1. /\ s \in FeedEvent /\ s.kind = "snapshot" /\ s.invalidated = FALSE
        /\ Exact(s.page, feedRows, feedSequence)
    BY <1>1, SnapshotRead
  <2>2. eventStream' = "open" /\ eventQueue' = V BY <1>5 DEF Subscribe
  <2> HIDE DEF s
  <2>3. /\ V \in Seq(FeedEvent) /\ QueueSound(V, feedRows, feedSequence, pruning)
        /\ V # << >> /\ Head(V).kind = "open"
        /\ \A i \in 1 .. Len(V) : V[i].kind # "error" /\ ~Invalidates(V[i])
    BY <2>1, QueueOpened
  <2> HIDE DEF V
  <2>4. QueueOK' BY <1>2, <2>2, <2>3 DEF QueueOK
  <2>5. ServerTyped' BY <1>1, <1>2, <2>2, <2>3 DEF ServerTyped, LogOK
  <2> QED BY <1>1, <1>4, <2>4, <2>5, DueStep
<1>6. CASE RefuseSubscription
  <2>1. eventStream' = "refused" /\ eventQueue' = eventQueue BY <1>6 DEF RefuseSubscription
  <2>2. QueueOK' BY <2>1 DEF QueueOK
  <2>3. ServerTyped' BY <1>1, <1>2, <2>1 DEF ServerTyped, LogOK
  <2> QED BY <1>1, <1>4, <2>2, <2>3, DueStep
<1> QED BY <1>5, <1>6

\* What the server has, and what is on its way, stay as they are.
LEMMA ServerKept ==
  ASSUME FeedInv, UNCHANGED << rowVars, eventStream, eventQueue, streamInterrupted >>
  PROVE  /\ feedRows' = feedRows /\ feedSequence' = feedSequence /\ pruning' = pruning
         /\ eventStream' = eventStream /\ eventQueue' = eventQueue
         /\ streamInterrupted' = streamInterrupted
         /\ ServerTyped' /\ QueueOK'
BY DEF FeedInv, ServerTyped, LogOK, QueueOK, rowVars

\* A request, and what is known of it once it is answered.
LEMMA AnswerKeepsUp ==
  ASSUME FeedInv, NEW L \in FeedLoad, L.answer = << >>, KeepsUp(L)
  PROVE  LET A == AnswerPage(L) IN
         /\ A \in FeedLoad /\ A # NoFeedLoad /\ A.query = L.query /\ A.baseline = L.baseline
         /\ A.superseded = L.superseded /\ A.for = L.for
         /\ Due \/ A.snapshot \/ HeardBy(A, eventQueue, feedRows, feedSequence)
<1> DEFINE A == AnswerPage(L)
<1>1. LogOK /\ eventQueue \in Seq(FeedEvent) BY DEF FeedInv, ServerTyped
<1>2. /\ A \in FeedLoad /\ A.query = L.query /\ A.baseline = L.baseline
      /\ A.superseded = L.superseded /\ A.for = L.for /\ A.snapshot = L.snapshot
  BY <1>1, AnswerParts
<1>3. HeardBy(L, eventQueue, feedRows, feedSequence) => HeardBy(A, eventQueue, feedRows, feedSequence)
  BY <1>1, HeardAnswer
<1> HIDE DEF A
<1>4. A # NoFeedLoad BY <1>2, LoadParts
<1>5. Due \/ A.snapshot \/ HeardBy(A, eventQueue, feedRows, feedSequence)
  BY <1>2, <1>3 DEF KeepsUp
<1> QED BY <1>2, <1>4, <1>5 DEF A

-----------------------------------------------------------------------------
(* An answer comes back *)

\* The server answers a request.
LEMMA AnswerStep ==
  ASSUME FeedInv, AnswerLoad \/ AnswerRefresh \/ AnswerMore
  PROVE  FeedInv'
<1>1. /\ UNCHANGED << rowVars, eventStream, eventQueue, viewVars, streamInterrupted >>
      /\ UNCHANGED << isLoadingLogs, requeryRefused >>
  BY DEF AnswerLoad, AnswerRefresh, AnswerMore
<1>2. /\ feedRows' = feedRows /\ feedSequence' = feedSequence /\ pruning' = pruning
      /\ eventStream' = eventStream /\ eventQueue' = eventQueue
      /\ streamInterrupted' = streamInterrupted
      /\ ServerTyped' /\ QueueOK'
  BY <1>1, ServerKept
<1>3. /\ logPage' = logPage /\ appliedQuery' = appliedQuery /\ requestedQuery' = requestedQuery
      /\ requestError' = requestError /\ overtaken' = overtaken
      /\ isLoadingLogs' = isLoadingLogs /\ requeryRefused' = requeryRefused
  BY <1>1 DEF viewVars
<1>4. Due' <=> Due BY <1>2, <1>3 DEF Due
<1>5. TabTyped /\ LoadsOK /\ LogPageOK BY DEF FeedInv
<1>6. \A L \in FeedLoad : L.answer = << >> =>
        /\ AnswerPage(L) \in FeedLoad /\ AnswerPage(L) # NoFeedLoad
        /\ AnswerPage(L).query = L.query /\ AnswerPage(L).baseline = L.baseline
        /\ AnswerPage(L).superseded = L.superseded /\ AnswerPage(L).for = L.for
        /\ KeepsUp(L) => \/ Due \/ AnswerPage(L).snapshot
                         \/ HeardBy(AnswerPage(L), eventQueue, feedRows, feedSequence)
  <2>1. LogOK BY DEF FeedInv, ServerTyped
  <2> QED BY <2>1, AnswerParts, LoadParts, AnswerKeepsUp
<1>7. \A L \in FeedLoad : KeepsUp(L) <=> \/ Due' \/ L.snapshot
                                         \/ HeardBy(L, eventQueue', feedRows', feedSequence')
  BY <1>2, <1>4 DEF KeepsUp
<1>8. MoreOnly' = MoreOnly BY <1>3 DEF MoreOnly
<1>9. /\ pendingLoad # NoFeedLoad => pendingLoad \in FeedLoad
      /\ pendingRefresh # NoFeedLoad => pendingRefresh \in FeedLoad
      /\ pendingMore # NoFeedLoad => pendingMore \in FeedLoad
  BY <1>5 DEF TabTyped
<1>10. CASE AnswerLoad
  <2>1. /\ pendingLoad # NoFeedLoad /\ pendingLoad.answer = << >>
        /\ pendingLoad' = AnswerPage(pendingLoad)
        /\ pendingRefresh' = pendingRefresh /\ pendingMore' = pendingMore
    BY <1>10 DEF AnswerLoad, AskedFor
  <2>2. /\ pendingLoad' \in FeedLoad /\ pendingLoad' # NoFeedLoad
        /\ pendingLoad'.baseline = pendingLoad.baseline
        /\ pendingLoad'.superseded = pendingLoad.superseded
        /\ KeepsUp(pendingLoad) =>
             \/ Due' \/ pendingLoad'.snapshot
             \/ HeardBy(pendingLoad', eventQueue', feedRows', feedSequence')
    <3> DEFINE A == AnswerPage(pendingLoad)
    <3>1. /\ A \in FeedLoad /\ A # NoFeedLoad
          /\ A.baseline = pendingLoad.baseline /\ A.superseded = pendingLoad.superseded
          /\ KeepsUp(pendingLoad) => \/ Due \/ A.snapshot
                                     \/ HeardBy(A, eventQueue, feedRows, feedSequence)
      BY <1>6, <1>9, <2>1
    <3>2. pendingLoad' = A BY <2>1
    <3> HIDE DEF A
    <3> QED BY <1>2, <1>4, <3>1, <3>2
  <2>3. Refreshing' = Refreshing BY <2>1 DEF Refreshing
  <2>4. LoadsOK'
    <3>1. KeepsUp(pendingLoad) /\ pendingMore = NoFeedLoad /\ ~Refreshing /\ isLoadingLogs
          /\ ~pendingLoad.superseded /\ pendingLoad.baseline = First
      BY <1>5, <2>1 DEF LoadsOK
    <3>2. KeepsUp(pendingLoad)' BY <2>2, <3>1 DEF KeepsUp
    <3> QED BY <1>3, <2>1, <2>2, <2>3, <3>1, <3>2 DEF LoadsOK
  <2>5. TabTyped' BY <1>3, <1>2, <1>5, <2>1, <2>2 DEF TabTyped
  <2>6. LogPageOK' BY <2>2 DEF LogPageOK, Unsettled
  <2> QED BY <1>2, <2>4, <2>5, <2>6 DEF FeedInv
<1>11. CASE AnswerRefresh
  <2>1. /\ pendingRefresh # NoFeedLoad /\ pendingRefresh.answer = << >>
        /\ pendingRefresh' = AnswerPage(pendingRefresh)
        /\ pendingLoad' = pendingLoad /\ pendingMore' = pendingMore
    BY <1>11 DEF AnswerRefresh, AskedFor
  <2>2. /\ pendingRefresh' \in FeedLoad /\ pendingRefresh' # NoFeedLoad
        /\ pendingRefresh'.query = pendingRefresh.query /\ pendingRefresh'.for = pendingRefresh.for
        /\ pendingRefresh'.baseline = pendingRefresh.baseline
        /\ pendingRefresh'.superseded = pendingRefresh.superseded
        /\ KeepsUp(pendingRefresh) =>
             \/ Due' \/ pendingRefresh'.snapshot
             \/ HeardBy(pendingRefresh', eventQueue', feedRows', feedSequence')
    <3> DEFINE A == AnswerPage(pendingRefresh)
    <3>1. /\ A \in FeedLoad /\ A # NoFeedLoad
          /\ A.query = pendingRefresh.query /\ A.for = pendingRefresh.for
          /\ A.baseline = pendingRefresh.baseline /\ A.superseded = pendingRefresh.superseded
          /\ KeepsUp(pendingRefresh) => \/ Due \/ A.snapshot
                                        \/ HeardBy(A, eventQueue, feedRows, feedSequence)
      BY <1>6, <1>9, <2>1
    <3>2. pendingRefresh' = A BY <2>1
    <3> HIDE DEF A
    <3> QED BY <1>2, <1>4, <3>1, <3>2
  <2>3. Refreshing' <=> Refreshing BY <2>1, <2>2 DEF Refreshing
  <2>4. LoadsOK'
    <3>1. KeepsUp(pendingLoad)' <=> KeepsUp(pendingLoad) BY <1>2, <1>4, <2>1 DEF KeepsUp
    <3>2. KeepsUp(pendingMore)' <=> KeepsUp(pendingMore) BY <1>2, <1>4, <2>1 DEF KeepsUp
    <3>3. KeepsUp(pendingRefresh) => KeepsUp(pendingRefresh)' BY <2>2 DEF KeepsUp
    <3> QED BY <1>3, <1>5, <1>8, <2>1, <2>2, <2>3, <3>1, <3>2, <3>3 DEF LoadsOK
  <2>5. TabTyped' BY <1>3, <1>2, <1>5, <2>1, <2>2 DEF TabTyped
  <2>6. LogPageOK'
    <3>1. Unsettled' <=> Unsettled BY <1>4, <1>8, <2>1, <2>2, <2>3 DEF Unsettled
    <3> QED BY <1>2, <1>3, <1>5, <3>1 DEF LogPageOK
  <2> QED BY <1>2, <2>4, <2>5, <2>6 DEF FeedInv
<1>12. CASE AnswerMore
  <2>1. /\ pendingMore # NoFeedLoad /\ pendingMore.answer = << >>
        /\ pendingMore' = AnswerPage(pendingMore)
        /\ pendingLoad' = pendingLoad /\ pendingRefresh' = pendingRefresh
    BY <1>12 DEF AnswerMore, AskedFor
  <2>2. /\ pendingMore' \in FeedLoad /\ pendingMore' # NoFeedLoad
        /\ pendingMore'.query = pendingMore.query
        /\ pendingMore'.superseded = pendingMore.superseded
        /\ KeepsUp(pendingMore) =>
             \/ Due' \/ pendingMore'.snapshot
             \/ HeardBy(pendingMore', eventQueue', feedRows', feedSequence')
    <3> DEFINE A == AnswerPage(pendingMore)
    <3>1. /\ A \in FeedLoad /\ A # NoFeedLoad
          /\ A.query = pendingMore.query /\ A.superseded = pendingMore.superseded
          /\ KeepsUp(pendingMore) => \/ Due \/ A.snapshot
                                     \/ HeardBy(A, eventQueue, feedRows, feedSequence)
      BY <1>6, <1>9, <2>1
    <3>2. pendingMore' = A BY <2>1
    <3> HIDE DEF A
    <3> QED BY <1>2, <1>4, <3>1, <3>2
  <2>3. Refreshing' = Refreshing BY <2>1 DEF Refreshing
  <2>4. LoadsOK'
    <3>1. pendingLoad = NoFeedLoad /\ ~Refreshing BY <1>5, <2>1 DEF LoadsOK
    <3>2. KeepsUp(pendingMore) => KeepsUp(pendingMore)' BY <2>2 DEF KeepsUp
    <3> QED BY <1>3, <1>5, <1>8, <2>1, <2>2, <2>3, <3>1, <3>2 DEF LoadsOK
  <2>5. TabTyped' BY <1>3, <1>2, <1>5, <2>1, <2>2 DEF TabTyped
  <2>6. LogPageOK'
    <3>1. Unsettled' <=> Unsettled BY <1>4, <1>8, <2>1, <2>3 DEF Unsettled
    <3> QED BY <1>2, <1>3, <1>5, <3>1 DEF LogPageOK
  <2> QED BY <1>2, <2>4, <2>5, <2>6 DEF FeedInv
<1> QED BY <1>10, <1>11, <1>12

-----------------------------------------------------------------------------
(* An event is read *)

\* The first event is read.
LEMMA TailPage ==
  ASSUME NEW V \in Seq(FeedEvent), V # << >>, NEW rows, NEW n, NEW P, NEW q
  PROVE  /\ ShownBy(P, q, V, 1, rows) => ShownBy(P, q, Tail(V), 0, rows)
         /\ CountedBy(P, q, V, 1, rows, n) => CountedBy(P, q, Tail(V), 0, rows, n)
<1> DEFINE W == Tail(V)
           f == [i \in 0 .. Len(W) |-> i + 1]
<1>1. W \in Seq(FeedEvent) /\ Len(W) \in Nat OBVIOUS
<1>2. Within(W, V, f) BY TailWithin
<1> HIDE DEF W
<1>3. 0 \in 0 .. Len(W) /\ f[0] = 1 BY <1>1
<1> HIDE DEF f
<1>4. \A p, query : \A i \in 0 .. Len(W) :
        /\ ShownBy(p, query, V, f[i], rows) => ShownBy(p, query, W, i, rows)
        /\ CountedBy(p, query, V, f[i], rows, n) => CountedBy(p, query, W, i, rows, n)
  BY <1>1, <1>2, WithinKeeps
<1> QED BY <1>3, <1>4 DEF W

\* A page stays right when an event about no row is read.
LEMMA SkipPage ==
  ASSUME NEW V \in Seq(FeedEvent), V # << >>, ~Matters(Head(V)), NEW rows, NEW n, NEW P, NEW q
  PROVE  /\ ShownBy(P, q, V, 0, rows) => ShownBy(P, q, V, 1, rows)
         /\ CountedBy(P, q, V, 0, rows, n) => CountedBy(P, q, V, 1, rows, n)
<1>1. 1 \in 1 .. Len(V) /\ V[1] = Head(V) /\ 1 - 1 = 0 OBVIOUS
<1>2. \A kind, r : TellsOf(V, kind, r, 0) <=> TellsOf(V, kind, r, 1) \/ (V[1].kind = kind /\ V[1].row = r)
  BY <1>1, NextTells
<1>3. \A kind \in {"insert", "update"} : \A r : TellsOf(V, kind, r, 0) <=> TellsOf(V, kind, r, 1)
  BY <1>1, <1>2 DEF Matters
<1>4. \A r : /\ TellsOf(V, "insert", r, 0) <=> TellsOf(V, "insert", r, 1)
             /\ TellsOf(V, "update", r, 0) <=> TellsOf(V, "update", r, 1)
  BY <1>3
<1> QED BY <1>4 DEF ShownBy, CountedBy

\* A row that is read is merged into the page.
LEMMA ReadPage ==
  ASSUME NEW rows, NEW n, RowLog(rows, n), NEW V \in Seq(FeedEvent), V # << >>,
         EventStream(V, rows, n, FALSE), NothingGone(V), Head(V) \in RowEvent,
         NEW q, NEW P \in FeedPage, ShownBy(P, q, V, 0, rows)
  PROVE  LET N == mergeLiveLogPage(P, Head(V), q) IN
         /\ ShownBy(N, q, Tail(V), 0, rows)
         /\ CountedBy(P, q, V, 0, rows, n) => CountedBy(N, q, Tail(V), 0, rows, n)
<1> DEFINE N == mergeLiveLogPage(P, V[1], q)
<1>1. 1 \in 1 .. Len(V) /\ V[1] = Head(V) /\ 1 - 1 = 0 OBVIOUS
<1>2. V[1] \in RowEvent /\ V[1].kind \in {"insert", "update"} BY <1>1 DEF RowEvent
<1>3. P.limit >= PageLimit BY PageParts
<1>4. ShownBy(P, q, V, 1 - 1, rows) BY <1>1
<1>5. CASE V[1].kind = "insert"
  <2>1. InsertOK(V, 1, rows, n, FALSE) BY <1>1, <1>5 DEF EventStream
  <2>2. V[1].row \in DOMAIN rows BY <2>1 DEF InsertOK, NothingGone
  <2>3. LET M == mergeLiveLogPage(P, V[1], q) IN
        /\ ShownBy(M, q, V, 1, rows)
        /\ CountedBy(P, q, V, 1 - 1, rows, n) => CountedBy(M, q, V, 1, rows, n)
    BY <1>1, <1>2, <1>3, <1>4, <1>5, <2>2, InsertKeeps
  <2> QED BY <1>1, <2>3, TailPage
<1>6. CASE V[1].kind = "update"
  <2>1. LET M == mergeLiveLogPage(P, V[1], q) IN
        /\ ShownBy(M, q, V, 1, rows)
        /\ CountedBy(P, q, V, 1 - 1, rows, n) => CountedBy(M, q, V, 1, rows, n)
    BY <1>1, <1>2, <1>4, <1>6, UpdateKeeps
  <2> QED BY <1>1, <2>1, TailPage
<1> QED BY <1>2, <1>5, <1>6

\* A live event leaves a page a page.
LEMMA MergeTyped ==
  ASSUME NEW P \in FeedPage, NEW e \in RowEvent, NEW q
  PROVE  mergeLiveLogPage(P, e, q) \in FeedPage
<1>1. e.kind \in {"insert", "update"} BY DEF RowEvent
<1>2. CASE e.kind = "insert" BY <1>2, MergeInsertIs
<1>3. CASE e.kind = "update" BY <1>3, MergeUpdateIs
<1> QED BY <1>1, <1>2, <1>3

\* What a request has heard.
LEMMA HearingIs ==
  ASSUME NEW L \in FeedLoad, NEW e \in FeedEvent, e \in RowEvent \/ e.kind = "snapshot"
  PROVE  LET M == Hearing(L, e) IN
         /\ M \in FeedLoad /\ M # NoFeedLoad /\ M.query = L.query /\ M.for = L.for
         /\ M.baseline = L.baseline /\ M.superseded = L.superseded /\ M.answer = L.answer
         /\ L.superseded => M = L
         /\ ~L.superseded /\ e.kind = "snapshot" => M.snapshot /\ M.live = L.live
         /\ ~L.superseded /\ e \in RowEvent => M.snapshot = L.snapshot /\ M.live = Append(L.live, e)
<1>1. L # NoFeedLoad BY LoadParts
<1>2. CASE L.superseded
  <2>1. Hearing(L, e) = L BY <1>1, <1>2 DEF Hearing
  <2> QED BY <1>1, <1>2, <2>1
<1>3. CASE ~L.superseded /\ e.kind = "snapshot"
  <2> DEFINE M == [L EXCEPT !.snapshot = TRUE]
  <2>1. Hearing(L, e) = M BY <1>1, <1>3 DEF Hearing
  <2>2. /\ M \in FeedLoad /\ M.query = L.query /\ M.for = L.for /\ M.baseline = L.baseline
        /\ M.superseded = L.superseded /\ M.answer = L.answer /\ M.snapshot /\ M.live = L.live
    BY DEF FeedLoad
  <2>3. e \notin RowEvent BY <1>3 DEF RowEvent
  <2> HIDE DEF M
  <2>4. M # NoFeedLoad BY <2>2, LoadParts
  <2> QED BY <1>3, <2>1, <2>2, <2>3, <2>4
<1>4. CASE ~L.superseded /\ e \in RowEvent
  <2> DEFINE live == Append(L.live, e)
             M == [L EXCEPT !.live = live]
  <2>1. e.kind # "snapshot" BY <1>4 DEF RowEvent
  <2>2. Hearing(L, e) = M BY <1>1, <1>4, <2>1 DEF Hearing
  <2>3. live \in Seq(RowEvent)
    <3>1. L.live \in Seq(RowEvent) BY LoadParts
    <3> QED BY <1>4, <3>1
  <2> HIDE DEF live
  <2>4. /\ M \in FeedLoad /\ M.query = L.query /\ M.for = L.for /\ M.baseline = L.baseline
        /\ M.superseded = L.superseded /\ M.answer = L.answer /\ M.snapshot = L.snapshot
        /\ M.live = live
    BY <2>3 DEF FeedLoad
  <2> HIDE DEF M
  <2>5. M # NoFeedLoad BY <2>4, LoadParts
  <2> QED BY <1>4, <2>1, <2>2, <2>4, <2>5 DEF live
<1> QED BY <1>2, <1>3, <1>4

\* The first event of a queue that is true to the log.
LEMMA ReadsQueue ==
  ASSUME FeedInv, NEW kind \in {"open", "error", "snapshot", "insert", "update"}, Reads(kind),
         streamInterrupted' = CASE kind = "open" -> FALSE
                                [] kind = "error" -> TRUE
                                [] OTHER -> streamInterrupted
  PROVE  /\ ServerTyped' /\ QueueOK'
         /\ eventQueue \in Seq(FeedEvent) /\ eventQueue # << >> /\ Head(eventQueue) \in FeedEvent
         /\ Head(eventQueue).kind = kind /\ eventQueue' = Tail(eventQueue)
         /\ kind \in {"insert", "update"} => Head(eventQueue) \in RowEvent
         /\ feedRows' = feedRows /\ feedSequence' = feedSequence /\ pruning' = pruning
         /\ eventStream' = eventStream /\ appliedQuery' = appliedQuery
         /\ requestedQuery' = requestedQuery /\ requestError' = requestError
         /\ streamInterrupted \in BOOLEAN
<1>1. /\ eventQueue \in Seq(FeedEvent) /\ eventQueue # << >> /\ Head(eventQueue).kind = kind
      /\ eventQueue' = Tail(eventQueue)
      /\ feedRows' = feedRows /\ feedSequence' = feedSequence /\ pruning' = pruning
      /\ eventStream' = eventStream /\ appliedQuery' = appliedQuery
      /\ requestedQuery' = requestedQuery /\ requestError' = requestError
      /\ ServerTyped /\ QueueOK /\ streamInterrupted \in BOOLEAN
  BY DEF FeedInv, ServerTyped, TabTyped, Reads, rowVars
<1>2. /\ Len(eventQueue) \in Nat \ {0} /\ Len(eventQueue') = Len(eventQueue) - 1
      /\ eventQueue' \in Seq(FeedEvent) /\ Head(eventQueue) = eventQueue[1]
      /\ \A j \in 1 .. Len(eventQueue') : eventQueue'[j] = eventQueue[j + 1] /\ j + 1 \in 1 .. Len(eventQueue)
      /\ Head(eventQueue) \in FeedEvent
      /\ eventQueue' = << >> <=> Len(eventQueue) = 1
  <2>1. Head(eventQueue) \in FeedEvent BY <1>1
  <2>2. eventQueue' \in Seq(FeedEvent) BY <1>1
  <2>3. /\ Len(eventQueue) \in Nat \ {0} /\ Len(eventQueue') = Len(eventQueue) - 1
        /\ Head(eventQueue) = eventQueue[1]
    BY <1>1
  <2>4. \A j \in 1 .. Len(eventQueue') : eventQueue'[j] = eventQueue[j + 1] /\ j + 1 \in 1 .. Len(eventQueue)
    BY <1>1, <2>3
  <2>5. eventQueue' = << >> <=> Len(eventQueue') = 0 BY <2>2
  <2>6. eventQueue' = << >> <=> Len(eventQueue) = 1 BY <2>3, <2>5
  <2> QED BY <2>1, <2>2, <2>3, <2>4, <2>6
<1>3. kind \in {"insert", "update"} => Head(eventQueue) \in RowEvent
  BY <1>1, <1>2 DEF FeedEvent
<1>4. ServerTyped' BY <1>1, <1>2 DEF ServerTyped, LogOK
<1>5. ASSUME eventStream = "open"
      PROVE  /\ QueueSound(eventQueue', feedRows, feedSequence, pruning)
             /\ \A i \in 1 .. Len(eventQueue') : eventQueue'[i].kind # "error"
             /\ streamInterrupted' = FALSE
  <2>1. QueueSound(Tail(eventQueue), feedRows, feedSequence, pruning)
    <3>1. QueueSound(eventQueue, feedRows, feedSequence, pruning) BY <1>1, <1>5 DEF QueueOK
    <3> QED BY <1>1, <3>1, QueueTail
  <2>2. \A i \in 1 .. Len(eventQueue) : eventQueue[i].kind # "error" BY <1>1, <1>5 DEF QueueOK
  <2>3. kind # "error"
    <3>1. 1 \in 1 .. Len(eventQueue) BY <1>2
    <3> QED BY <1>1, <1>2, <2>2, <3>1
  <2>4. streamInterrupted => kind = "open" BY <1>1, <1>5 DEF QueueOK
  <2> QED BY <1>1, <1>2, <2>1, <2>2, <2>3, <2>4
<1>6. ASSUME eventStream = "cut"
      PROVE  IF eventQueue' = << >> THEN streamInterrupted' ELSE eventQueue'[Len(eventQueue')].kind = "error"
  <2>1. eventQueue[Len(eventQueue)].kind = "error" BY <1>1, <1>6 DEF QueueOK
  <2>2. CASE eventQueue' = << >>
    <3>1. kind = "error" BY <1>1, <1>2, <2>1, <2>2
    <3> QED BY <2>2, <3>1
  <2>3. CASE eventQueue' # << >>
    <3>1. Len(eventQueue') \in 1 .. Len(eventQueue') /\ Len(eventQueue') + 1 = Len(eventQueue)
      BY <1>2, <2>3
    <3> QED BY <1>2, <2>1, <2>3, <3>1
  <2> QED BY <2>2, <2>3
<1>7. QueueOK' BY <1>1, <1>5, <1>6 DEF QueueOK
<1> QED BY <1>1, <1>2, <1>3, <1>4, <1>7

-----------------------------------------------------------------------------
(* A row is read *)

\* If nothing is gone, nothing is gone of the rest.
LEMMA KeptTail ==
  ASSUME NEW Q \in Seq(FeedEvent), Q # << >>, ~Invalidates(Head(Q))
  PROVE  NothingGone(Tail(Q)) <=> NothingGone(Q)
<1>1. /\ Len(Q) \in Nat \ {0} /\ Len(Tail(Q)) = Len(Q) - 1 /\ Head(Q) = Q[1]
      /\ \A j \in 1 .. Len(Tail(Q)) : Tail(Q)[j] = Q[j + 1] /\ j + 1 \in 1 .. Len(Q)
  OBVIOUS
<1>2. NothingGone(Q) => NothingGone(Tail(Q)) BY <1>1 DEF NothingGone
<1>3. ASSUME NothingGone(Tail(Q)) PROVE NothingGone(Q)
  <2> SUFFICES ASSUME NEW i \in 1 .. Len(Q), Invalidates(Q[i]) PROVE FALSE
    BY DEF NothingGone
  <2>1. i # 1 BY <1>1
  <2>2. i - 1 \in 1 .. Len(Tail(Q)) /\ (i - 1) + 1 = i BY <1>1, <2>1
  <2> QED BY <1>1, <1>3, <2>2 DEF NothingGone
<1> QED BY <1>2, <1>3

\* What Due says of the parts of a state.
LEMMA DueIs ==
  Due <=> \/ requeryRefused \/ streamInterrupted \/ eventStream # "open" \/ pruning
          \/ ~NothingGone(eventQueue)
BY DEF Due, NothingGone

\* What the queue says when nothing is due.
LEMMA NothingDue ==
  ASSUME FeedInv, ~Due
  PROVE  /\ eventStream = "open" /\ NothingGone(eventQueue) /\ pruning = FALSE
         /\ EventStream(eventQueue, feedRows, feedSequence, FALSE)
         /\ RowLog(feedRows, feedSequence)
<1>1. eventStream = "open" /\ NothingGone(eventQueue) /\ ~pruning BY DEF Due, NothingGone
<1>2. pruning = FALSE BY <1>1 DEF FeedInv, ServerTyped
<1>3. EventStream(eventQueue, feedRows, feedSequence, pruning)
  BY <1>1 DEF FeedInv, QueueOK, QueueSound
<1> QED BY <1>1, <1>2, <1>3 DEF FeedInv, ServerTyped, LogOK

\* A row is read by a request.
LEMMA LoadReads ==
  ASSUME FeedInv, eventQueue # << >>, Head(eventQueue) \in RowEvent, eventQueue' = Tail(eventQueue),
         feedRows' = feedRows, feedSequence' = feedSequence, Due => Due',
         NEW L \in FeedLoad, ~L.superseded, KeepsUp(L)
  PROVE  LET M == Hearing(L, Head(eventQueue)) IN
         Due' \/ M.snapshot \/ HeardBy(M, eventQueue', feedRows', feedSequence')
<1> DEFINE M == Hearing(L, Head(eventQueue))
<1>0. eventQueue \in Seq(FeedEvent) BY DEF FeedInv, ServerTyped
<1>1. Head(eventQueue) \in FeedEvent BY DEF FeedEvent
<1>2. /\ M \in FeedLoad /\ M.query = L.query /\ M.baseline = L.baseline /\ M.answer = L.answer
      /\ M.snapshot = L.snapshot /\ M.live = Append(L.live, Head(eventQueue))
  BY <1>1, HearingIs
<1> HIDE DEF M
<1>3. HeardBy(L, eventQueue, feedRows, feedSequence) => HeardBy(M, Tail(eventQueue), feedRows, feedSequence)
  BY <1>0, <1>2, HeardRead
<1>4. Due' \/ M.snapshot \/ HeardBy(M, eventQueue', feedRows', feedSequence')
  BY <1>2, <1>3 DEF KeepsUp
<1> QED BY <1>4 DEF M

\* A row is read.
LEMMA LogStep ==
  ASSUME FeedInv, NEW operation \in {"insert", "update"}, handleLog(operation)
  PROVE  FeedInv'
<1> DEFINE e == Head(eventQueue)
<1>1. /\ Reads(operation) /\ streamInterrupted' = streamInterrupted
      /\ pendingLoad' = Hearing(pendingLoad, e) /\ pendingRefresh' = Hearing(pendingRefresh, e)
      /\ pendingMore' = Hearing(pendingMore, e) /\ logPage' = mergeLiveLogPage(logPage, e, appliedQuery)
      /\ isLoadingLogs' = isLoadingLogs /\ requeryRefused' = requeryRefused /\ overtaken' = overtaken
  BY DEF handleLog
<1>2. /\ ServerTyped' /\ QueueOK'
      /\ eventQueue \in Seq(FeedEvent) /\ eventQueue # << >> /\ e \in FeedEvent
      /\ eventQueue' = Tail(eventQueue) /\ e \in RowEvent
      /\ feedRows' = feedRows /\ feedSequence' = feedSequence /\ pruning' = pruning
      /\ eventStream' = eventStream /\ appliedQuery' = appliedQuery
      /\ requestedQuery' = requestedQuery /\ requestError' = requestError
  BY <1>1, ReadsQueue
<1>3. ~Invalidates(e) BY <1>2 DEF Invalidates, RowEvent
<1>4. Due' <=> Due
  <2>1. NothingGone(eventQueue') <=> NothingGone(eventQueue) BY <1>2, <1>3, KeptTail
  <2>2. Due' <=> \/ requeryRefused' \/ streamInterrupted' \/ eventStream' # "open" \/ pruning'
                 \/ ~NothingGone(eventQueue')
    BY DEF Due, NothingGone
  <2> QED BY <1>1, <1>2, <2>1, <2>2, DueIs
<1>5. TabTyped /\ LoadsOK /\ LogPageOK BY DEF FeedInv
<1>6. /\ pendingLoad # NoFeedLoad => pendingLoad \in FeedLoad
      /\ pendingRefresh # NoFeedLoad => pendingRefresh \in FeedLoad
      /\ pendingMore # NoFeedLoad => pendingMore \in FeedLoad
      /\ logPage \in FeedPage
  BY <1>5 DEF TabTyped
<1>7. \A L \in FeedLoad :
        /\ Hearing(L, e) \in FeedLoad /\ Hearing(L, e) # NoFeedLoad
        /\ Hearing(L, e).query = L.query /\ Hearing(L, e).for = L.for
        /\ Hearing(L, e).baseline = L.baseline /\ Hearing(L, e).superseded = L.superseded
        /\ KeepsUp(L) /\ ~L.superseded
             => \/ Due' \/ Hearing(L, e).snapshot
                \/ HeardBy(Hearing(L, e), eventQueue', feedRows', feedSequence')
  <2>1. \A L \in FeedLoad :
          /\ Hearing(L, e) \in FeedLoad /\ Hearing(L, e) # NoFeedLoad
          /\ Hearing(L, e).query = L.query /\ Hearing(L, e).for = L.for
          /\ Hearing(L, e).baseline = L.baseline /\ Hearing(L, e).superseded = L.superseded
    BY <1>2, HearingIs
  <2>2. \A L \in FeedLoad : KeepsUp(L) /\ ~L.superseded
             => \/ Due' \/ Hearing(L, e).snapshot
                \/ HeardBy(Hearing(L, e), eventQueue', feedRows', feedSequence')
    BY <1>2, <1>4, LoadReads
  <2> QED BY <2>1, <2>2
<1>8. Hearing(NoFeedLoad, e) = NoFeedLoad BY DEF Hearing
<1> HIDE DEF e
<1>9. /\ pendingLoad' = NoFeedLoad <=> pendingLoad = NoFeedLoad
      /\ pendingLoad' \in FeedLoad \cup {NoFeedLoad}
      /\ pendingLoad # NoFeedLoad =>
           /\ pendingLoad'.baseline = pendingLoad.baseline
           /\ pendingLoad'.superseded = pendingLoad.superseded
           /\ KeepsUp(pendingLoad) /\ ~pendingLoad.superseded => KeepsUp(pendingLoad)'
  BY <1>1, <1>6, <1>7, <1>8 DEF KeepsUp
<1>10. /\ pendingRefresh' = NoFeedLoad <=> pendingRefresh = NoFeedLoad
       /\ pendingRefresh' \in FeedLoad \cup {NoFeedLoad}
       /\ pendingRefresh # NoFeedLoad =>
           /\ pendingRefresh'.baseline = pendingRefresh.baseline
           /\ pendingRefresh'.superseded = pendingRefresh.superseded
           /\ pendingRefresh'.query = pendingRefresh.query /\ pendingRefresh'.for = pendingRefresh.for
           /\ KeepsUp(pendingRefresh) /\ ~pendingRefresh.superseded => KeepsUp(pendingRefresh)'
  BY <1>1, <1>6, <1>7, <1>8 DEF KeepsUp
<1>11. /\ pendingMore' = NoFeedLoad <=> pendingMore = NoFeedLoad
       /\ pendingMore' \in FeedLoad \cup {NoFeedLoad}
       /\ pendingMore # NoFeedLoad =>
           /\ pendingMore'.superseded = pendingMore.superseded
           /\ pendingMore'.query = pendingMore.query
           /\ KeepsUp(pendingMore) /\ ~pendingMore.superseded => KeepsUp(pendingMore)'
  BY <1>1, <1>6, <1>7, <1>8 DEF KeepsUp
<1>12. MoreOnly' = MoreOnly /\ (Refreshing' <=> Refreshing)
  BY <1>2, <1>10 DEF MoreOnly, Refreshing
<1>13. LoadsOK'
  <2>1. Refreshing => pendingRefresh # NoFeedLoad /\ ~pendingRefresh.superseded BY DEF Refreshing
  <2> QED BY <1>1, <1>2, <1>5, <1>9, <1>10, <1>11, <1>12, <2>1 DEF LoadsOK
<1>14. logPage' \in FeedPage BY <1>1, <1>2, <1>6, MergeTyped
<1>15. TabTyped' BY <1>1, <1>2, <1>5, <1>9, <1>10, <1>11, <1>14 DEF TabTyped
<1>16. LogPageOK'
  <2>1. Unsettled' <=> Unsettled
    <3>1. Refreshing => pendingRefresh'.for = pendingRefresh.for BY <1>10 DEF Refreshing
    <3> QED BY <1>4, <1>9, <1>12, <3>1 DEF Unsettled
  <2>2. CASE Unsettled BY <2>1, <2>2 DEF LogPageOK
  <2>3. CASE ~Unsettled
    <3>1. ~Due BY <2>3 DEF Unsettled
    <3>2. /\ ShownBy(logPage, appliedQuery, eventQueue, 0, feedRows)
          /\ overtaken \/ CountedBy(logPage, appliedQuery, eventQueue, 0, feedRows, feedSequence)
      BY <1>5, <2>3 DEF LogPageOK
    <3>3. /\ NothingGone(eventQueue) /\ EventStream(eventQueue, feedRows, feedSequence, FALSE)
          /\ RowLog(feedRows, feedSequence)
      BY <3>1, NothingDue
    <3>4. LET N == mergeLiveLogPage(logPage, Head(eventQueue), appliedQuery) IN
          /\ ShownBy(N, appliedQuery, Tail(eventQueue), 0, feedRows)
          /\ CountedBy(logPage, appliedQuery, eventQueue, 0, feedRows, feedSequence)
               => CountedBy(N, appliedQuery, Tail(eventQueue), 0, feedRows, feedSequence)
      BY <1>2, <1>6, <3>2, <3>3, ReadPage DEF e
    <3>5. /\ ShownBy(logPage', appliedQuery', eventQueue', 0, feedRows')
          /\ overtaken' \/ CountedBy(logPage', appliedQuery', eventQueue', 0, feedRows', feedSequence')
      BY <1>1, <1>2, <3>2, <3>4 DEF e
    <3> QED BY <3>5 DEF LogPageOK
  <2> QED BY <2>2, <2>3
<1> QED BY <1>2, <1>13, <1>15, <1>16 DEF FeedInv

-----------------------------------------------------------------------------
(* A page is asked for again *)

\* What a new request is.
LEMMA PendingIs ==
  ASSUME NEW query \in FeedQuery, NEW for \in {"poll", "reconnect", "always"},
         NEW baseline \in Seq(FeedPage)
  PROVE  LET L == Pending(query, for, baseline) IN
         /\ L \in FeedLoad /\ L # NoFeedLoad /\ L.query = query /\ L.for = for
         /\ L.baseline = baseline /\ ~L.superseded /\ L.live = << >>
         /\ ~L.snapshot /\ L.answer = << >>
<1> DEFINE L == Pending(query, for, baseline)
<1>1. << >> \in Seq(RowEvent) /\ << >> \in Seq(FeedPage) OBVIOUS
<1>2. /\ L \in FeedLoad /\ L.query = query /\ L.for = for
      /\ L.baseline = baseline /\ ~L.superseded /\ L.live = << >>
      /\ ~L.snapshot /\ L.answer = << >>
  BY <1>1 DEF Pending, FeedLoad
<1> HIDE DEF L
<1>3. L # NoFeedLoad BY <1>2, LoadParts
<1> QED BY <1>2, <1>3 DEF L

\* A request that has just been made will hear everything.
LEMMA FreshKeepsUp ==
  ASSUME ServerTyped', QueueOK', NEW L \in FeedLoad, L.live = << >>, L.answer = << >>, L.baseline = First
  PROVE  Due' \/ HeardBy(L, eventQueue', feedRows', feedSequence')
<1> SUFFICES ASSUME ~Due' PROVE HeardBy(L, eventQueue', feedRows', feedSequence')
  OBVIOUS
<1>1. eventStream' = "open" /\ ~pruning' BY DEF Due
<1>2. pruning' = FALSE /\ eventQueue' \in Seq(FeedEvent) BY <1>1 DEF ServerTyped
<1>3. EventStream(eventQueue', feedRows', feedSequence', pruning') BY <1>1 DEF QueueOK, QueueSound
<1>4. EventStream(eventQueue', feedRows', feedSequence', FALSE) BY <1>2, <1>3
<1> QED BY <1>2, <1>4, HeardAfresh

\* A page is asked for again, or it is refused.
LEMMA RefreshedKeeps ==
  ASSUME TabTyped, LoadsOK, ServerTyped', QueueOK', appliedQuery' = appliedQuery,
         NEW for \in {"poll", "reconnect", "always"}, NEW refresh \in FeedLoad \cup {NoFeedLoad}, NEW more,
         more = NoFeedLoad \/ (more = pendingMore /\ requestError' = requestError),
         Refreshed(for, refresh, more),
         pendingLoad' \in FeedLoad \cup {NoFeedLoad},
         pendingLoad' = NoFeedLoad <=> pendingLoad = NoFeedLoad,
         pendingLoad # NoFeedLoad => /\ pendingLoad'.baseline = pendingLoad.baseline
                                     /\ pendingLoad'.superseded = pendingLoad.superseded,
         refresh = NoFeedLoad <=> pendingRefresh = NoFeedLoad,
         pendingRefresh # NoFeedLoad => /\ refresh.baseline = pendingRefresh.baseline
                                        /\ refresh.superseded = pendingRefresh.superseded
                                        /\ refresh.query = pendingRefresh.query,
         pendingLoad # NoFeedLoad \/ pendingRefresh # NoFeedLoad =>
           \/ Due'
           \/ /\ pendingLoad # NoFeedLoad => pendingLoad'.snapshot
              /\ pendingRefresh # NoFeedLoad /\ ~pendingRefresh.superseded => refresh.snapshot
              /\ more = NoFeedLoad
  PROVE  /\ LoadsOK'
         /\ pendingRefresh' \in FeedLoad \cup {NoFeedLoad} /\ pendingMore' \in FeedLoad \cup {NoFeedLoad}
         /\ isLoadingLogs' \in BOOLEAN /\ requeryRefused' \in BOOLEAN
         /\ pendingLoad = NoFeedLoad /\ pendingRefresh = NoFeedLoad
              => Refreshing' /\ pendingRefresh'.for = for
<1>1. /\ pendingMore \in FeedLoad \cup {NoFeedLoad} /\ isLoadingLogs \in BOOLEAN
      /\ requeryRefused \in BOOLEAN /\ appliedQuery \in FeedQuery
  BY DEF TabTyped
<1>2. CASE pendingLoad # NoFeedLoad \/ refresh # NoFeedLoad
  <2>1. /\ pendingRefresh' = refresh /\ pendingMore' = more /\ isLoadingLogs' = isLoadingLogs
        /\ requeryRefused' = CASE for = "poll"      -> requeryRefused
                               [] for = "reconnect" -> TRUE
                               [] for = "always"    -> ~MakesUpFor(refresh)
    BY <1>2 DEF Refreshed
  <2>2. MakesUpFor(refresh) \in BOOLEAN BY DEF MakesUpFor
  <2>3. requeryRefused' \in BOOLEAN BY <1>1, <2>1, <2>2
  <2>4. Refreshing' <=> Refreshing BY <2>1 DEF Refreshing
  <2>5. pendingLoad # NoFeedLoad => KeepsUp(pendingLoad)' /\ more = NoFeedLoad
    <3>1. pendingLoad # NoFeedLoad => Due' \/ pendingLoad'.snapshot OBVIOUS
    <3>2. pendingLoad # NoFeedLoad => pendingMore = NoFeedLoad BY DEF LoadsOK
    <3> QED BY <3>1, <3>2 DEF KeepsUp
  <2>6. Refreshing => KeepsUp(pendingRefresh)' /\ more = NoFeedLoad
    <3>1. Refreshing => Due' \/ refresh.snapshot BY DEF Refreshing
    <3>2. Refreshing => pendingMore = NoFeedLoad BY DEF LoadsOK
    <3> QED BY <2>1, <3>1, <3>2 DEF KeepsUp
  <2>7. more # NoFeedLoad => more = pendingMore /\ KeepsUp(pendingMore)' /\ MoreOnly'
    <3>1. more # NoFeedLoad => more = pendingMore /\ Due' BY <1>2
    <3>2. more # NoFeedLoad => MoreOnly BY <3>1 DEF LoadsOK
    <3>3. more # NoFeedLoad => MoreOnly' BY <3>1, <3>2 DEF MoreOnly
    <3> QED BY <3>1, <3>3 DEF KeepsUp
  <2>8. /\ pendingLoad' # NoFeedLoad =>
             /\ isLoadingLogs' /\ pendingMore' = NoFeedLoad /\ ~Refreshing'
             /\ ~pendingLoad'.superseded /\ pendingLoad'.baseline = First /\ KeepsUp(pendingLoad)'
        /\ Refreshing' =>
             /\ isLoadingLogs' /\ pendingMore' = NoFeedLoad /\ pendingRefresh'.query = appliedQuery'
             /\ pendingRefresh'.baseline = First /\ KeepsUp(pendingRefresh)'
        /\ pendingMore' # NoFeedLoad =>
             /\ MoreOnly' /\ ~pendingMore'.superseded /\ pendingMore'.query = appliedQuery'
             /\ KeepsUp(pendingMore)'
    <3>1. Refreshing => pendingRefresh # NoFeedLoad BY DEF Refreshing
    <3> QED BY <2>1, <2>4, <2>5, <2>6, <2>7, <3>1 DEF LoadsOK
  <2>9. LoadsOK' BY <2>8 DEF LoadsOK
  <2> QED BY <1>1, <1>2, <2>1, <2>3, <2>9
<1>3. CASE pendingLoad = NoFeedLoad /\ refresh = NoFeedLoad
  <2> DEFINE L == Pending(appliedQuery, for, First)
  <2>1. /\ pendingRefresh' = L /\ pendingMore' = NoFeedLoad /\ isLoadingLogs' = TRUE
        /\ requeryRefused' = FALSE
    BY <1>3 DEF Refreshed
  <2>2. First \in Seq(FeedPage) BY DEF First
  <2>3. /\ L \in FeedLoad /\ L # NoFeedLoad /\ L.query = appliedQuery /\ L.for = for
        /\ L.baseline = First /\ ~L.superseded /\ L.live = << >>
        /\ ~L.snapshot /\ L.answer = << >>
    <3>0. appliedQuery \in FeedQuery /\ for \in {"poll", "reconnect", "always"} BY <1>1
    <3>1. \A baseline \in Seq(FeedPage) :
            LET M == Pending(appliedQuery, for, baseline) IN
            /\ M \in FeedLoad /\ M # NoFeedLoad /\ M.query = appliedQuery /\ M.for = for
            /\ M.baseline = baseline /\ ~M.superseded /\ M.live = << >>
            /\ ~M.snapshot /\ M.answer = << >>
      BY ONLY <3>0, PendingIs
    <3> QED BY <2>2, <3>1
  <2> HIDE DEF L
  <2>4. Due' \/ HeardBy(L, eventQueue', feedRows', feedSequence') BY <2>3, FreshKeepsUp
  <2>5. KeepsUp(pendingRefresh)' BY <2>1, <2>4 DEF KeepsUp
  <2>6. Refreshing' /\ pendingRefresh'.for = for BY <2>1, <2>3 DEF Refreshing
  <2>7. LoadsOK' BY <1>3, <2>1, <2>3, <2>5 DEF LoadsOK
  <2> QED BY <2>1, <2>3, <2>6, <2>7
<1> QED BY <1>2, <1>3

\* The page on screen is polled.
LEMMA PollStep ==
  ASSUME FeedInv, handleError \/ Poll
  PROVE  FeedInv'
<1>1. /\ streamInterrupted' = TRUE /\ Refreshed("poll", pendingRefresh, pendingMore)
      /\ pendingLoad' = pendingLoad /\ logPage' = logPage /\ overtaken' = overtaken
      /\ appliedQuery' = appliedQuery /\ requestedQuery' = requestedQuery /\ requestError' = requestError
  BY DEF FeedInv, TabTyped, handleError, Poll, Reads, viewVars
<1>2. ServerTyped' /\ QueueOK'
  <2>1. CASE handleError
    <3>1. Reads("error") BY <2>1 DEF handleError
    <3> QED BY <1>1, <3>1, ReadsQueue
  <2>2. CASE Poll
    <3>1. UNCHANGED << rowVars, eventStream, eventQueue, streamInterrupted >> BY <2>2 DEF Poll
    <3> QED BY <3>1, ServerKept
  <2> QED BY <2>1, <2>2
<1>3. Due' BY <1>1 DEF Due
<1>4. TabTyped /\ LoadsOK BY DEF FeedInv
<1>5. pendingLoad \in FeedLoad \cup {NoFeedLoad} /\ pendingRefresh \in FeedLoad \cup {NoFeedLoad}
  BY <1>4 DEF TabTyped
<1>6. /\ LoadsOK'
      /\ pendingRefresh' \in FeedLoad \cup {NoFeedLoad} /\ pendingMore' \in FeedLoad \cup {NoFeedLoad}
      /\ isLoadingLogs' \in BOOLEAN /\ requeryRefused' \in BOOLEAN
  BY <1>1, <1>2, <1>3, <1>4, <1>5, RefreshedKeeps
<1>7. TabTyped' BY <1>1, <1>4, <1>5, <1>6 DEF TabTyped
<1>8. LogPageOK' BY <1>3 DEF LogPageOK, Unsettled
<1> QED BY <1>2, <1>6, <1>7, <1>8 DEF FeedInv

-----------------------------------------------------------------------------
(* Events about no row *)

\* An event about no row is read, and the tab has nothing to do.
LEMMA SkipStep ==
  ASSUME FeedInv, eventQueue # << >>, ~Matters(Head(eventQueue)), eventQueue' = Tail(eventQueue),
         UNCHANGED << rowVars, eventStream, tabVars >>, ServerTyped', QueueOK'
  PROVE  FeedInv'
<1>1. /\ TabTyped /\ LoadsOK /\ LogPageOK /\ eventQueue \in Seq(FeedEvent)
  BY DEF FeedInv, ServerTyped
<1>2. /\ feedRows' = feedRows /\ feedSequence' = feedSequence /\ pruning' = pruning
      /\ eventStream' = eventStream /\ UNCHANGED tabVars
  BY DEF rowVars
<1>3. requeryRefused' = requeryRefused /\ streamInterrupted' = streamInterrupted BY <1>1, <1>2, TabKept
<1>4. Due => Due'
  <2>1. ~Invalidates(Head(eventQueue)) BY DEF Matters
  <2>2. NothingGone(eventQueue') <=> NothingGone(eventQueue) BY <1>1, <2>1, KeptTail
  <2>3. Due' <=> \/ requeryRefused' \/ streamInterrupted' \/ eventStream' # "open" \/ pruning'
                 \/ ~NothingGone(eventQueue')
    BY DEF Due, NothingGone
  <2> QED BY <1>2, <1>3, <2>2, <2>3, DueIs
<1>5. \A L \in FeedLoad : HeardBy(L, eventQueue, feedRows, feedSequence)
            => Due' \/ HeardBy(L, eventQueue', feedRows', feedSequence')
  <2>1. \A L \in FeedLoad : HeardBy(L, eventQueue, feedRows, feedSequence)
            => HeardBy(L, Tail(eventQueue), feedRows, feedSequence)
    BY <1>1, HeardSkips
  <2> QED BY <1>2, <2>1
<1>6. \A P \in FeedPage, q \in FeedQuery : ShownBy(P, q, eventQueue, 0, feedRows)
            => \/ Due'
               \/ /\ ShownBy(P, q, eventQueue', 0, feedRows')
                  /\ CountedBy(P, q, eventQueue, 0, feedRows, feedSequence)
                       => CountedBy(P, q, eventQueue', 0, feedRows', feedSequence')
  <2>1. \A P \in FeedPage, q \in FeedQuery :
          /\ ShownBy(P, q, eventQueue, 0, feedRows) => ShownBy(P, q, Tail(eventQueue), 0, feedRows)
          /\ CountedBy(P, q, eventQueue, 0, feedRows, feedSequence)
               => CountedBy(P, q, Tail(eventQueue), 0, feedRows, feedSequence)
    BY <1>1, SkipPage, TailPage
  <2> QED BY <1>2, <2>1
<1>7. TabTyped' /\ LoadsOK' /\ LogPageOK' BY <1>1, <1>2, <1>4, <1>5, <1>6, TabSound
<1> QED BY <1>7 DEF FeedInv

\* The stream is known to be open.
LEMMA OpenStep ==
  ASSUME FeedInv, handleOpen
  PROVE  FeedInv'
<1>1. /\ Reads("open") /\ streamInterrupted' = FALSE /\ pendingLoad' = pendingLoad
      /\ logPage' = logPage /\ overtaken' = overtaken
  BY DEF handleOpen
<1>2. /\ ServerTyped' /\ QueueOK'
      /\ eventQueue \in Seq(FeedEvent) /\ eventQueue # << >> /\ eventQueue' = Tail(eventQueue)
      /\ Head(eventQueue).kind = "open"
      /\ feedRows' = feedRows /\ feedSequence' = feedSequence /\ pruning' = pruning
      /\ eventStream' = eventStream /\ appliedQuery' = appliedQuery
      /\ requestedQuery' = requestedQuery /\ requestError' = requestError
      /\ streamInterrupted \in BOOLEAN
  BY <1>1, ReadsQueue
<1>3. TabTyped /\ LoadsOK BY DEF FeedInv
<1>4. CASE streamInterrupted
  <2>1. Refreshed("reconnect", pendingRefresh, pendingMore) BY <1>4 DEF handleOpen
  <2>2. pendingLoad \in FeedLoad \cup {NoFeedLoad} /\ pendingRefresh \in FeedLoad \cup {NoFeedLoad}
    BY <1>3 DEF TabTyped
  <2>3. pendingLoad # NoFeedLoad \/ pendingRefresh # NoFeedLoad => Due'
    <3>1. pendingLoad # NoFeedLoad \/ pendingRefresh # NoFeedLoad => requeryRefused'
      BY <2>1 DEF Refreshed
    <3> QED BY <3>1 DEF Due
  <2>4. /\ LoadsOK'
        /\ pendingRefresh' \in FeedLoad \cup {NoFeedLoad} /\ pendingMore' \in FeedLoad \cup {NoFeedLoad}
        /\ isLoadingLogs' \in BOOLEAN /\ requeryRefused' \in BOOLEAN
        /\ pendingLoad = NoFeedLoad /\ pendingRefresh = NoFeedLoad
             => Refreshing' /\ pendingRefresh'.for = "reconnect"
    BY <1>1, <1>2, <1>3, <2>1, <2>2, <2>3, RefreshedKeeps
  <2>5. TabTyped' BY <1>1, <1>2, <1>3, <2>2, <2>4 DEF TabTyped
  <2>6. LogPageOK'
    <3>1. Due' \/ (Refreshing' /\ pendingRefresh'.for # "poll") BY <2>3, <2>4
    <3> QED BY <3>1 DEF LogPageOK, Unsettled
  <2> QED BY <1>2, <2>4, <2>5, <2>6 DEF FeedInv
<1>5. CASE ~streamInterrupted
  <2>1. UNCHANGED << pendingRefresh, pendingMore, isLoadingLogs, requeryRefused >>
    BY <1>5 DEF handleOpen
  <2>2. streamInterrupted' = streamInterrupted BY <1>1, <1>2, <1>5
  <2>3. UNCHANGED << rowVars, eventStream, tabVars >>
    BY <1>1, <1>2, <2>1, <2>2 DEF rowVars, tabVars, viewVars, loadVars
  <2>4. ~Matters(Head(eventQueue)) BY <1>2 DEF Matters, Invalidates
  <2> QED BY <1>2, <2>3, <2>4, SkipStep
<1> QED BY <1>4, <1>5

\* A snapshot is read whose rows are gone: every page is asked for again.
LEMMA InvalidatedStep ==
  ASSUME FeedInv, handleSnapshot, Head(eventQueue).invalidated
  PROVE  FeedInv'
<1> DEFINE e == Head(eventQueue)
           refresh == Hearing(pendingRefresh, e)
<1>1. /\ Reads("snapshot") /\ streamInterrupted' = streamInterrupted
      /\ pendingLoad' = Hearing(pendingLoad, e) /\ Refreshed("always", refresh, NoFeedLoad)
      /\ logPage' = logPage /\ overtaken' = overtaken
  BY DEF handleSnapshot
<1>2. /\ ServerTyped' /\ QueueOK' /\ e \in FeedEvent /\ e.kind = "snapshot"
      /\ appliedQuery' = appliedQuery /\ requestedQuery' = requestedQuery /\ requestError' = requestError
      /\ streamInterrupted \in BOOLEAN
  BY <1>1, ReadsQueue
<1>3. TabTyped /\ LoadsOK BY DEF FeedInv
<1>4. /\ pendingLoad # NoFeedLoad => pendingLoad \in FeedLoad
      /\ pendingRefresh # NoFeedLoad => pendingRefresh \in FeedLoad
  BY <1>3 DEF TabTyped
<1>5. \A L \in FeedLoad :
        /\ Hearing(L, e) \in FeedLoad /\ Hearing(L, e) # NoFeedLoad
        /\ Hearing(L, e).query = L.query /\ Hearing(L, e).for = L.for
        /\ Hearing(L, e).baseline = L.baseline /\ Hearing(L, e).superseded = L.superseded
        /\ ~L.superseded => Hearing(L, e).snapshot
  BY <1>2, HearingIs
<1>6. Hearing(NoFeedLoad, e) = NoFeedLoad BY DEF Hearing
<1> HIDE DEF e
<1>7. /\ pendingLoad' \in FeedLoad \cup {NoFeedLoad}
      /\ pendingLoad' = NoFeedLoad <=> pendingLoad = NoFeedLoad
      /\ pendingLoad # NoFeedLoad => /\ pendingLoad'.baseline = pendingLoad.baseline
                                     /\ pendingLoad'.superseded = pendingLoad.superseded
                                     /\ ~pendingLoad.superseded => pendingLoad'.snapshot
  BY <1>1, <1>4, <1>5, <1>6
<1>8. /\ refresh \in FeedLoad \cup {NoFeedLoad}
      /\ refresh = NoFeedLoad <=> pendingRefresh = NoFeedLoad
      /\ pendingRefresh # NoFeedLoad => /\ refresh.baseline = pendingRefresh.baseline
                                        /\ refresh.superseded = pendingRefresh.superseded
                                        /\ refresh.query = pendingRefresh.query
                                        /\ ~pendingRefresh.superseded => refresh.snapshot
  BY <1>4, <1>5, <1>6
<1> HIDE DEF refresh
<1>9. pendingLoad # NoFeedLoad => pendingLoad'.snapshot BY <1>3, <1>7 DEF LoadsOK
<1>10. /\ LoadsOK'
       /\ pendingRefresh' \in FeedLoad \cup {NoFeedLoad} /\ pendingMore' \in FeedLoad \cup {NoFeedLoad}
       /\ isLoadingLogs' \in BOOLEAN /\ requeryRefused' \in BOOLEAN
       /\ pendingLoad = NoFeedLoad /\ pendingRefresh = NoFeedLoad
            => Refreshing' /\ pendingRefresh'.for = "always"
  BY <1>1, <1>2, <1>3, <1>7, <1>8, <1>9, RefreshedKeeps
<1>11. TabTyped' BY <1>1, <1>2, <1>3, <1>7, <1>10 DEF TabTyped
<1>12. LogPageOK'
  <2>1. CASE pendingLoad = NoFeedLoad /\ pendingRefresh = NoFeedLoad
    BY <1>10, <2>1 DEF LogPageOK, Unsettled
  <2>2. CASE pendingLoad # NoFeedLoad \/ pendingRefresh # NoFeedLoad
    <3>1. pendingRefresh' = refresh /\ (requeryRefused' <=> ~MakesUpFor(refresh))
      BY <1>1, <1>8, <2>2 DEF Refreshed
    <3>2. MakesUpFor(refresh) => pendingLoad' # NoFeedLoad \/ (Refreshing' /\ pendingRefresh'.for # "poll")
      BY <1>7, <3>1 DEF MakesUpFor, isCurrentRefresh, isStillRelevant, Refreshing
    <3> QED BY <3>1, <3>2 DEF LogPageOK, Unsettled, Due
  <2> QED BY <2>1, <2>2
<1> QED BY <1>2, <1>10, <1>11, <1>12 DEF FeedInv

-----------------------------------------------------------------------------
(* A snapshot is read *)

\* A snapshot is merged into the page on screen.
LEMMA MergedStep ==
  ASSUME FeedInv, handleSnapshot, ~Head(eventQueue).invalidated
  PROVE  FeedInv'
<1> DEFINE e == Head(eventQueue)
<1>1. /\ Reads("snapshot") /\ streamInterrupted' = streamInterrupted
      /\ pendingLoad' = Hearing(pendingLoad, e) /\ pendingRefresh' = Hearing(pendingRefresh, e)
      /\ pendingMore' = Hearing(pendingMore, e) /\ isLoadingLogs' = isLoadingLogs
      /\ requeryRefused' <=> (requeryRefused /\ ~MakesUpFor(pendingRefresh))
      /\ requeryRefused' \in BOOLEAN
      /\ appliedQuery = "all" =>
           /\ logPage' = mergeSnapshotLogPage(logPage, e.page)
           /\ overtaken' = \E row \in {logPage.latest} \cup DOMAIN logPage.logs : row > e.page.latest
      /\ appliedQuery # "all" => logPage' = logPage /\ overtaken' = overtaken
  BY DEF handleSnapshot
<1>2. /\ ServerTyped' /\ QueueOK'
      /\ eventQueue \in Seq(FeedEvent) /\ eventQueue # << >> /\ e \in FeedEvent
      /\ eventQueue' = Tail(eventQueue) /\ e.kind = "snapshot"
      /\ feedRows' = feedRows /\ feedSequence' = feedSequence /\ pruning' = pruning
      /\ eventStream' = eventStream /\ appliedQuery' = appliedQuery
      /\ requestedQuery' = requestedQuery /\ requestError' = requestError
      /\ streamInterrupted \in BOOLEAN
  BY <1>1, ReadsQueue
<1>3. TabTyped /\ LoadsOK /\ LogPageOK BY DEF FeedInv
<1>4. /\ pendingLoad # NoFeedLoad => pendingLoad \in FeedLoad
      /\ pendingRefresh # NoFeedLoad => pendingRefresh \in FeedLoad
      /\ pendingMore # NoFeedLoad => pendingMore \in FeedLoad
      /\ logPage \in FeedPage /\ overtaken \in BOOLEAN
  BY <1>3 DEF TabTyped
<1>5. e.page \in FeedPage BY <1>2 DEF FeedEvent, RowEvent
<1>6. \A L \in FeedLoad :
        /\ Hearing(L, e) \in FeedLoad /\ Hearing(L, e) # NoFeedLoad
        /\ Hearing(L, e).query = L.query /\ Hearing(L, e).for = L.for
        /\ Hearing(L, e).baseline = L.baseline /\ Hearing(L, e).superseded = L.superseded
        /\ ~L.superseded => Hearing(L, e).snapshot
  BY <1>2, HearingIs
<1>7. Hearing(NoFeedLoad, e) = NoFeedLoad BY DEF Hearing
<1>8. ~Invalidates(e) /\ ~Matters(e) BY <1>2 DEF Matters, Invalidates
<1> HIDE DEF e
<1>9. /\ pendingLoad' \in FeedLoad \cup {NoFeedLoad}
      /\ pendingLoad' = NoFeedLoad <=> pendingLoad = NoFeedLoad
      /\ pendingLoad # NoFeedLoad => /\ pendingLoad'.baseline = pendingLoad.baseline
                                     /\ pendingLoad'.superseded = pendingLoad.superseded
                                     /\ ~pendingLoad.superseded => KeepsUp(pendingLoad)'
  BY <1>1, <1>4, <1>6, <1>7 DEF KeepsUp
<1>10. /\ pendingRefresh' \in FeedLoad \cup {NoFeedLoad}
       /\ pendingRefresh' = NoFeedLoad <=> pendingRefresh = NoFeedLoad
       /\ pendingRefresh # NoFeedLoad => /\ pendingRefresh'.baseline = pendingRefresh.baseline
                                         /\ pendingRefresh'.superseded = pendingRefresh.superseded
                                         /\ pendingRefresh'.query = pendingRefresh.query
                                         /\ pendingRefresh'.for = pendingRefresh.for
                                         /\ ~pendingRefresh.superseded => KeepsUp(pendingRefresh)'
  BY <1>1, <1>4, <1>6, <1>7 DEF KeepsUp
<1>11. /\ pendingMore' \in FeedLoad \cup {NoFeedLoad}
       /\ pendingMore' = NoFeedLoad <=> pendingMore = NoFeedLoad
       /\ pendingMore # NoFeedLoad => /\ pendingMore'.superseded = pendingMore.superseded
                                      /\ pendingMore'.query = pendingMore.query
                                      /\ ~pendingMore.superseded => KeepsUp(pendingMore)'
  BY <1>1, <1>4, <1>6, <1>7 DEF KeepsUp
<1>12. MoreOnly' = MoreOnly /\ (Refreshing' <=> Refreshing)
  BY <1>2, <1>10 DEF MoreOnly, Refreshing
<1>13. LoadsOK'
  <2>1. Refreshing => pendingRefresh # NoFeedLoad /\ ~pendingRefresh.superseded BY DEF Refreshing
  <2> QED BY <1>1, <1>2, <1>3, <1>9, <1>10, <1>11, <1>12, <2>1 DEF LoadsOK
<1>14. logPage' \in FeedPage /\ overtaken' \in BOOLEAN
  <2>1. mergeSnapshotLogPage(logPage, e.page) \in FeedPage BY <1>4, <1>5, SnapshotMerged
  <2> QED BY <1>1, <1>4, <2>1
<1>15. TabTyped' BY <1>1, <1>2, <1>3, <1>9, <1>10, <1>11, <1>14 DEF TabTyped
<1>16. Unsettled => Unsettled'
  <2>1. NothingGone(eventQueue') <=> NothingGone(eventQueue) BY <1>2, <1>8, KeptTail DEF e
  <2>2. Due' <=> \/ requeryRefused' \/ streamInterrupted' \/ eventStream' # "open" \/ pruning'
                 \/ ~NothingGone(eventQueue')
    BY DEF Due, NothingGone
  <2>3. Refreshing => pendingRefresh # NoFeedLoad BY DEF Refreshing
  <2>4. MakesUpFor(pendingRefresh) => pendingLoad' # NoFeedLoad \/ (Refreshing' /\ pendingRefresh'.for # "poll")
    BY <1>9, <1>10 DEF MakesUpFor, isCurrentRefresh, isStillRelevant, Refreshing
  <2>5. Due => Due' \/ MakesUpFor(pendingRefresh) BY <1>1, <1>2, <2>1, <2>2, DueIs
  <2>6. Refreshing /\ pendingRefresh.for # "poll" => Refreshing' /\ pendingRefresh'.for # "poll"
    BY <1>10, <1>12, <2>3
  <2> QED BY <1>9, <1>12, <2>4, <2>5, <2>6 DEF Unsettled
<1>17. LogPageOK'
  <2>1. CASE Unsettled BY <1>16, <2>1 DEF LogPageOK
  <2>2. CASE ~Unsettled
    <3>1. ~Due BY <2>2 DEF Unsettled
    <3>2. /\ ShownBy(logPage, appliedQuery, eventQueue, 0, feedRows)
          /\ overtaken \/ CountedBy(logPage, appliedQuery, eventQueue, 0, feedRows, feedSequence)
      BY <1>3, <2>2 DEF LogPageOK
    <3>3. /\ ShownBy(logPage, appliedQuery, eventQueue, 1, feedRows)
          /\ overtaken \/ CountedBy(logPage, appliedQuery, eventQueue, 1, feedRows, feedSequence)
      BY <1>2, <1>8, <3>2, SkipPage DEF e
    <3>4. CASE appliedQuery # "all"
      <4>1. /\ ShownBy(logPage, appliedQuery, Tail(eventQueue), 0, feedRows)
            /\ overtaken \/ CountedBy(logPage, appliedQuery, Tail(eventQueue), 0, feedRows, feedSequence)
        BY <1>2, <3>3, TailPage
      <4>2. /\ ShownBy(logPage', appliedQuery', eventQueue', 0, feedRows')
            /\ overtaken' \/ CountedBy(logPage', appliedQuery', eventQueue', 0, feedRows', feedSequence')
        BY <1>1, <1>2, <3>4, <4>1
      <4> QED BY <4>2 DEF LogPageOK
    <3>5. CASE appliedQuery = "all"
      <4> DEFINE N == mergeSnapshotLogPage(logPage, e.page)
      <4>1. /\ ShownBy(e.page, "all", eventQueue, 1, feedRows)
            /\ CountedBy(e.page, "all", eventQueue, 1, feedRows, feedSequence)
        <5>1. eventStream = "open" /\ pruning = FALSE /\ NothingGone(eventQueue) BY <3>1, NothingDue
        <5>2. QueueSound(eventQueue, feedRows, feedSequence, FALSE)
          <6>1. QueueOK BY DEF FeedInv
          <6>2. QueueSound(eventQueue, feedRows, feedSequence, pruning) BY <5>1, <6>1 DEF QueueOK
          <6> QED BY <5>1, <6>2
        <5>3. 1 \in 1 .. Len(eventQueue) /\ eventQueue[1] = e BY <1>2 DEF e
        <5>4. SnapshotOK(eventQueue, 1, feedRows, feedSequence, FALSE)
          BY <1>2, <1>8, <5>2, <5>3 DEF QueueSound
        <5> QED BY <5>1, <5>3, <5>4 DEF SnapshotOK, NothingGone
      <4>2. /\ \A q, V, i, rows : ShownBy(logPage, q, V, i, rows) /\ ShownBy(e.page, q, V, i, rows)
                                    => ShownBy(N, q, V, i, rows)
            /\ \A q, V, i, rows, n :
                 CountedBy(e.page, q, V, i, rows, n) /\ (\A r \in DOMAIN logPage.logs : ~(r > e.page.latest))
                 => CountedBy(N, q, V, i, rows, n)
        BY <1>4, <1>5, SnapshotMerged
      <4> HIDE DEF N
      <4>3. ShownBy(N, "all", eventQueue, 1, feedRows) BY <3>3, <3>5, <4>1, <4>2
      <4>4. overtaken' \/ CountedBy(N, "all", eventQueue, 1, feedRows, feedSequence)
        <5>1. overtaken' <=> \E row \in {logPage.latest} \cup DOMAIN logPage.logs : row > e.page.latest
          BY <1>1, <3>5
        <5>2. ~overtaken' => \A r \in DOMAIN logPage.logs : ~(r > e.page.latest) BY <5>1
        <5> QED BY <4>1, <4>2, <5>2
      <4>5. /\ ShownBy(N, "all", Tail(eventQueue), 0, feedRows)
            /\ overtaken' \/ CountedBy(N, "all", Tail(eventQueue), 0, feedRows, feedSequence)
        BY <1>2, <4>3, <4>4, TailPage
      <4>6. logPage' = N BY <1>1, <3>5 DEF N
      <4>7. /\ ShownBy(logPage', appliedQuery', eventQueue', 0, feedRows')
            /\ overtaken' \/ CountedBy(logPage', appliedQuery', eventQueue', 0, feedRows', feedSequence')
        BY <1>2, <3>5, <4>5, <4>6
      <4> QED BY <4>7 DEF LogPageOK
    <3> QED BY <3>4, <3>5
  <2> QED BY <2>1, <2>2
<1> QED BY <1>2, <1>13, <1>15, <1>17 DEF FeedInv

-----------------------------------------------------------------------------
(* The first page *)

\* The server and the stream are left alone: what is due and what is heard stay so.
LEMMA RequestKept ==
  ASSUME FeedInv, UNCHANGED serverSide
  PROVE  /\ feedRows' = feedRows /\ feedSequence' = feedSequence
         /\ eventQueue' = eventQueue /\ streamInterrupted' = streamInterrupted
         /\ ServerTyped' /\ QueueOK'
         /\ Due => Due' \/ ~requeryRefused'
         /\ requeryRefused' = requeryRefused => (Due' <=> Due)
         /\ Due' <=> \/ requeryRefused' \/ streamInterrupted \/ eventStream # "open" \/ pruning
                     \/ ~NothingGone(eventQueue)
<1>1. UNCHANGED << rowVars, eventStream, eventQueue, streamInterrupted >> BY DEF serverSide
<1>2. /\ feedRows' = feedRows /\ feedSequence' = feedSequence /\ pruning' = pruning
      /\ eventStream' = eventStream /\ eventQueue' = eventQueue
      /\ streamInterrupted' = streamInterrupted
      /\ ServerTyped' /\ QueueOK'
  BY <1>1, ServerKept
<1>3. Due' <=> \/ requeryRefused' \/ streamInterrupted \/ eventStream # "open" \/ pruning
               \/ ~NothingGone(eventQueue)
  BY <1>2 DEF Due, NothingGone
<1> QED BY <1>2, <1>3, DueIs

\* A request that asks again.
LEMMA AskAgainIs ==
  ASSUME NEW L \in FeedLoad
  PROVE  LET M == AskAgain(L) IN
         /\ M \in FeedLoad /\ M # NoFeedLoad /\ M.query = L.query /\ M.for = L.for
         /\ M.baseline = First /\ M.superseded = L.superseded /\ M.live = << >>
         /\ M.answer = << >>
<1> DEFINE M == AskAgain(L)
<1>1. << >> \in Seq(RowEvent) /\ << >> \in Seq(FeedPage) OBVIOUS
<1>2. /\ [L EXCEPT !.live = << >>, !.snapshot = FALSE, !.answer = << >>, !.baseline = First] \in FeedLoad
      /\ M = [L EXCEPT !.live = << >>, !.snapshot = FALSE, !.answer = << >>, !.baseline = First]
  BY <1>1 DEF AskAgain, FeedLoad, First
<1>3. /\ M \in FeedLoad /\ M.query = L.query /\ M.for = L.for /\ M.baseline = First
      /\ M.superseded = L.superseded /\ M.live = << >> /\ M.answer = << >>
  <2> HIDE DEF M
  <2> QED BY <1>2 DEF FeedLoad, First
<1> HIDE DEF M
<1>4. M # NoFeedLoad BY <1>3, LoadParts
<1> QED BY <1>3, <1>4 DEF M

\* The first page is asked for.
LEMMA FirstPageStep ==
  ASSUME FeedInv, NEW query \in FeedQuery, LoadFirstPage(query)
  PROVE  FeedInv'
<1> DEFINE L == Pending(query, "always", First)
<1>1. /\ requestedQuery' = query /\ pendingLoad' = L
      /\ pendingRefresh' = IF pendingRefresh = NoFeedLoad THEN NoFeedLoad
                           ELSE [pendingRefresh EXCEPT !.superseded = TRUE]
      /\ pendingMore' = NoFeedLoad /\ isLoadingLogs' = TRUE /\ requeryRefused' = FALSE
      /\ logPage' = logPage /\ overtaken' = overtaken /\ appliedQuery' = appliedQuery
      /\ requestError' = requestError /\ UNCHANGED serverSide
  BY DEF LoadFirstPage
<1>2. /\ ServerTyped' /\ QueueOK' /\ streamInterrupted' = streamInterrupted BY <1>1, RequestKept
<1>3. TabTyped BY DEF FeedInv
<1>4. First \in Seq(FeedPage) BY DEF First
<1>5. /\ L \in FeedLoad /\ L # NoFeedLoad /\ L.baseline = First /\ ~L.superseded
      /\ L.live = << >> /\ L.answer = << >>
  BY <1>4, PendingIs
<1> HIDE DEF L
<1>6. Due' \/ HeardBy(L, eventQueue', feedRows', feedSequence') BY <1>2, <1>5, FreshKeepsUp
<1>7. KeepsUp(pendingLoad)' BY <1>1, <1>6 DEF KeepsUp
<1>8. pendingRefresh' \in FeedLoad \cup {NoFeedLoad} /\ ~Refreshing'
  <2>1. CASE pendingRefresh = NoFeedLoad BY <1>1, <2>1 DEF Refreshing
  <2>2. CASE pendingRefresh # NoFeedLoad
    <3>1. pendingRefresh \in FeedLoad BY <1>3, <2>2 DEF TabTyped
    <3>2. /\ [pendingRefresh EXCEPT !.superseded = TRUE] \in FeedLoad
          /\ [pendingRefresh EXCEPT !.superseded = TRUE].superseded
      BY <3>1 DEF FeedLoad
    <3> QED BY <1>1, <2>2, <3>2 DEF Refreshing
  <2> QED BY <2>1, <2>2
<1>9. LoadsOK' BY <1>1, <1>5, <1>7, <1>8 DEF LoadsOK
<1>10. TabTyped' BY <1>1, <1>2, <1>3, <1>5, <1>8 DEF TabTyped
<1>11. LogPageOK' BY <1>1, <1>5 DEF LogPageOK, Unsettled
<1> QED BY <1>2, <1>9, <1>10, <1>11 DEF FeedInv

\* The page of a first page that has been answered.
LEMMA ReplayedPage ==
  ASSUME FeedInv, NEW L \in FeedLoad, L.answer # << >>, L.baseline = First
  PROVE  /\ Replayed(L) \in FeedPage
         /\ KeepsUp(L) /\ ~L.snapshot /\ ~Due =>
              /\ ShownBy(Replayed(L), L.query, eventQueue, 0, feedRows)
              /\ CountedBy(Replayed(L), L.query, eventQueue, 0, feedRows, feedSequence)
<1> DEFINE N == Replayed(L)
<1>1. N = replayLiveLogEvents(PageOf(L), L.live, L.query) BY DEF Replayed, PageOf
<1>2. eventQueue \in Seq(FeedEvent) BY DEF FeedInv, ServerTyped
<1>3. ~Due => RowLog(feedRows, feedSequence) /\ NothingGone(eventQueue) BY NothingDue
<1> HIDE DEF N
<1>4. /\ N \in FeedPage
      /\ RowLog(feedRows, feedSequence) /\ HeardBy(L, eventQueue, feedRows, feedSequence) /\ NothingGone(eventQueue)
         => /\ ShownBy(N, L.query, eventQueue, 0, feedRows)
            /\ CountedBy(N, L.query, eventQueue, 0, feedRows, feedSequence)
  BY <1>1, <1>2, HeardOver
<1> QED BY <1>3, <1>4 DEF KeepsUp, N

\* The first page is shown.
LEMMA FinishLoadStep ==
  ASSUME FeedInv, FinishLoad
  PROVE  FeedInv'
<1>1. /\ pendingLoad # NoFeedLoad /\ pendingLoad.answer # << >>
      /\ pendingRefresh' = pendingRefresh /\ pendingMore' = pendingMore
      /\ requestedQuery' = requestedQuery /\ requeryRefused' = requeryRefused
      /\ UNCHANGED serverSide
  BY DEF FinishLoad, Answered
<1>2. /\ feedRows' = feedRows /\ feedSequence' = feedSequence
      /\ eventQueue' = eventQueue /\ streamInterrupted' = streamInterrupted
      /\ ServerTyped' /\ QueueOK' /\ (Due' <=> Due)
  BY <1>1, RequestKept
<1>3. TabTyped /\ LoadsOK BY DEF FeedInv
<1>4. pendingLoad \in FeedLoad BY <1>1, <1>3 DEF TabTyped
<1>5. /\ isLoadingLogs /\ pendingMore = NoFeedLoad /\ ~Refreshing
      /\ ~pendingLoad.superseded /\ pendingLoad.baseline = First /\ KeepsUp(pendingLoad)
  BY <1>1, <1>3 DEF LoadsOK
<1>6. ~Refreshing' BY <1>1, <1>5 DEF Refreshing
<1>7. CASE pendingLoad.snapshot
  <2> DEFINE M == AskAgain(pendingLoad)
  <2>1. /\ pendingLoad' = M /\ logPage' = logPage /\ overtaken' = overtaken
        /\ appliedQuery' = appliedQuery /\ requestError' = requestError /\ isLoadingLogs' = isLoadingLogs
    BY <1>7 DEF FinishLoad
  <2>2. /\ M \in FeedLoad /\ M # NoFeedLoad /\ M.baseline = First
        /\ M.superseded = pendingLoad.superseded /\ M.live = << >> /\ M.answer = << >>
    BY <1>4, AskAgainIs
  <2> HIDE DEF M
  <2>3. Due' \/ HeardBy(M, eventQueue', feedRows', feedSequence') BY <1>2, <2>2, FreshKeepsUp
  <2>4. KeepsUp(pendingLoad)' BY <2>1, <2>3 DEF KeepsUp
  <2>5. LoadsOK' BY <1>1, <1>5, <1>6, <2>1, <2>2, <2>4 DEF LoadsOK
  <2>6. TabTyped' BY <1>1, <1>2, <1>3, <2>1, <2>2 DEF TabTyped
  <2>7. LogPageOK' BY <2>1, <2>2 DEF LogPageOK, Unsettled
  <2> QED BY <1>2, <2>5, <2>6, <2>7 DEF FeedInv
<1>8. CASE ~pendingLoad.snapshot
  <2>1. /\ pendingLoad' = NoFeedLoad /\ appliedQuery' = pendingLoad.query
        /\ logPage' = Replayed(pendingLoad) /\ requestError' = << >>
        /\ isLoadingLogs' = FALSE /\ overtaken' = FALSE
    BY <1>8 DEF FinishLoad
  <2>2. /\ Replayed(pendingLoad) \in FeedPage
        /\ ~Due => /\ ShownBy(Replayed(pendingLoad), pendingLoad.query, eventQueue, 0, feedRows)
                   /\ CountedBy(Replayed(pendingLoad), pendingLoad.query, eventQueue, 0, feedRows, feedSequence)
    BY <1>1, <1>4, <1>5, <1>8, ReplayedPage
  <2>3. LoadsOK' BY <1>1, <1>5, <1>6, <2>1 DEF LoadsOK
  <2>4. pendingLoad.query \in FeedQuery BY <1>4, LoadParts
  <2>5. TabTyped' BY <1>1, <1>2, <1>3, <2>1, <2>2, <2>4 DEF TabTyped
  <2>6. LogPageOK'
    <3>1. CASE Due BY <1>2, <3>1 DEF LogPageOK, Unsettled
    <3>2. CASE ~Due
      <4>1. /\ ShownBy(logPage', appliedQuery', eventQueue', 0, feedRows')
            /\ CountedBy(logPage', appliedQuery', eventQueue', 0, feedRows', feedSequence')
        BY <1>2, <2>1, <2>2, <3>2
      <4> QED BY <4>1 DEF LogPageOK
    <3> QED BY <3>1, <3>2
  <2> QED BY <1>2, <2>3, <2>5, <2>6 DEF FeedInv
<1> QED BY <1>7, <1>8

\* The first page fails.
LEMMA FailLoadStep ==
  ASSUME FeedInv, FailLoad
  PROVE  FeedInv'
<1>1. /\ pendingLoad # NoFeedLoad /\ pendingLoad' = NoFeedLoad /\ isLoadingLogs' = FALSE
      /\ requestError' = << "first-page", pendingLoad.query >>
      /\ pendingRefresh' = pendingRefresh /\ pendingMore' = pendingMore
      /\ requeryRefused' = requeryRefused /\ logPage' = logPage /\ overtaken' = overtaken
      /\ appliedQuery' = appliedQuery /\ requestedQuery' = requestedQuery /\ UNCHANGED serverSide
  BY DEF FailLoad
<1>2. /\ ServerTyped' /\ QueueOK' /\ streamInterrupted' = streamInterrupted BY <1>1, RequestKept
<1>3. TabTyped /\ LoadsOK BY DEF FeedInv
<1>4. pendingMore = NoFeedLoad /\ ~Refreshing BY <1>1, <1>3 DEF LoadsOK
<1>5. ~Refreshing' BY <1>1, <1>4 DEF Refreshing
<1>6. LoadsOK' BY <1>1, <1>4, <1>5 DEF LoadsOK
<1>7. TabTyped' BY <1>1, <1>2, <1>3 DEF TabTyped
<1>8. ~MoreOnly' BY <1>1 DEF MoreOnly
<1>9. LogPageOK' BY <1>8 DEF LogPageOK, Unsettled
<1> QED BY <1>2, <1>6, <1>7, <1>9 DEF FeedInv

-----------------------------------------------------------------------------
(* The refresh of the page on screen *)

\* A refresh that has not finished as it was meant to is gone.
LEMMA RefreshOver ==
  ASSUME FeedInv, pendingRefresh # NoFeedLoad, RefreshEnds, UNCHANGED serverSide,
         UNCHANGED << pendingLoad, pendingMore, requeryRefused, logPage, overtaken, appliedQuery, requestedQuery >>,
         \/ requestError' = requestError /\ ~isCurrentRefresh(pendingRefresh, streamInterrupted)
         \/ ~MoreOnly' /\ isCurrentRefresh(pendingRefresh, streamInterrupted)
  PROVE  FeedInv'
<1>1. /\ feedRows' = feedRows /\ feedSequence' = feedSequence
      /\ eventQueue' = eventQueue /\ streamInterrupted' = streamInterrupted
      /\ ServerTyped' /\ QueueOK' /\ (Due' <=> Due)
  BY RequestKept
<1>2. TabTyped /\ LoadsOK /\ LogPageOK BY DEF FeedInv
<1>3. pendingRefresh \in FeedLoad BY <1>2 DEF TabTyped
<1>4. /\ pendingRefresh.for \in {"poll", "reconnect", "always"} /\ pendingRefresh.superseded \in BOOLEAN
  BY <1>3, LoadParts
<1>5. /\ pendingRefresh' = NoFeedLoad /\ isLoadingLogs' \in BOOLEAN
      /\ pendingLoad # NoFeedLoad /\ isLoadingLogs => isLoadingLogs'
  BY <1>2, <1>4 DEF RefreshEnds, TabTyped
<1>6. ~Refreshing' BY <1>5 DEF Refreshing
<1>7. isCurrentRefresh(pendingRefresh, streamInterrupted) => Refreshing
  BY DEF isCurrentRefresh, Refreshing
<1>8. KeepsUp(pendingLoad)' <=> KeepsUp(pendingLoad) BY <1>1 DEF KeepsUp
<1>9. KeepsUp(pendingMore)' <=> KeepsUp(pendingMore) BY <1>1 DEF KeepsUp
<1>10. pendingMore # NoFeedLoad => MoreOnly'
  <2>1. pendingMore # NoFeedLoad => ~Refreshing /\ MoreOnly BY <1>2 DEF LoadsOK
  <2> QED BY <1>7, <2>1 DEF MoreOnly
<1>11. LoadsOK' BY <1>2, <1>5, <1>6, <1>8, <1>9, <1>10 DEF LoadsOK
<1>12. TabTyped' BY <1>1, <1>2, <1>5 DEF TabTyped
<1>13. LogPageOK'
  <2>1. CASE ~MoreOnly' BY <2>1 DEF LogPageOK, Unsettled
  <2>2. CASE requestError' = requestError /\ ~isCurrentRefresh(pendingRefresh, streamInterrupted)
    <3>1. Refreshing /\ pendingRefresh.for # "poll" => Due
      <4>1. Refreshing /\ pendingRefresh.for # "poll" => streamInterrupted
        BY <1>4, <2>2 DEF isCurrentRefresh, isStillRelevant, Refreshing
      <4> QED BY <4>1 DEF Due
    <3>2. MoreOnly' = MoreOnly BY <2>2 DEF MoreOnly
    <3>3. Unsettled => Unsettled' BY <1>1, <3>1, <3>2 DEF Unsettled
    <3>4. LogPageOK => \/ Unsettled'
                    \/ /\ ShownBy(logPage', appliedQuery', eventQueue', 0, feedRows')
                       /\ overtaken' \/ CountedBy(logPage', appliedQuery', eventQueue', 0, feedRows', feedSequence')
      BY <1>1, <3>3 DEF LogPageOK
    <3> QED BY <1>2, <3>4 DEF LogPageOK
  <2> QED BY <2>1, <2>2
<1> QED BY <1>1, <1>11, <1>12, <1>13 DEF FeedInv

\* The page on screen is replaced by its refresh.
LEMMA FinishRefreshStep ==
  ASSUME FeedInv, FinishRefresh
  PROVE  FeedInv'
<1>1. /\ pendingRefresh # NoFeedLoad /\ pendingRefresh.answer # << >>
      /\ pendingLoad' = pendingLoad /\ appliedQuery' = appliedQuery
      /\ requestedQuery' = requestedQuery /\ requeryRefused' = requeryRefused
      /\ UNCHANGED serverSide
  BY DEF FinishRefresh, Answered
<1>2. /\ feedRows' = feedRows /\ feedSequence' = feedSequence
      /\ eventQueue' = eventQueue /\ streamInterrupted' = streamInterrupted
      /\ ServerTyped' /\ QueueOK' /\ (Due' <=> Due)
  BY <1>1, RequestKept
<1>3. TabTyped /\ LoadsOK /\ LogPageOK BY DEF FeedInv
<1>4. pendingRefresh \in FeedLoad BY <1>1, <1>3 DEF TabTyped
<1>5. CASE ~isCurrentRefresh(pendingRefresh, streamInterrupted)
  <2>1. /\ RefreshEnds /\ logPage' = logPage /\ overtaken' = overtaken
        /\ requestError' = requestError /\ pendingMore' = pendingMore
    BY <1>5 DEF FinishRefresh
  <2> QED BY <1>1, <1>5, <2>1, RefreshOver
<1>6. CASE isCurrentRefresh(pendingRefresh, streamInterrupted)
  <2>1. Refreshing BY <1>1, <1>6 DEF isCurrentRefresh, Refreshing
  <2>2. /\ isLoadingLogs /\ pendingMore = NoFeedLoad /\ pendingRefresh.query = appliedQuery
        /\ pendingRefresh.baseline = First /\ KeepsUp(pendingRefresh) /\ pendingLoad = NoFeedLoad
    BY <1>3, <2>1 DEF LoadsOK
  <2>3. CASE pendingRefresh.snapshot
    <3> DEFINE M == AskAgain(pendingRefresh)
    <3>1. /\ pendingRefresh' = M /\ logPage' = logPage /\ overtaken' = overtaken
          /\ requestError' = requestError /\ pendingMore' = pendingMore /\ isLoadingLogs' = isLoadingLogs
      BY <1>6, <2>3 DEF FinishRefresh
    <3>2. /\ M \in FeedLoad /\ M # NoFeedLoad /\ M.baseline = First /\ M.query = pendingRefresh.query
          /\ M.for = pendingRefresh.for
          /\ M.superseded = pendingRefresh.superseded /\ M.live = << >> /\ M.answer = << >>
      BY <1>4, AskAgainIs
    <3> HIDE DEF M
    <3>3. Due' \/ HeardBy(M, eventQueue', feedRows', feedSequence') BY <1>2, <3>2, FreshKeepsUp
    <3>4. KeepsUp(pendingRefresh)' BY <3>1, <3>3 DEF KeepsUp
    <3>5. Refreshing' <=> Refreshing BY <1>1, <3>1, <3>2 DEF Refreshing
    <3>6. LoadsOK' BY <1>1, <2>2, <3>1, <3>2, <3>4 DEF LoadsOK
    <3>7. TabTyped' BY <1>1, <1>2, <1>3, <3>1, <3>2 DEF TabTyped
    <3>8. LogPageOK'
      <4>1. MoreOnly' = MoreOnly BY <3>1 DEF MoreOnly
      <4>2. Unsettled' <=> Unsettled BY <1>1, <1>2, <3>1, <3>2, <3>5, <4>1 DEF Unsettled
      <4>3. /\ logPage' = logPage /\ appliedQuery' = appliedQuery /\ overtaken' = overtaken
        BY <1>1, <3>1
      <4> QED BY <1>2, <1>3, <4>2, <4>3 DEF LogPageOK
    <3> QED BY <1>2, <3>6, <3>7, <3>8 DEF FeedInv
  <2>4. CASE ~pendingRefresh.snapshot
    <3>1. /\ RefreshEnds /\ pendingMore' = NoFeedLoad /\ logPage' = Replayed(pendingRefresh)
          /\ overtaken' = FALSE
      BY <1>6, <2>4 DEF FinishRefresh
    <3>2. pendingRefresh' = NoFeedLoad /\ isLoadingLogs' \in BOOLEAN
      <4>1. isLoadingLogs \in BOOLEAN /\ pendingRefresh.superseded \in BOOLEAN BY <1>3, <1>4, LoadParts DEF TabTyped
      <4> QED BY <3>1, <4>1 DEF RefreshEnds
    <3>3. /\ Replayed(pendingRefresh) \in FeedPage
          /\ ~Due => /\ ShownBy(Replayed(pendingRefresh), pendingRefresh.query, eventQueue, 0, feedRows)
                     /\ CountedBy(Replayed(pendingRefresh), pendingRefresh.query, eventQueue, 0, feedRows, feedSequence)
      BY <1>1, <1>4, <2>2, <2>4, ReplayedPage
    <3>4. LoadsOK' BY <1>1, <2>2, <3>1, <3>2 DEF LoadsOK, Refreshing
    <3>5. TabTyped' BY <1>1, <1>2, <1>3, <3>1, <3>2, <3>3 DEF TabTyped
    <3>6. LogPageOK'
      <4>1. CASE Due BY <1>2, <4>1 DEF LogPageOK, Unsettled
      <4>2. CASE ~Due
        <5>1. /\ ShownBy(logPage', appliedQuery', eventQueue', 0, feedRows')
              /\ CountedBy(logPage', appliedQuery', eventQueue', 0, feedRows', feedSequence')
          BY <1>1, <1>2, <2>2, <3>1, <3>3, <4>2
        <5> QED BY <5>1 DEF LogPageOK
      <4> QED BY <4>1, <4>2
    <3> QED BY <1>2, <3>4, <3>5, <3>6 DEF FeedInv
  <2> QED BY <2>3, <2>4
<1> QED BY <1>5, <1>6

\* The refresh of the page on screen fails.
LEMMA FailRefreshStep ==
  ASSUME FeedInv, FailRefresh
  PROVE  FeedInv'
<1>1. /\ pendingRefresh # NoFeedLoad /\ RefreshEnds /\ UNCHANGED serverSide
      /\ UNCHANGED << pendingLoad, pendingMore, requeryRefused, logPage, overtaken, appliedQuery, requestedQuery >>
      /\ requestError' = IF isCurrentRefresh(pendingRefresh, streamInterrupted)
                         THEN ErrorOf("refresh", pendingRefresh.query) ELSE requestError
  BY DEF FailRefresh
<1>2. CASE ~isCurrentRefresh(pendingRefresh, streamInterrupted) BY <1>1, <1>2, RefreshOver
<1>3. CASE isCurrentRefresh(pendingRefresh, streamInterrupted)
  <2>1. requestError' = ErrorOf("refresh", pendingRefresh.query) BY <1>1, <1>3
  <2>2. requestError' # << >> /\ requestError'[1] # "more" BY <2>1 DEF ErrorOf
  <2>3. ~MoreOnly' BY <2>2 DEF MoreOnly
  <2> QED BY <1>1, <1>3, <2>3, RefreshOver
<1> QED BY <1>2, <1>3

-----------------------------------------------------------------------------
(* The page that follows the one on screen *)

\* The page that follows is asked for.
LEMMA LoadMoreStep ==
  ASSUME FeedInv, loadMoreLogs
  PROVE  FeedInv'
<1> DEFINE L == Pending(appliedQuery, "always", << logPage >>)
<1>1. /\ ~hasStaleLogs /\ ~isLoadingLogs /\ pendingMore' = L
      /\ pendingLoad' = pendingLoad /\ pendingRefresh' = pendingRefresh
      /\ isLoadingLogs' = isLoadingLogs /\ requeryRefused' = requeryRefused
      /\ logPage' = logPage /\ overtaken' = overtaken /\ appliedQuery' = appliedQuery
      /\ requestedQuery' = requestedQuery /\ requestError' = requestError /\ UNCHANGED serverSide
  BY DEF loadMoreLogs, viewVars
<1>2. /\ feedRows' = feedRows /\ feedSequence' = feedSequence
      /\ eventQueue' = eventQueue /\ streamInterrupted' = streamInterrupted
      /\ ServerTyped' /\ QueueOK' /\ (Due' <=> Due)
  BY <1>1, RequestKept
<1>3. /\ TabTyped /\ LoadsOK /\ LogPageOK /\ eventQueue \in Seq(FeedEvent)
      /\ logPage \in FeedPage /\ appliedQuery \in FeedQuery
  BY DEF FeedInv, TabTyped, ServerTyped
<1>4. << logPage >> \in Seq(FeedPage) /\ << logPage >>[1] = logPage BY <1>3
<1>5. /\ L \in FeedLoad /\ L # NoFeedLoad /\ L.query = appliedQuery /\ L.baseline = << logPage >>
      /\ ~L.superseded /\ L.live = << >> /\ L.answer = << >>
  <2>1. \A baseline \in Seq(FeedPage) :
          LET M == Pending(appliedQuery, "always", baseline) IN
          /\ M \in FeedLoad /\ M # NoFeedLoad /\ M.query = appliedQuery /\ M.baseline = baseline
          /\ ~M.superseded /\ M.live = << >> /\ M.answer = << >>
    BY <1>3, PendingIs
  <2> QED BY <1>4, <2>1
<1> HIDE DEF L
<1>6. MoreOnly BY <1>1 DEF hasStaleLogs, MoreOnly
<1>7. pendingLoad = NoFeedLoad /\ ~Refreshing BY <1>1, <1>3 DEF LoadsOK
<1>8. ~Due => HeardBy(L, eventQueue, feedRows, feedSequence)
  <2> SUFFICES ASSUME ~Due PROVE HeardBy(L, eventQueue, feedRows, feedSequence)
    OBVIOUS
  <2>1. ~Unsettled BY <1>6, <1>7 DEF Unsettled
  <2>2. ShownBy(logPage, appliedQuery, eventQueue, 0, feedRows) BY <1>3, <2>1 DEF LogPageOK
  <2>3. EventStream(eventQueue, feedRows, feedSequence, FALSE) BY NothingDue
  <2>4. L.baseline # First => ShownBy(L.baseline[1], L.query, eventQueue, 0, feedRows)
    BY <1>4, <1>5, <2>2
  <2> QED BY <1>3, <1>5, <2>3, <2>4, HeardAfresh
<1>9. KeepsUp(pendingMore)' BY <1>1, <1>2, <1>8 DEF KeepsUp
<1>10. (Refreshing' <=> Refreshing) /\ MoreOnly' = MoreOnly BY <1>1 DEF Refreshing, MoreOnly
<1>11. LoadsOK' BY <1>1, <1>5, <1>6, <1>7, <1>9, <1>10 DEF LoadsOK
<1>12. TabTyped' BY <1>1, <1>2, <1>3, <1>5 DEF TabTyped
<1>13. LogPageOK'
  <2>1. Unsettled' <=> Unsettled BY <1>1, <1>2, <1>10 DEF Unsettled
  <2> QED BY <1>1, <1>2, <1>3, <2>1 DEF LogPageOK
<1> QED BY <1>2, <1>11, <1>12, <1>13 DEF FeedInv

\* The window grown by the page that follows it.
LEMMA MorePageIs ==
  ASSUME FeedInv, NEW L \in FeedLoad, L.answer # << >>, L.baseline # First
  PROVE  /\ MorePage(L) \in FeedPage
         /\ KeepsUp(L) /\ ~L.snapshot /\ ~Due =>
              /\ ShownBy(MorePage(L), L.query, eventQueue, 0, feedRows)
              /\ CountedBy(MorePage(L), L.query, eventQueue, 0, feedRows, feedSequence)
<1> DEFINE R == replayLiveLogEvents(PageOf(L), L.live, L.query)
           N == [R EXCEPT !.limit = PageLimit]
<1>1. MorePage(L) = N BY DEF MorePage, PageOf, Grown
<1>2. eventQueue \in Seq(FeedEvent) BY DEF FeedInv, ServerTyped
<1>3. ~Due => RowLog(feedRows, feedSequence) /\ NothingGone(eventQueue) BY NothingDue
<1> HIDE DEF R
<1>4. /\ R \in FeedPage
      /\ RowLog(feedRows, feedSequence) /\ HeardBy(L, eventQueue, feedRows, feedSequence) /\ NothingGone(eventQueue)
         => /\ ShownBy(R, L.query, eventQueue, 0, feedRows)
            /\ CountedBy(R, L.query, eventQueue, 0, feedRows, feedSequence)
  BY <1>2, HeardOver DEF R
<1>5. /\ N \in FeedPage /\ N.logs = R.logs /\ N.latest = R.latest /\ N.total = R.total /\ N.more = R.more
  <2>1. PageLimit \in {rows \in Nat : rows >= PageLimit} BY FeedAssumption
  <2> QED BY <1>4, <2>1 DEF FeedPage
<1> HIDE DEF N
<1>6. \A q, V, i, rows, n :
        /\ ShownBy(R, q, V, i, rows) => ShownBy(N, q, V, i, rows)
        /\ CountedBy(R, q, V, i, rows, n) => CountedBy(N, q, V, i, rows, n)
  BY <1>5 DEF ShownBy, CountedBy
<1> QED BY <1>1, <1>3, <1>4, <1>5, <1>6 DEF KeepsUp

\* The page that follows is appended.
LEMMA FinishMoreStep ==
  ASSUME FeedInv, FinishMore
  PROVE  FeedInv'
<1>1. /\ pendingMore # NoFeedLoad /\ pendingMore.answer # << >>
      /\ pendingLoad' = pendingLoad /\ pendingRefresh' = pendingRefresh /\ isLoadingLogs' = isLoadingLogs
      /\ requeryRefused' = requeryRefused /\ appliedQuery' = appliedQuery
      /\ requestedQuery' = requestedQuery /\ UNCHANGED serverSide
  BY DEF FinishMore, Answered
<1>2. /\ feedRows' = feedRows /\ feedSequence' = feedSequence
      /\ eventQueue' = eventQueue /\ streamInterrupted' = streamInterrupted
      /\ ServerTyped' /\ QueueOK' /\ (Due' <=> Due)
  BY <1>1, RequestKept
<1>3. TabTyped /\ LoadsOK /\ LogPageOK BY DEF FeedInv
<1>4. pendingMore \in FeedLoad BY <1>1, <1>3 DEF TabTyped
<1>5. /\ MoreOnly /\ ~pendingMore.superseded /\ pendingMore.query = appliedQuery
      /\ KeepsUp(pendingMore) /\ pendingLoad = NoFeedLoad /\ ~Refreshing
  BY <1>1, <1>3 DEF LoadsOK
<1>6. ~Refreshing' BY <1>1, <1>5 DEF Refreshing
<1>7. CASE pendingMore.snapshot
  <2> DEFINE M == AskAgain(pendingMore)
  <2>1. /\ pendingMore' = M /\ logPage' = logPage /\ overtaken' = overtaken
        /\ requestError' = requestError
    BY <1>7 DEF FinishMore
  <2>2. /\ M \in FeedLoad /\ M # NoFeedLoad /\ M.baseline = First /\ M.query = pendingMore.query
        /\ M.superseded = pendingMore.superseded /\ M.live = << >> /\ M.answer = << >>
    BY <1>4, AskAgainIs
  <2> HIDE DEF M
  <2>3. Due' \/ HeardBy(M, eventQueue', feedRows', feedSequence') BY <1>2, <2>2, FreshKeepsUp
  <2>4. KeepsUp(pendingMore)' BY <2>1, <2>3 DEF KeepsUp
  <2>5. MoreOnly' = MoreOnly BY <2>1 DEF MoreOnly
  <2>6. LoadsOK' BY <1>1, <1>5, <1>6, <2>1, <2>2, <2>4, <2>5 DEF LoadsOK
  <2>7. TabTyped' BY <1>1, <1>2, <1>3, <2>1, <2>2 DEF TabTyped
  <2>8. LogPageOK'
    <3>1. Unsettled' <=> Unsettled BY <1>1, <1>2, <1>5, <1>6, <2>5 DEF Unsettled
    <3> QED BY <1>1, <1>2, <1>3, <2>1, <3>1 DEF LogPageOK
  <2> QED BY <1>2, <2>6, <2>7, <2>8 DEF FeedInv
<1>8. CASE ~pendingMore.snapshot
  <2> DEFINE N == IF pendingMore.baseline = First THEN Replayed(pendingMore) ELSE MorePage(pendingMore)
  <2>1. /\ pendingMore' = NoFeedLoad /\ logPage' = N /\ overtaken' = FALSE
        /\ requestError' = << >> \/ requestError' = requestError
    BY <1>8 DEF FinishMore
  <2>2. /\ N \in FeedPage
        /\ ~Due => /\ ShownBy(N, pendingMore.query, eventQueue, 0, feedRows)
                   /\ CountedBy(N, pendingMore.query, eventQueue, 0, feedRows, feedSequence)
    <3>1. CASE pendingMore.baseline = First
      <4>1. N = Replayed(pendingMore) BY <3>1
      <4>2. /\ Replayed(pendingMore) \in FeedPage
            /\ ~Due => /\ ShownBy(Replayed(pendingMore), pendingMore.query, eventQueue, 0, feedRows)
                       /\ CountedBy(Replayed(pendingMore), pendingMore.query, eventQueue, 0, feedRows, feedSequence)
        BY <1>1, <1>4, <1>5, <1>8, <3>1, ReplayedPage
      <4> QED BY <4>1, <4>2
    <3>2. CASE pendingMore.baseline # First
      <4>1. N = MorePage(pendingMore) BY <3>2
      <4>2. /\ MorePage(pendingMore) \in FeedPage
            /\ ~Due => /\ ShownBy(MorePage(pendingMore), pendingMore.query, eventQueue, 0, feedRows)
                       /\ CountedBy(MorePage(pendingMore), pendingMore.query, eventQueue, 0, feedRows, feedSequence)
        BY <1>1, <1>4, <1>5, <1>8, <3>2, MorePageIs
      <4> QED BY <4>1, <4>2
    <3> QED BY <3>1, <3>2
  <2> HIDE DEF N
  <2>3. LoadsOK' BY <1>1, <1>5, <1>6, <2>1 DEF LoadsOK
  <2>4. TabTyped' BY <1>1, <1>2, <1>3, <2>1, <2>2 DEF TabTyped
  <2>5. LogPageOK'
    <3>1. CASE Due BY <1>2, <3>1 DEF LogPageOK, Unsettled
    <3>2. CASE ~Due
      <4>1. /\ ShownBy(logPage', appliedQuery', eventQueue', 0, feedRows')
            /\ CountedBy(logPage', appliedQuery', eventQueue', 0, feedRows', feedSequence')
        BY <1>1, <1>2, <1>5, <2>1, <2>2, <3>2
      <4> QED BY <4>1 DEF LogPageOK
    <3> QED BY <3>1, <3>2
  <2> QED BY <1>2, <2>3, <2>4, <2>5 DEF FeedInv
<1> QED BY <1>7, <1>8

\* The page that follows fails.
LEMMA FailMoreStep ==
  ASSUME FeedInv, FailMore
  PROVE  FeedInv'
<1>1. /\ pendingMore # NoFeedLoad /\ pendingMore' = NoFeedLoad
      /\ requestError' = ErrorOf("more", pendingMore.query)
      /\ pendingLoad' = pendingLoad /\ pendingRefresh' = pendingRefresh /\ isLoadingLogs' = isLoadingLogs
      /\ requeryRefused' = requeryRefused /\ logPage' = logPage /\ overtaken' = overtaken
      /\ appliedQuery' = appliedQuery /\ requestedQuery' = requestedQuery /\ UNCHANGED serverSide
  BY DEF FailMore
<1>2. /\ feedRows' = feedRows /\ feedSequence' = feedSequence
      /\ eventQueue' = eventQueue /\ streamInterrupted' = streamInterrupted
      /\ ServerTyped' /\ QueueOK' /\ (Due' <=> Due)
  BY <1>1, RequestKept
<1>3. TabTyped /\ LoadsOK /\ LogPageOK BY DEF FeedInv
<1>4. MoreOnly BY <1>1, <1>3 DEF LoadsOK
<1>5. MoreOnly' BY <1>1, <1>4 DEF MoreOnly, ErrorOf
<1>6. Refreshing' <=> Refreshing BY <1>1 DEF Refreshing
<1>7. KeepsUp(pendingLoad)' <=> KeepsUp(pendingLoad) BY <1>1, <1>2 DEF KeepsUp
<1>8. KeepsUp(pendingRefresh)' <=> KeepsUp(pendingRefresh) BY <1>1, <1>2 DEF KeepsUp
<1>9. LoadsOK' BY <1>1, <1>3, <1>6, <1>7, <1>8 DEF LoadsOK
<1>10. TabTyped' BY <1>1, <1>2, <1>3 DEF TabTyped
<1>11. LogPageOK'
  <2>1. Unsettled' <=> Unsettled BY <1>1, <1>2, <1>4, <1>5, <1>6 DEF Unsettled
  <2> QED BY <1>1, <1>2, <1>3, <2>1 DEF LogPageOK
<1> QED BY <1>2, <1>9, <1>10, <1>11 DEF FeedInv

-----------------------------------------------------------------------------
(* The invariant holds, and a quiet feed is exact *)

\* The invariant holds at the start.
LEMMA FeedInitInv == FeedInit => FeedInv
<1> SUFFICES ASSUME FeedInit PROVE FeedInv
  OBVIOUS
<1> DEFINE s == FeedSnapshot(FALSE)
           L == Pending("all", "always", First)
<1>1. /\ feedRows = << >> /\ feedSequence = 0 /\ pruning = FALSE /\ eventStream = "open"
      /\ eventQueue = << [kind |-> "open"], s >> /\ logPage = emptyLogPage
      /\ appliedQuery = "all" /\ requestedQuery = "all" /\ pendingLoad = L
      /\ pendingRefresh = NoFeedLoad /\ pendingMore = NoFeedLoad /\ isLoadingLogs = TRUE
      /\ streamInterrupted = FALSE /\ requeryRefused = FALSE /\ overtaken = FALSE
  BY DEF FeedInit
<1>2. LogOK
  <2>1. DOMAIN feedRows = {} /\ feedRows \in [{} -> [hit : BOOLEAN, version : {0, 1}]] BY <1>1
  <2>2. feedSequence \in 0 .. MaxRows BY <1>1, FeedAssumption
  <2>3. RowLog(feedRows, feedSequence) BY <2>1, <2>2 DEF RowLog
  <2> QED BY <1>1, <2>3 DEF LogOK
<1>3. /\ s \in FeedEvent /\ s.kind = "snapshot" /\ s.invalidated = FALSE
      /\ Exact(s.page, feedRows, feedSequence)
  BY <1>2, SnapshotRead
<1> HIDE DEF s
<1>4. /\ eventQueue \in Seq(FeedEvent) /\ QueueSound(eventQueue, feedRows, feedSequence, pruning)
      /\ \A i \in 1 .. Len(eventQueue) : eventQueue[i].kind # "error"
  BY <1>1, <1>3, QueueOpened
<1>5. ServerTyped BY <1>1, <1>2, <1>4 DEF ServerTyped
<1>6. QueueOK BY <1>1, <1>4 DEF QueueOK
<1>7. /\ L \in FeedLoad /\ L # NoFeedLoad /\ L.baseline = First /\ ~L.superseded
      /\ L.live = << >> /\ L.answer = << >>
  <2>1. First \in Seq(FeedPage) BY DEF First
  <2>2. "all" \in FeedQuery BY DEF FeedQuery
  <2> QED BY <2>1, <2>2, PendingIs
<1> HIDE DEF L
<1>8. KeepsUp(pendingLoad)
  <2>1. EventStream(eventQueue, feedRows, feedSequence, FALSE) BY <1>1, <1>4 DEF QueueSound
  <2>2. HeardBy(L, eventQueue, feedRows, feedSequence) BY <1>4, <1>7, <2>1, HeardAfresh
  <2> QED BY <1>1, <2>2 DEF KeepsUp
<1>9. LoadsOK BY <1>1, <1>7, <1>8 DEF LoadsOK, Refreshing
<1>10. emptyLogPage \in FeedPage
  <2>1. << >> \in FeedLogs
    <3>1. DOMAIN << >> = {} /\ << >> \in [{} -> {0, 1}] OBVIOUS
    <3> QED BY <3>1, LogsTyped
  <2>2. PageLimit \in {rows \in Nat : rows >= PageLimit} BY FeedAssumption
  <2> QED BY <2>1, <2>2 DEF emptyLogPage, FeedPage
<1>11. TabTyped BY <1>1, <1>7, <1>10 DEF TabTyped, FeedQuery
<1>12. LogPageOK BY <1>1, <1>7 DEF LogPageOK, Unsettled
<1> QED BY <1>5, <1>6, <1>9, <1>11, <1>12 DEF FeedInv

\* The invariant is about the feed alone.
LEMMA FeedStutters == FeedInv /\ UNCHANGED feedVars => FeedInv'
<1> SUFFICES ASSUME FeedInv, UNCHANGED feedVars PROVE FeedInv'
  OBVIOUS
<1>1. UNCHANGED << feedRows, feedSequence, pruning, eventStream, eventQueue, logPage, appliedQuery,
                   requestedQuery, pendingLoad, pendingRefresh, pendingMore, isLoadingLogs,
                   requestError, streamInterrupted, requeryRefused, overtaken >>
  BY DEF feedVars
<1>2. ServerTyped' BY <1>1 DEF FeedInv, ServerTyped, LogOK
<1>3. TabTyped' BY <1>1 DEF FeedInv, TabTyped
<1>4. QueueOK' BY <1>1 DEF FeedInv, QueueOK
<1>5. LoadsOK' BY <1>1 DEF FeedInv, LoadsOK, KeepsUp, Due, Refreshing, MoreOnly
<1>6. LogPageOK' BY <1>1 DEF FeedInv, LogPageOK, Unsettled, Due, Refreshing, MoreOnly
<1> QED BY <1>2, <1>3, <1>4, <1>5, <1>6 DEF FeedInv

\* Every step of the feed keeps the invariant.
LEMMA FeedNextInv == FeedInv /\ FeedNext => FeedInv'
<1> SUFFICES ASSUME FeedInv, FeedNext PROVE FeedInv'
  OBVIOUS
<1>1. CASE \E hit \in BOOLEAN : RecordRow(hit) BY <1>1, RecordStep
<1>2. CASE AnnouncePrune \/ BroadcastSnapshot BY <1>2, SnapshotStep
<1>3. CASE Subscribe \/ RefuseSubscription BY <1>3, SubscribeStep
<1>4. CASE AnswerLoad \/ AnswerRefresh \/ AnswerMore BY <1>4, AnswerStep
<1>5. CASE handleOpen BY <1>5, OpenStep
<1>6. CASE handleSnapshot BY <1>6, InvalidatedStep, MergedStep
<1>7. CASE handleLog("insert") \/ handleLog("update") BY <1>7, LogStep
<1>8. CASE handleError \/ Poll BY <1>8, PollStep
<1>9. CASE FinishLoad \/ FinishRefresh \/ FinishMore
  BY <1>9, FinishLoadStep, FinishRefreshStep, FinishMoreStep
<1>10. CASE \E row \in DOMAIN feedRows : SettleRow(row) BY <1>10, SettleStep
<1>11. CASE \E kept \in 1 .. MaxRows : PruneRows(kept) BY <1>11, LogPruneStep
<1>12. CASE LoseStream BY <1>12, LoseStep
<1>13. CASE SetFilter BY <1>13, FirstPageStep DEF SetFilter
<1>14. CASE retryLogs
  <2>1. requestedQuery \in FeedQuery BY DEF FeedInv, TabTyped
  <2> QED BY <1>14, <2>1, FirstPageStep DEF retryLogs
<1>15. CASE loadMoreLogs BY <1>15, LoadMoreStep
<1>16. CASE FailLoad \/ FailRefresh \/ FailMore BY <1>16, FailLoadStep, FailRefreshStep, FailMoreStep
<1> QED
  BY <1>1, <1>2, <1>3, <1>4, <1>5, <1>6, <1>7, <1>8, <1>9, <1>10, <1>11, <1>12, <1>13, <1>14,
     <1>15, <1>16
  DEF FeedNext

\* On a quiet feed the invariant says that the page is exact.
LEMMA QuietIsExact == FeedInv => QuietFeedIsExact
<1> SUFFICES ASSUME FeedInv, FeedQuiet, ~requeryRefused
             PROVE  ShowsNewestRows /\ (overtaken \/ CountsRows)
  BY DEF QuietFeedIsExact
<1> DEFINE M == HitBy(feedRows, appliedQuery)
           logs == logPage.logs
           D == DOMAIN logs
<1>1. /\ eventStream = "open" /\ eventQueue = << >> /\ ~pruning
      /\ pendingLoad = NoFeedLoad /\ pendingRefresh = NoFeedLoad /\ MoreOnly
  BY DEF FeedQuiet, MoreOnly
<1>2. ~streamInterrupted BY <1>1 DEF FeedInv, QueueOK
<1>3. ~Unsettled BY <1>1, <1>2 DEF Unsettled, Due, Refreshing
<1>4. /\ ShownBy(logPage, appliedQuery, eventQueue, 0, feedRows)
      /\ overtaken \/ CountedBy(logPage, appliedQuery, eventQueue, 0, feedRows, feedSequence)
  BY <1>3 DEF FeedInv, LogPageOK
<1>5. \A kind, r : ~TellsOf(eventQueue, kind, r, 0) BY <1>1 DEF TellsOf
<1>6. /\ LogOK /\ logPage \in FeedPage /\ overtaken \in BOOLEAN BY DEF FeedInv, ServerTyped, TabTyped
<1>7. /\ M = Matching(appliedQuery) /\ M \in SUBSET (1 .. MaxRows) /\ M \in SUBSET (1 .. feedSequence)
      /\ M \in SUBSET DOMAIN feedRows /\ feedSequence \in Nat
  BY <1>6, HitsOfTheLog
<1>8. /\ D \in SUBSET M
      /\ \A r \in M \ D : Cardinality(D) >= PageLimit /\ \A x \in D : r < x
      /\ \A r \in D : logs[r] = feedRows[r].version
  BY <1>4, <1>5 DEF ShownBy
<1>9. ShowsNewestRows
  <2> DEFINE V == Versions(M)
  <2>1. DOMAIN V = M /\ \A r \in M : V[r] = feedRows[r].version BY DEF Versions
  <2>2. TopOf(M, Cardinality(D)) = D
    <3> HIDE DEF M, D
    <3> QED BY <1>7, <1>8, TopFits, FeedAssumption
  <2> HIDE DEF V
  <2>3. NewestOf(V, Cardinality(D)) = [r \in TopOf(DOMAIN V, Cardinality(D)) |-> V[r]] BY NewestIs
  <2>4. NewestOf(V, Cardinality(D)) = [r \in D |-> V[r]] BY <2>1, <2>2, <2>3
  <2>5. logs = [r \in D |-> logs[r]]
    <3>1. logs \in [D -> {0, 1}] BY <1>6, PageParts
    <3> QED BY <3>1
  <2>6. \A r \in D : logs[r] = V[r] BY <1>8, <2>1
  <2>7. logs = NewestOf(V, Cardinality(D))
    <3> HIDE DEF logs
    <3> QED BY <2>4, <2>5, <2>6
  <2>8. Cardinality(D) >= PageLimit \/ D = M BY <1>8
  <2> QED BY <1>7, <2>7, <2>8 DEF ShowsNewestRows, V
<1>10. overtaken \/ CountsRows
  <2> SUFFICES ASSUME ~overtaken PROVE CountsRows
    OBVIOUS
  <2>1. CountedBy(logPage, appliedQuery, eventQueue, 0, feedRows, feedSequence) BY <1>4
  <2>2. /\ logPage.latest <= feedSequence
        /\ logPage.total = Cardinality({r \in M : r <= logPage.latest})
        /\ logPage.more <=> Cardinality(D) < logPage.total
        /\ \A r \in (logPage.latest + 1) .. feedSequence : FALSE
    BY <1>5, <2>1 DEF CountedBy
  <2>3. logPage.latest = feedSequence
    <3>1. logPage.latest \in Nat BY <1>6, PageParts
    <3>2. logPage.latest < feedSequence => feedSequence \in (logPage.latest + 1) .. feedSequence
      BY <1>7, <3>1
    <3> QED BY <1>7, <2>2, <3>1, <3>2
  <2>4. {r \in M : r <= logPage.latest} = M
    <3>1. \A r \in M : r <= feedSequence BY <1>7
    <3> HIDE DEF M
    <3> QED BY <2>3, <3>1
  <2>5. logPage.more \in BOOLEAN BY <1>6, PageParts
  <2>6. logPage.more = (Cardinality(D) < logPage.total) BY <2>2, <2>5
  <2> QED BY <1>7, <2>2, <2>4, <2>6 DEF CountsRows
<1> QED BY <1>9, <1>10

\* Whatever the order in which the rows, the updates, the prunes, the snapshots and the
\* answers reach the tab, a feed on which nothing is on its way shows the newest rows of its
\* query, each as the server has it, and counts them right (useLogFeed.ts, log-utils.ts and
\* studio-events.ts), whatever the rows, the page and the buffer hold.
THEOREM FeedIsExact == FeedSpec => []QuietFeedIsExact
<1>1. FeedInv /\ [FeedNext]_feedVars => FeedInv' BY FeedNextInv, FeedStutters
<1> QED BY FeedInitInv, <1>1, QuietIsExact, PTL DEF FeedSpec

=============================================================================
