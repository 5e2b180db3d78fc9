------------------------------ MODULE Ordering ------------------------------
(***************************************************************************)
(* The positions of sections in a course, of lectures in a section and of  *)
(* parts in a course (sections.service.ts, lessons.service.ts and          *)
(* course-parts.service.ts).  Rows are soft-deleted, and the unique index  *)
(* on (parent, sortOrder) covers deleted rows too: a statement that puts   *)
(* two rows on one position fails, and its transaction with it.            *)
(*                                                                         *)
(* kind says which of the three lists is edited; it never changes.         *)
(***************************************************************************)
EXTENDS Integers, FiniteSets

CONSTANTS
  Items,     \* the rows a list may get
  MaxPos     \* bound on the positions staff ask for

ASSUME OrderingAssumption == MaxPos \in Nat \ {0} /\ IsFiniteSet(Items)

VARIABLES kind, rows

orderVars == <<kind, rows>>

Gap == 1000                             \* the offset of a vacated position
Absent == [at |-> "none", pos |-> 0]

LiveRows == {i \in Items : rows[i].at = "live"}
Present(r) == {i \in Items : r[i].at # "none"}
Collides(r) == \E i, j \in Present(r) : i # j /\ r[i].pos = r[j].pos

\* The highest position among some rows, 0 without any.
LastPosition(some) ==
  IF some = {} THEN 0
  ELSE LET P == {rows[i].pos : i \in some} IN CHOOSE n \in P : \A m \in P : m <= n

\* rows with the positions of some of them replaced.
Moved(r, some, F(_)) == [i \in Items |-> IF i \in some THEN [r[i] EXCEPT !.pos = F(@)] ELSE r[i]]
Placed(r, i, n) == [r EXCEPT ![i] = [at |-> "live", pos |-> n]]
Gone(i) == [rows EXCEPT ![i].at = "gone"]

\* A transaction commits only if no statement of it meets the unique index.
Commit(statements, r) ==
  /\ \A s \in statements \cup {r} : ~Collides(s)
  /\ rows' = r
  /\ UNCHANGED kind

OrderInit ==
  /\ kind \in {"section", "lesson", "part"}
  /\ rows = [i \in Items |-> Absent]

-----------------------------------------------------------------------------
\* Sections.

\* create without a position: after the last live section.
appendSection(i) ==
  /\ kind = "section" /\ rows[i].at = "none"
  /\ Commit({}, Placed(rows, i, LastPosition(LiveRows) + 1))

\* The live rows from a position on, moved to negative space.
Shift(n) ==
  LET block == {j \in LiveRows : rows[j].pos >= n}
  IN  Moved(rows, block, LAMBDA p : -(p + 1))

\* ... and back, one further down.
Unshift(r) == Moved(r, {j \in Items : r[j].at = "live" /\ r[j].pos < 0}, LAMBDA p : -p)

\* create with a position.
insertSection(i, n) ==
  /\ kind = "section" /\ rows[i].at = "none"
  /\ Commit({Shift(n), Unshift(Shift(n))}, Placed(Unshift(Shift(n)), i, n))

\* remove closes the gap behind a section that keeps its position.
removeSectionRow(i) ==
  /\ kind = "section" /\ i \in LiveRows
  /\ LET below == {j \in LiveRows : rows[j].pos > rows[i].pos}
     IN  Commit({Gone(i)}, Moved(Gone(i), below, LAMBDA p : p - 1))

\* The live rows in the order asked for, 1..n.
Orders == {f \in [LiveRows -> 1..Cardinality(LiveRows)] : \A i, j \in LiveRows : i # j => f[i] # f[j]}
Reordered(f) == [i \in Items |-> IF i \in LiveRows THEN [rows[i] EXCEPT !.pos = f[i]] ELSE rows[i]]

\* reorder: out of the way first, then one row at a time.
reorderSections(f) ==
  /\ kind = "section"
  /\ Commit({Moved(rows, LiveRows, LAMBDA p : -p - Gap)}, Reordered(f))

-----------------------------------------------------------------------------
\* Lectures.

\* create without a position: after the last row of the section, deleted ones included.
appendLesson(i) ==
  /\ kind = "lesson" /\ rows[i].at = "none"
  /\ LET n == LastPosition(Present(rows)) + 1
     IN  Commit({}, Placed(rows, i, IF n > 1 THEN n ELSE 1))

\* create with a position, refused when any row holds it.
insertLesson(i, n) ==
  /\ kind = "lesson" /\ rows[i].at = "none"
  /\ \A j \in Present(rows) : rows[j].pos # n
  /\ Commit({Shift(n), Unshift(Shift(n))}, Placed(Unshift(Shift(n)), i, n))

\* Mutant: the statement that frees positions does not ask for deleted rows.
Vacated_All(i) == Moved(Gone(i), {j \in Items : rows[j].pos > 0}, LAMBDA p : -p - Gap)

\* remove vacates the position of this and of every deleted lecture.
Vacated(i) ==
  LET held == {j \in Items : Gone(i)[j].at = "gone" /\ rows[j].pos >= 0}
  IN  Moved(Gone(i), held, LAMBDA p : -p - Gap)

removeLessonRow(i) ==
  /\ kind = "lesson" /\ i \in LiveRows
  /\ Commit({Gone(i)}, Vacated(i))

reorderLessons(f) ==
  /\ kind = "lesson"
  /\ Commit({Moved(rows, LiveRows, LAMBDA p : -p - Gap)}, Reordered(f))

-----------------------------------------------------------------------------
\* Parts.

\* create: the position asked for, or after the last live part.
createPart(i, n) ==
  /\ kind = "part" /\ rows[i].at = "none"
  /\ Commit({}, Placed(rows, i, n)) \/ Commit({}, Placed(rows, i, LastPosition(LiveRows) + 1))

\* remove keeps the position.
removePartRow(i) ==
  /\ kind = "part" /\ i \in LiveRows
  /\ Commit({}, Gone(i))

reorderParts(f) ==
  /\ kind = "part"
  /\ Commit({Moved(Reordered(f), LiveRows, LAMBDA p : -p)}, Reordered(f))

-----------------------------------------------------------------------------
InsertStep ==
  \E i \in Items :
    \/ appendSection(i) \/ appendLesson(i)
    \/ \E n \in 1..MaxPos : insertSection(i, n) \/ insertLesson(i, n) \/ createPart(i, n)

RemoveStep == \E i \in Items : removeSectionRow(i) \/ removeLessonRow(i) \/ removePartRow(i)

ReorderStep == \E f \in Orders : reorderSections(f) \/ reorderLessons(f) \/ reorderParts(f)

OrderNext == InsertStep \/ RemoveStep \/ ReorderStep

OrderSpec == OrderInit /\ [][OrderNext]_orderVars

-----------------------------------------------------------------------------
\* Adding a row asks for one position and removing one frees it: neither changes the
\* order in which the rows around it are listed, however often positions were freed,
\* reused and shifted before (create and remove of the three services).
NeighboursKeepOrder ==
  [][~ReorderStep =>
       \A i, j \in LiveRows \cap LiveRows' : rows[i].pos < rows[j].pos => rows'[i].pos < rows'[j].pos]_orderVars
=============================================================================
