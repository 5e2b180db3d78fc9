----------------------------- MODULE CourseProofs -----------------------------
(***************************************************************************)
(* Proofs about the parts that make and run a course: positions in a list, *)
(* the content tree and its counters, what the parts cost, and how far a   *)
(* student got.  Sums and quotients are taken as SumTheorems proves them.  *)
(***************************************************************************)
EXTENDS Ordering, Content, PartPrices, Progress, SumTheorems

\* p's call changes and no other.
LEMMA OneCall ==
  ASSUME call = [q \in Calls |-> call[q]], NEW p \in Calls, NEW c, call' = [call EXCEPT ![p] = c]
  PROVE  call'[p] = c /\ (\A q \in Calls \ {p} : call'[q] = call[q]) /\ call' = [q \in Calls |-> call'[q]]
OBVIOUS

-----------------------------------------------------------------------------
\* The positions of a list.

PlacedRows == [at : {"none", "live", "gone"}, pos : Int]

\* The inductive invariant: the index on positions holds for deleted rows too, and those that
\* moved out of the way are deleted.
OrderInv ==
  /\ rows \in [Items -> PlacedRows]
  /\ ~Collides(rows)
  /\ \A i \in LiveRows : rows[i].pos >= 1

\* LastPosition is the position of one of the rows.
LEMMA LastPositionType ==
  ASSUME NEW some \in SUBSET Items, \A i \in some : rows[i].pos \in Int
  PROVE  LastPosition(some) = 0 \/ \E i \in some : LastPosition(some) = rows[i].pos
<1>1. CASE some # {}
  <2> DEFINE P == {rows[i].pos : i \in some}
             at == [i \in some |-> rows[i].pos]
  <2>1. IsFiniteSet(some)
    BY OrderingAssumption, FS_Subset
  <2>2. at \in Surjection(some, P)
    BY DEF Surjection
  <2>3. IsFiniteSet(P) /\ P # {} /\ \A n \in P : n \in Int
    BY <1>1, <2>1, <2>2, FS_Surjection
  <2>4. \E n \in P : \A m \in P : m <= n
    <3> HIDE DEF P
    <3> QED
      BY <2>3, GreatestNumber
  <2>5. LastPosition(some) = CHOOSE n \in P : \A m \in P : m <= n
    BY <1>1 DEF LastPosition
  <2>6. LastPosition(some) \in P
    <3> HIDE DEF P
    <3> QED
      BY <2>4, <2>5
  <2> QED
    BY <2>6
<1> QED
  BY <1>1 DEF LastPosition

\* A new row at a position of its own leaves the others where they are.
LEMMA PlacedKeepsInv ==
  ASSUME OrderInv, NEW i \in Items, rows[i].at = "none", NEW n \in Int, n >= 1,
         rows' = Placed(rows, i, n), ~Collides(rows')
  PROVE  /\ OrderInv'
         /\ \A j \in LiveRows : rows'[j].pos = rows[j].pos
BY DEF OrderInv, Placed, LiveRows, PlacedRows

\* A block of rows is moved out of the way and comes back one position further down.
LEMMA ShiftedKeepsInv ==
  ASSUME OrderInv, NEW i \in Items, rows[i].at = "none", NEW n \in 1..MaxPos,
         rows' = Placed(Unshift(Shift(n)), i, n), ~Collides(rows')
  PROVE  /\ OrderInv'
         /\ \A j \in LiveRows : rows'[j].pos = IF rows[j].pos >= n THEN rows[j].pos + 1 ELSE rows[j].pos
<1>1. MaxPos \in Nat
  BY OrderingAssumption
<1>2. \A j \in Items : Shift(n)[j] = IF j \in LiveRows /\ rows[j].pos >= n
                                    THEN [rows[j] EXCEPT !.pos = -(rows[j].pos + 1)] ELSE rows[j]
  BY DEF Shift, Moved, LiveRows
<1>3. \A j \in Items : rows[j].at = "live" => rows[j].pos \in Int /\ rows[j].pos >= 1
  BY DEF OrderInv, LiveRows, PlacedRows
<1>4. \A j \in Items : Unshift(Shift(n))[j] = IF j \in LiveRows /\ rows[j].pos >= n
                                    THEN [rows[j] EXCEPT !.pos = rows[j].pos + 1] ELSE rows[j]
  <2> SUFFICES ASSUME NEW j \in Items
               PROVE  Unshift(Shift(n))[j] = IF j \in LiveRows /\ rows[j].pos >= n
                                    THEN [rows[j] EXCEPT !.pos = rows[j].pos + 1] ELSE rows[j]
    OBVIOUS
  <2>0. rows[j] \in PlacedRows /\ rows[j].pos \in Int
    BY DEF OrderInv, PlacedRows
  <2>1. Unshift(Shift(n))[j] = IF Shift(n)[j].at = "live" /\ Shift(n)[j].pos < 0
                               THEN [Shift(n)[j] EXCEPT !.pos = -(Shift(n)[j].pos)] ELSE Shift(n)[j]
    BY DEF Unshift, Moved
  <2>2. CASE j \in LiveRows /\ rows[j].pos >= n
    <3>1. Shift(n)[j] = [rows[j] EXCEPT !.pos = -(rows[j].pos + 1)]
      BY <1>2, <2>2
    <3>2. Shift(n)[j].at = "live" /\ Shift(n)[j].pos = -(rows[j].pos + 1)
      BY <2>0, <2>2, <3>1 DEF LiveRows, PlacedRows
    <3>3. Shift(n)[j].pos < 0 /\ -(Shift(n)[j].pos) = rows[j].pos + 1
      BY <1>3, <2>2, <3>2 DEF LiveRows
    <3>4. Unshift(Shift(n))[j] = [Shift(n)[j] EXCEPT !.pos = rows[j].pos + 1]
      BY <2>1, <3>2, <3>3
    <3> QED
      BY <2>0, <2>2, <3>1, <3>4 DEF PlacedRows
  <2>3. CASE ~(j \in LiveRows /\ rows[j].pos >= n)
    <3>1. Shift(n)[j] = rows[j]
      BY <1>2, <2>3
    <3>2. ~(rows[j].at = "live" /\ rows[j].pos < 0)
      BY <1>3
    <3> QED
      BY <2>1, <2>3, <3>1, <3>2
  <2> QED
    BY <2>2, <2>3
<1>5. Unshift(Shift(n)) \in [Items -> PlacedRows]
  <2>1. DOMAIN Unshift(Shift(n)) = Items /\ Unshift(Shift(n)) = [j \in Items |-> Unshift(Shift(n))[j]]
    BY DEF Unshift, Moved
  <2>2. ASSUME NEW j \in Items PROVE Unshift(Shift(n))[j] \in PlacedRows
    <3>1. rows[j] \in PlacedRows
      BY DEF OrderInv
    <3>2. [rows[j] EXCEPT !.pos = rows[j].pos + 1] \in PlacedRows
      BY <3>1 DEF PlacedRows
    <3> QED
      BY <1>4, <3>1, <3>2
  <2> QED
    BY <2>1, <2>2
<1>6. \A j \in Items : rows'[j] = IF j = i THEN [at |-> "live", pos |-> n] ELSE Unshift(Shift(n))[j]
  BY <1>5 DEF Placed
<1>7. rows' \in [Items -> PlacedRows]
  BY <1>1, <1>5 DEF Placed, PlacedRows
<1>8. i \notin LiveRows
  BY DEF LiveRows
<1>9. \A j \in LiveRows : rows'[j].pos = IF rows[j].pos >= n THEN rows[j].pos + 1 ELSE rows[j].pos
  BY <1>4, <1>6, <1>8 DEF OrderInv, LiveRows, PlacedRows
<1>10. \A j \in Items \ {i} : rows'[j].at = rows[j].at
  BY <1>4, <1>6 DEF OrderInv, LiveRows, PlacedRows
<1>11. \A j \in LiveRows' : rows'[j].pos >= 1
  BY <1>1, <1>3, <1>6, <1>9, <1>10 DEF LiveRows
<1> QED
  BY <1>7, <1>9, <1>11 DEF OrderInv

\* removeSectionRow's rows: the live ones behind the removed one move up.
ClosedUp(i) == Moved(Gone(i), {j \in LiveRows : rows[j].pos > rows[i].pos}, LAMBDA p : p - 1)

\* The gap behind a removed section is closed; no two rows were on its position.
LEMMA ClosedKeepsInv ==
  ASSUME OrderInv, NEW i \in LiveRows,
         rows' = ClosedUp(i), ~Collides(rows')
  PROVE  /\ OrderInv'
         /\ LiveRows' = LiveRows \ {i}
         /\ \A j \in LiveRows \ {i} :
              /\ rows[j].pos # rows[i].pos
              /\ rows'[j].pos = IF rows[j].pos > rows[i].pos THEN rows[j].pos - 1 ELSE rows[j].pos
<1>2. i \in Items /\ rows[i] \in PlacedRows /\ rows[i].pos \in Int /\ rows[i].pos >= 1
  BY DEF OrderInv, LiveRows, PlacedRows
<1>3. Gone(i)[i] = [rows[i] EXCEPT !.at = "gone"] /\ \A j \in Items \ {i} : Gone(i)[j] = rows[j]
  BY <1>2 DEF Gone, OrderInv
<1>4. rows'[i] = [rows[i] EXCEPT !.at = "gone"]
  BY <1>2, <1>3 DEF ClosedUp, Moved
<1>5. \A j \in Items \ {i} : rows'[j] = IF j \in LiveRows /\ rows[j].pos > rows[i].pos
                                       THEN [rows[j] EXCEPT !.pos = rows[j].pos - 1] ELSE rows[j]
  BY <1>3 DEF ClosedUp, Moved
<1>6. ASSUME NEW j \in Items \ {i}
      PROVE  /\ rows[j] \in PlacedRows /\ rows'[j] \in PlacedRows
             /\ rows'[j].at = rows[j].at
             /\ j \in LiveRows => rows'[j].pos = IF rows[j].pos > rows[i].pos THEN rows[j].pos - 1 ELSE rows[j].pos
  <2>1. rows[j] \in PlacedRows
    BY DEF OrderInv
  <2>2. /\ [rows[j] EXCEPT !.pos = rows[j].pos - 1] \in PlacedRows
        /\ [rows[j] EXCEPT !.pos = rows[j].pos - 1].pos = rows[j].pos - 1
        /\ [rows[j] EXCEPT !.pos = rows[j].pos - 1].at = rows[j].at
    BY <2>1 DEF PlacedRows
  <2> QED
    BY <1>5, <2>1, <2>2
<1>7. rows'[i] \in PlacedRows /\ rows'[i].at = "gone"
  BY <1>2, <1>4 DEF PlacedRows
<1>8. LiveRows' = LiveRows \ {i}
  BY <1>6, <1>7 DEF LiveRows
<1>9. \A j \in LiveRows \ {i} : rows[j].pos # rows[i].pos
  BY DEF OrderInv, Collides, Present, LiveRows
<1>10. rows' \in [Items -> PlacedRows]
  <2>1. rows' = [j \in Items |-> rows'[j]]
    BY DEF ClosedUp, Moved
  <2> QED
    BY <1>6, <1>7, <2>1
<1>11. \A j \in LiveRows' : rows'[j].pos >= 1
  <2> SUFFICES ASSUME NEW j \in LiveRows \ {i} PROVE rows'[j].pos >= 1
    BY <1>8
  <2>1. rows[j].pos \in Int /\ rows[j].pos >= 1 /\ j \in Items \ {i}
    BY DEF OrderInv, LiveRows, PlacedRows
  <2>2. rows'[j].pos = IF rows[j].pos > rows[i].pos THEN rows[j].pos - 1 ELSE rows[j].pos
    BY <1>6, <2>1
  <2>3. rows[i].pos \in Int /\ rows[i].pos >= 1
    BY <1>2
  <2>4. rows[j].pos > rows[i].pos => rows[j].pos - 1 >= 1
    BY <2>1, <2>3
  <2> QED
    BY <2>1, <2>2, <2>4
<1>12. \A j \in LiveRows \ {i} :
         rows'[j].pos = IF rows[j].pos > rows[i].pos THEN rows[j].pos - 1 ELSE rows[j].pos
  BY <1>6 DEF LiveRows
<1> QED
  BY <1>8, <1>9, <1>10, <1>11, <1>12 DEF OrderInv

\* A row that only becomes deleted, with the deleted ones moved or not.
LEMMA RemovedKeepsInv ==
  ASSUME OrderInv, NEW i \in LiveRows, rows' = Gone(i) \/ rows' = Vacated(i), ~Collides(rows')
  PROVE  /\ OrderInv'
         /\ LiveRows' = LiveRows \ {i}
         /\ \A j \in LiveRows \ {i} : rows'[j].pos = rows[j].pos
<1>1. i \in Items /\ rows[i] \in PlacedRows
  BY DEF LiveRows, OrderInv
<1>2. Gone(i)[i] = [rows[i] EXCEPT !.at = "gone"] /\ \A j \in Items \ {i} : Gone(i)[j] = rows[j]
  BY <1>1 DEF Gone, OrderInv
<1>3. \A j \in Items : Gone(i)[j] \in PlacedRows /\ Gone(i)[j].pos \in Int
  BY <1>1, <1>2 DEF OrderInv, PlacedRows
<1>4. ASSUME NEW j \in Items
      PROVE  rows'[j] \in PlacedRows /\ rows'[j].at = Gone(i)[j].at
             /\ (Gone(i)[j].at = "live" => rows'[j] = Gone(i)[j])
  <2>1. Vacated(i)[j] = IF Gone(i)[j].at = "gone" /\ rows[j].pos >= 0
                        THEN [Gone(i)[j] EXCEPT !.pos = -(Gone(i)[j].pos) - Gap] ELSE Gone(i)[j]
    BY DEF Vacated, Moved
  <2>2. /\ [Gone(i)[j] EXCEPT !.pos = -(Gone(i)[j].pos) - Gap] \in PlacedRows
        /\ [Gone(i)[j] EXCEPT !.pos = -(Gone(i)[j].pos) - Gap].at = Gone(i)[j].at
    BY <1>3 DEF PlacedRows, Gap
  <2> QED
    BY <1>3, <2>1, <2>2
<1>5. rows' \in [Items -> PlacedRows]
  <2>1. CASE rows' = Vacated(i)
    <3>1. rows' = [j \in Items |-> rows'[j]]
      BY <2>1 DEF Vacated, Moved
    <3> QED
      BY <1>4, <3>1
  <2>2. CASE rows' = Gone(i)
    <3>1. rows' = [j \in Items |-> rows'[j]]
      BY <2>2 DEF Gone, OrderInv
    <3> QED
      BY <1>4, <3>1
  <2> QED
    BY <2>1, <2>2
<1>6. LiveRows' = LiveRows \ {i}
  <2>1. rows'[i].at = "gone"
    BY <1>1, <1>2, <1>4 DEF PlacedRows
  <2> QED
    BY <1>1, <1>2, <1>4, <2>1 DEF LiveRows
<1>7. \A j \in LiveRows \ {i} : rows'[j].pos = rows[j].pos
  BY <1>2, <1>4 DEF LiveRows
<1> QED
  BY <1>5, <1>6, <1>7 DEF OrderInv, LiveRows

\* Any order staff ask for is 1..n, and a transaction that commits has met no index.
LEMMA ReorderedKeepsInv ==
  ASSUME OrderInv, NEW f \in Orders, rows' = Reordered(f), ~Collides(rows')
  PROVE  OrderInv'
<1>1. Cardinality(LiveRows) \in Nat
  BY OrderingAssumption, FS_Subset, FS_CardinalityType DEF LiveRows
<1>2. \A i \in LiveRows : f[i] \in Int /\ f[i] >= 1
  BY <1>1 DEF Orders
<1>3. \A i \in Items : /\ rows'[i] \in PlacedRows /\ rows'[i].at = rows[i].at
                       /\ rows'[i].at = "live" => rows'[i].pos >= 1
  <2> SUFFICES ASSUME NEW i \in Items
               PROVE  /\ rows'[i] \in PlacedRows /\ rows'[i].at = rows[i].at
                      /\ rows'[i].at = "live" => rows'[i].pos >= 1
    OBVIOUS
  <2>1. rows[i] \in PlacedRows
    BY DEF OrderInv
  <2>2. rows'[i] = IF i \in LiveRows THEN [rows[i] EXCEPT !.pos = f[i]] ELSE rows[i]
    BY DEF Reordered
  <2> QED
    BY <1>2, <2>1, <2>2 DEF PlacedRows, LiveRows
<1>4. rows' \in [Items -> PlacedRows]
  <2>1. rows' = [i \in Items |-> rows'[i]]
    BY DEF Reordered
  <2> QED
    BY <1>3, <2>1
<1> QED
  BY <1>3, <1>4 DEF OrderInv, LiveRows

\* A row is added.
LEMMA InsertKeepsInv ==
  ASSUME OrderInv, InsertStep
  PROVE  /\ OrderInv'
         /\ \A j, k \in LiveRows : rows[j].pos < rows[k].pos => rows'[j].pos < rows'[k].pos
<1>1. \A j \in Items : rows[j].pos \in Int
  BY DEF OrderInv, PlacedRows
<1>2. ASSUME NEW some \in SUBSET Items, some \subseteq LiveRows
      PROVE  LastPosition(some) \in Int /\ LastPosition(some) + 1 >= 1
  <2>1. LastPosition(some) = 0 \/ \E i \in some : LastPosition(some) = rows[i].pos
    BY <1>1, LastPositionType
  <2> QED
    BY <1>1, <1>2, <2>1 DEF OrderInv
<1>3. LastPosition(Present(rows)) \in Int
  <2>1. Present(rows) \in SUBSET Items
    BY DEF Present
  <2> QED
    BY <1>1, <2>1, LastPositionType
<1>4. LiveRows \in SUBSET Items /\ MaxPos \in Nat
  BY OrderingAssumption DEF LiveRows
<1>5. ASSUME NEW i \in Items, rows[i].at = "none", NEW n \in Int, n >= 1, Commit({}, Placed(rows, i, n))
      PROVE  /\ OrderInv'
             /\ \A j, k \in LiveRows : rows[j].pos < rows[k].pos => rows'[j].pos < rows'[k].pos
  <2>1. rows' = Placed(rows, i, n) /\ ~Collides(rows')
    BY <1>5 DEF Commit
  <2> QED
    BY <1>5, <2>1, PlacedKeepsInv
<1>6. ASSUME NEW i \in Items, rows[i].at = "none", NEW n \in 1..MaxPos,
             Commit({Shift(n), Unshift(Shift(n))}, Placed(Unshift(Shift(n)), i, n))
      PROVE  /\ OrderInv'
             /\ \A j, k \in LiveRows : rows[j].pos < rows[k].pos => rows'[j].pos < rows'[k].pos
  <2>1. rows' = Placed(Unshift(Shift(n)), i, n) /\ ~Collides(rows')
    BY <1>6 DEF Commit
  <2>2. /\ OrderInv'
        /\ \A j \in LiveRows : rows'[j].pos = IF rows[j].pos >= n THEN rows[j].pos + 1 ELSE rows[j].pos
    BY <1>6, <2>1, ShiftedKeepsInv
  <2>3. \A j \in LiveRows : rows[j].pos \in Int
    BY <1>1, <1>4
  <2> QED
    BY <1>4, <2>2, <2>3
<1>7. PICK i \in Items : \/ appendSection(i) \/ appendLesson(i)
                        \/ \E n \in 1..MaxPos : insertSection(i, n) \/ insertLesson(i, n) \/ createPart(i, n)
  BY DEF InsertStep
<1>8. CASE appendSection(i)
  <2>1. LastPosition(LiveRows) + 1 \in Int
    BY <1>2, <1>4
  <2> QED
    BY <1>2, <1>4, <1>5, <1>8, <2>1 DEF appendSection
<1>9. CASE appendLesson(i)
  <2> DEFINE n == LastPosition(Present(rows)) + 1
             m == IF n > 1 THEN n ELSE 1
  <2>1. m \in Int /\ m >= 1
    BY <1>3
  <2>2. rows[i].at = "none" /\ Commit({}, Placed(rows, i, m))
    BY <1>9 DEF appendLesson
  <2> HIDE DEF m
  <2> QED
    BY <1>5, <2>1, <2>2
<1>10. CASE \E n \in 1..MaxPos : insertSection(i, n) \/ insertLesson(i, n)
  BY <1>6, <1>10 DEF insertSection, insertLesson
<1>11. CASE \E n \in 1..MaxPos : createPart(i, n)
  <2>1. PICK n \in 1..MaxPos : createPart(i, n)
    BY <1>11
  <2>2. LastPosition(LiveRows) + 1 \in Int /\ n \in Int /\ n >= 1
    BY <1>2, <1>4
  <2> QED
    BY <1>2, <1>4, <1>5, <2>1, <2>2 DEF createPart
<1> QED
  BY <1>7, <1>8, <1>9, <1>10, <1>11

\* A row is removed.
LEMMA RemoveKeepsInv ==
  ASSUME OrderInv, RemoveStep
  PROVE  /\ OrderInv'
         /\ \A j, k \in LiveRows \cap LiveRows' : rows[j].pos < rows[k].pos => rows'[j].pos < rows'[k].pos
<1>1. PICK i \in Items : removeSectionRow(i) \/ removeLessonRow(i) \/ removePartRow(i)
  BY DEF RemoveStep
<1>2. i \in LiveRows
  BY <1>1 DEF removeSectionRow, removeLessonRow, removePartRow
<1>3. CASE removeSectionRow(i)
  <2>1. rows' = ClosedUp(i) /\ ~Collides(rows')
    BY <1>3 DEF removeSectionRow, Commit, ClosedUp
  <2>2. /\ OrderInv'
        /\ LiveRows' = LiveRows \ {i}
        /\ \A j \in LiveRows \ {i} :
             /\ rows[j].pos # rows[i].pos
             /\ rows'[j].pos = IF rows[j].pos > rows[i].pos THEN rows[j].pos - 1 ELSE rows[j].pos
    BY <1>2, <2>1, ClosedKeepsInv
  <2>3. \A j \in LiveRows : rows[j].pos \in Int
    BY DEF OrderInv, PlacedRows, LiveRows
  <2> QED
    BY <1>2, <2>2, <2>3
<1>4. CASE removeLessonRow(i) \/ removePartRow(i)
  <2>1. (rows' = Gone(i) \/ rows' = Vacated(i)) /\ ~Collides(rows')
    BY <1>4 DEF removeLessonRow, removePartRow, Commit
  <2> QED
    BY <1>2, <2>1, RemovedKeepsInv
<1> QED
  BY <1>1, <1>3, <1>4

\* Staff reorder the list.
LEMMA ReorderKeepsInv == ASSUME OrderInv, ReorderStep PROVE OrderInv'
<1>1. PICK f \in Orders : reorderSections(f) \/ reorderLessons(f) \/ reorderParts(f)
  BY DEF ReorderStep
<1>2. rows' = Reordered(f) /\ ~Collides(rows')
  <2>1. CASE reorderSections(f)
    BY <2>1 DEF reorderSections, Commit
  <2>2. CASE reorderLessons(f)
    BY <2>2 DEF reorderLessons, Commit
  <2>3. CASE reorderParts(f)
    BY <2>3 DEF reorderParts, Commit
  <2> QED
    BY <1>1, <2>1, <2>2, <2>3
<1> QED
  BY <1>2, ReorderedKeepsInv

\* Every step of a list is one of these.
LEMMA OrderStep ==
  ASSUME OrderInv, [OrderNext]_orderVars
  PROVE  /\ OrderInv'
         /\ ~ReorderStep =>
              \A i, j \in LiveRows \cap LiveRows' : rows[i].pos < rows[j].pos => rows'[i].pos < rows'[j].pos
<1>1. CASE InsertStep
  BY <1>1, InsertKeepsInv
<1>2. CASE RemoveStep
  BY <1>2, RemoveKeepsInv
<1>3. CASE ReorderStep
  BY <1>3, ReorderKeepsInv
<1>4. CASE UNCHANGED orderVars
  BY <1>4 DEF orderVars, OrderInv, LiveRows, Collides, Present
<1> QED
  BY <1>1, <1>2, <1>3, <1>4 DEF OrderNext

\* Nothing is listed at first.
LEMMA OrderInitInv == OrderInit => OrderInv
BY DEF OrderInit, OrderInv, PlacedRows, Absent, Collides, Present, LiveRows

\* For any number of rows: adding and removing keep the order of the neighbours, on positions
\* that were freed, reused and shifted before (create and remove of the three services).
THEOREM OrderIsKept == OrderSpec => NeighboursKeepOrder
<1>1. OrderInv /\ [OrderNext]_orderVars => OrderInv'
  BY OrderStep
<1>2. OrderInv /\ [OrderNext]_orderVars =>
        [~ReorderStep =>
           \A i, j \in LiveRows \cap LiveRows' : rows[i].pos < rows[j].pos => rows'[i].pos < rows'[j].pos]_orderVars
  BY OrderStep
<1> QED
  BY <1>1, <1>2, OrderInitInv, PTL DEF OrderSpec, NeighboursKeepOrder

-----------------------------------------------------------------------------
LectureRows == [status : {"NONE", "DRAFT", "PUBLISHED", "ARCHIVED"}, gone : BOOLEAN, long : {0, 1}]
ClipRows ==
  [status : {"NONE", "UPLOADING", "READY", "ARCHIVED"}, gone : BOOLEAN, owner : Lectures \cup {"none"}]

\* What a handler in flight is about.
CallTyped(q) ==
  /\ call[q].op \in {"createLecture", "updateLecture", "revoke", "removeLecture"} => call[q].who \in Lectures
  /\ call[q].op \in {"upload", "attach", "ticket"} => call[q].who \in Lectures \X Clips

ContentTypes ==
  /\ call = [q \in Calls |-> call[q]]
  /\ lecture \in [Lectures -> LectureRows] /\ clip \in [Clips -> ClipRows]
  /\ links \subseteq Lectures \X Clips
  /\ \A q \in Calls : CallTyped(q)

\* Every ticket has a lecture, an attachment and a video to play, or is about to be closed.
Revoking(q, l) == call[q].op = "revoke" /\ call[q].who = l
TicketsHeld ==
  \A t \in playing : /\ t \in links /\ clip[t[2]].status # "ARCHIVED"
                     /\ Open(lecture[t[1]]) \/ \E q \in Calls : Revoking(q, t[1])

\* What a handler has read still holds.
ReadingHolds(q) ==
  /\ call[q].op = "ticket" => /\ call[q].who \in links
                              /\ clip[call[q].who[2]].status # "ARCHIVED"
                              /\ Open(lecture[call[q].who[1]])
  /\ call[q].op = "updateLecture" => call[q].saw = lecture[call[q].who].status
  /\ call[q].op = "createLecture" => lecture[call[q].who].status = "NONE"
  /\ call[q].op = "store" => call[q].saw = Counted

\* The counters are right, or somebody is about to count.
Recounting(q) == call[q].op \in {"recount", "store", "revoke"}
CountersHold == (\A q \in Calls : ~Recounting(q)) => counters = Counted

\* The inductive invariant.
ContentInv ==
  /\ ContentTypes
  /\ ~crossed => TicketsHeld /\ CountersHold /\ \A q \in Calls : ReadingHolds(q)

\* What a handler in flight has read or is about to write.
LEMMA FootprintOf ==
  ASSUME NEW c
  PROVE  /\ c.op = "store" => Footprint(c) = {"counters"}
         /\ c.op \in {"updateLecture", "revoke", "removeLecture"} => Footprint(c) = {c.who}
         /\ c.op = "createLecture" => Footprint(c) = {c.who, SectionOf(c.who)}
         /\ c.op \in {"updateSection", "removeSection"} =>
              Footprint(c) = {c.who} \cup {l \in Lectures : SectionOf(l) = c.who}
         /\ c.op = "removeVideo" => Footprint(c) = LinkedTo(c.who[2]) \cup {c.who[2]}
         /\ c.op \in {"upload", "attach", "detach", "ticket"} => Footprint(c) = {c.who[1], c.who[2]}
<1>1. c.op = "store" => Footprint(c) = {"counters"}
  BY DEF Footprint
<1>2. c.op \in {"updateLecture", "revoke", "removeLecture"} => Footprint(c) = {c.who}
  BY DEF Footprint
<1>3. c.op = "createLecture" => Footprint(c) = {c.who, SectionOf(c.who)}
  BY DEF Footprint
<1>4. c.op \in {"updateSection", "removeSection"} =>
        Footprint(c) = {c.who} \cup {l \in Lectures : SectionOf(l) = c.who}
  BY DEF Footprint
<1>5. c.op = "removeVideo" => Footprint(c) = LinkedTo(c.who[2]) \cup {c.who[2]}
  BY DEF Footprint
<1>6. c.op \in {"upload", "attach", "detach", "ticket"} => Footprint(c) = {c.who[1], c.who[2]}
  BY DEF Footprint
<1> QED
  BY <1>1, <1>2, <1>3, <1>4, <1>5, <1>6

\* A write changes only the rows it is about, as far as others have read them.
Local(written) ==
  /\ \A l \in Lectures \ written : lecture'[l].status = lecture[l].status /\ lecture'[l].gone = lecture[l].gone
  /\ \A a \in links : a[1] \notin written /\ a[2] \notin written =>
       a \in links' /\ (clip[a[2]].status # "ARCHIVED" => clip'[a[2]].status # "ARCHIVED")

\* ... and unless that is counted as a crossing, what others have read still holds.
LEMMA OthersKeepReading ==
  ASSUME ContentInv, NEW p \in Calls, NEW written, Writes(p, written), Local(written), ~crossed',
         NEW q \in Calls \ {p}, call'[q] = call[q]
  PROVE  ReadingHolds(q)' /\ (\A r \in written : r \notin Footprint(call[q]))
<1>1. ~crossed /\ Footprint(call[q]) \cap (written \cup {"counters"}) = {}
  BY DEF Writes
<1>2. ReadingHolds(q) /\ CallTyped(q) /\ links \subseteq Lectures \X Clips
  BY <1>1 DEF ContentInv, ContentTypes
<1> DEFINE c == call[q]
<1>3. c.op # "store"
  BY <1>1, FootprintOf
<1>4. c.op = "ticket" => /\ c.who \in links' /\ clip'[c.who[2]].status # "ARCHIVED"
                         /\ Open(lecture'[c.who[1]])
  <2> SUFFICES ASSUME c.op = "ticket"
               PROVE  /\ c.who \in links' /\ clip'[c.who[2]].status # "ARCHIVED"
                      /\ Open(lecture'[c.who[1]])
    OBVIOUS
  <2>1. Footprint(c) = {c.who[1], c.who[2]}
    BY FootprintOf
  <2>2. c.who[1] \notin written /\ c.who[2] \notin written
    BY <1>1, <2>1
  <2>3. c.who \in links /\ clip[c.who[2]].status # "ARCHIVED" /\ Open(lecture[c.who[1]]) /\ c.who[1] \in Lectures
    BY <1>2 DEF ReadingHolds, CallTyped
  <2> QED
    BY <2>2, <2>3 DEF Local, Open
<1>5. c.op \in {"updateLecture", "createLecture"} => lecture'[c.who].status = lecture[c.who].status
  <2> SUFFICES ASSUME c.op \in {"updateLecture", "createLecture"}
               PROVE  lecture'[c.who].status = lecture[c.who].status
    OBVIOUS
  <2>1. c.who \in Footprint(c)
    BY FootprintOf
  <2>2. c.who \in Lectures \ written
    BY <1>1, <1>2, <2>1 DEF CallTyped
  <2> QED
    BY <2>2 DEF Local
<1> QED
  BY <1>1, <1>2, <1>3, <1>4, <1>5 DEF ReadingHolds, Open

\* What a write must see to about the tickets.
LEMMA TicketsKept ==
  ASSUME ContentInv, NEW p \in Calls, ~crossed, \A q \in Calls \ {p} : call'[q] = call[q],
         \A t \in playing' :
           /\ t \in links' /\ clip'[t[2]].status # "ARCHIVED"
           /\ \/ Open(lecture'[t[1]])
              \/ /\ t \in playing /\ (Open(lecture[t[1]]) => Revoking(p, t[1])')
                 /\ ~Revoking(p, t[1])
  PROVE  TicketsHeld'
<1> SUFFICES ASSUME NEW t \in playing', ~Open(lecture'[t[1]])
             PROVE  \E q \in Calls : Revoking(q, t[1])'
  BY DEF TicketsHeld, Open
<1>1. Open(lecture[t[1]]) \/ \E q \in Calls : Revoking(q, t[1])
  BY DEF ContentInv, TicketsHeld
<1>2. \A q \in Calls \ {p} : Revoking(q, t[1]) => Revoking(q, t[1])'
  BY DEF Revoking
<1> QED
  BY <1>1, <1>2

\* A handler writes: what is left to show of each.
LEMMA WriteKeepsInv ==
  ASSUME ContentInv, NEW p \in Calls, NEW c, NEW written,
         call' = [call EXCEPT ![p] = c], Writes(p, written), Local(written),
         c.op \in {"recount", "revoke", "idle"}, c.op = "revoke" => c.who \in Lectures,
         c.op = "idle" => UNCHANGED <<section, lecture, counters>> /\ ~Recounting(p),
         /\ lecture' \in [Lectures -> LectureRows] /\ clip' \in [Clips -> ClipRows]
         /\ links' \subseteq Lectures \X Clips,
         ~crossed' => TicketsHeld'
  PROVE  ContentInv'
<1>1. call'[p] = c /\ (\A q \in Calls \ {p} : call'[q] = call[q]) /\ call' = [q \in Calls |-> call'[q]]
  BY OneCall DEF ContentInv, ContentTypes
<1>2. ContentTypes'
  <2>1. \A q \in Calls : CallTyped(q)'
    BY <1>1 DEF CallTyped, ContentInv, ContentTypes
  <2> QED
    BY <1>1, <2>1 DEF ContentTypes
<1>3. ASSUME ~crossed' PROVE CountersHold' /\ \A q \in Calls : ReadingHolds(q)'
  <2>1. ~crossed
    BY <1>3 DEF Writes
  <2>2. \A q \in Calls \ {p} : ReadingHolds(q)'
    BY <1>1, <1>3, OthersKeepReading
  <2>3. ReadingHolds(p)'
    BY <1>1 DEF ReadingHolds
  <2>4. CountersHold'
    <3> SUFFICES ASSUME \A q \in Calls : ~Recounting(q)' PROVE counters' = Counted'
      BY DEF CountersHold
    <3>1. c.op = "idle"
      BY <1>1 DEF Recounting
    <3>2. \A q \in Calls : ~Recounting(q)
      BY <1>1, <3>1 DEF Recounting
    <3>3. counters = Counted
      BY <2>1, <3>2 DEF ContentInv, CountersHold
    <3> QED
      BY <3>1, <3>3 DEF Counted
  <2> QED
    BY <2>2, <2>3, <2>4
<1> QED
  BY <1>2, <1>3 DEF ContentInv

\* A handler reads.
LEMMA ReadKeepsInv ==
  ASSUME ContentInv, NEW p \in Calls, NEW op, NEW saw, NEW who, Reads(p, op, saw, who),
         op \notin {"store", "recount", "revoke"},
         CallTyped(p)', ~crossed => ReadingHolds(p)'
  PROVE  ContentInv'
<1>1. /\ call'[p] = [op |-> op, saw |-> saw, who |-> who] /\ \A q \in Calls \ {p} : call'[q] = call[q]
      /\ call' = [q \in Calls |-> call'[q]]
  BY OneCall DEF ContentInv, ContentTypes, Reads, Go
<1>2. UNCHANGED <<section, lecture, clip, links, playing, counters, crossed>> /\ call[p].op = "idle"
  BY DEF Reads, contentVars, Free, At
<1>3. ContentTypes'
  <2>1. \A q \in Calls : CallTyped(q)'
    BY <1>1 DEF CallTyped, ContentInv, ContentTypes
  <2> QED
    BY <1>1, <1>2, <2>1 DEF ContentTypes, ContentInv
<1>4. ASSUME ~crossed' PROVE TicketsHeld' /\ CountersHold' /\ \A q \in Calls : ReadingHolds(q)'
  <2>1. ~crossed
    BY <1>2, <1>4
  <2>2. TicketsHeld'
    BY <1>1, <1>2, <2>1 DEF ContentInv, TicketsHeld, Revoking, Open
  <2>3. Counted' = Counted
    BY <1>2 DEF Counted, Open
  <2>4. CountersHold'
    BY <1>1, <1>2, <2>1, <2>3 DEF ContentInv, CountersHold, Recounting
  <2>5. \A q \in Calls \ {p} : ReadingHolds(q)'
    BY <1>1, <1>2, <2>1, <2>3 DEF ContentInv, ReadingHolds, Open
  <2> QED
    BY <2>1, <2>2, <2>4, <2>5
<1> QED
  BY <1>3, <1>4 DEF ContentInv

-----------------------------------------------------------------------------
\* What one write does to a row of a lecture.
LEMMA LectureRowFacts ==
  ASSUME NEW row \in LectureRows, NEW st \in {"PUBLISHED", "DRAFT"}, NEW n \in {0, 1}
  PROVE  /\ [row EXCEPT !.long = n] \in LectureRows
         /\ [row EXCEPT !.long = n].status = row.status /\ [row EXCEPT !.long = n].gone = row.gone
         /\ [row EXCEPT !.status = st] \in LectureRows
         /\ [row EXCEPT !.status = st].status = st /\ [row EXCEPT !.status = st].gone = row.gone
         /\ [row EXCEPT !.gone = TRUE, !.status = "ARCHIVED"] \in LectureRows
BY DEF LectureRows

\* The lectures that get or lose a duration are otherwise as they were.
Timed ==
  /\ lecture' \in [Lectures -> LectureRows]
  /\ \A l \in Lectures : lecture'[l].status = lecture[l].status /\ lecture'[l].gone = lecture[l].gone

\* A change of its length leaves the status of a lecture alone.
LEMMA LongIsTimed ==
  ASSUME ContentInv, NEW some, NEW n \in {0, 1},
         lecture' = [l \in Lectures |-> IF l \in some THEN [lecture[l] EXCEPT !.long = n] ELSE lecture[l]]
  PROVE  Timed
<1>1. ASSUME NEW l \in Lectures
      PROVE  /\ lecture'[l] \in LectureRows
             /\ lecture'[l].status = lecture[l].status /\ lecture'[l].gone = lecture[l].gone
  <2>1. lecture[l] \in LectureRows
    BY DEF ContentInv, ContentTypes
  <2>2. lecture'[l] = IF l \in some THEN [lecture[l] EXCEPT !.long = n] ELSE lecture[l]
    OBVIOUS
  <2> QED
    BY <2>1, <2>2, LectureRowFacts
<1> QED
  BY <1>1 DEF Timed

LEMMA ClearedIsTimed ==
  ASSUME ContentInv, NEW v, NEW among, lecture' = Cleared(v, among)
  PROVE  Timed
<1> DEFINE some == {l \in among : \A w \in Clips \ {v} : <<l, w>> \in links => clip[w].gone}
<1>1. lecture' = [l \in Lectures |-> IF l \in some THEN [lecture[l] EXCEPT !.long = 0] ELSE lecture[l]]
  BY DEF Cleared
<1> HIDE DEF some
<1> QED
  BY <1>1, LongIsTimed

LEMMA SameIsTimed == ASSUME ContentInv, UNCHANGED lecture PROVE Timed
BY DEF ContentInv, ContentTypes, Timed

\* A video that stays attached elsewhere is not archived with the lectures that go.
LEMMA OrphansOnly ==
  ASSUME ContentInv, NEW gone, NEW a \in links, a[1] \notin gone
  PROVE  a[2] \in Clips /\ a[2] \notin Orphans(gone)
<1>1. a[1] \in Lectures /\ a[2] \in Clips /\ a = <<a[1], a[2]>>
  BY DEF ContentInv, ContentTypes
<1>2. a[1] \in LinkedTo(a[2])
  BY <1>1 DEF LinkedTo
<1> QED
  BY <1>1, <1>2 DEF Orphans

LEMMA OrphansType ==
  ASSUME ContentInv, NEW gone,
         clip' = [v \in Clips |-> IF v \in Orphans(gone) THEN [clip[v] EXCEPT !.status = "ARCHIVED"] ELSE clip[v]]
  PROVE  clip' \in [Clips -> ClipRows]
<1>1. \A v \in Clips : clip[v] \in ClipRows /\ [clip[v] EXCEPT !.status = "ARCHIVED"] \in ClipRows
  BY DEF ContentInv, ContentTypes, ClipRows
<1> QED
  BY <1>1

\* What every ticket has as long as nobody crossed.
LEMMA TicketFacts ==
  ASSUME ContentInv, ~crossed, NEW t \in playing
  PROVE  /\ t \in links /\ t[1] \in Lectures /\ t[2] \in Clips /\ t = <<t[1], t[2]>>
         /\ clip[t[2]].status # "ARCHIVED"
         /\ Open(lecture[t[1]]) \/ \E q \in Calls : Revoking(q, t[1])
BY DEF ContentInv, ContentTypes, TicketsHeld

\* A write that leaves tickets, attachments and the states of lectures and videos alone.
LEMMA QuietWrite ==
  ASSUME ContentInv, NEW p \in Calls, NEW c, NEW written,
         call' = [call EXCEPT ![p] = c], Writes(p, written), ~Recounting(p), c.op \in {"recount", "idle"},
         c.op = "idle" => UNCHANGED <<section, lecture, counters>>,
         Timed, clip' \in [Clips -> ClipRows], links' \subseteq Lectures \X Clips, links \subseteq links',
         playing' \subseteq playing,
         \A v \in Clips : clip[v].status # "ARCHIVED" /\ v \notin written => clip'[v].status # "ARCHIVED",
         \A t \in playing' : clip[t[2]].status # "ARCHIVED" => clip'[t[2]].status # "ARCHIVED"
  PROVE  ContentInv'
<1>1. Local(written)
  BY DEF Local, Timed, ContentInv, ContentTypes
<1>2. ASSUME ~crossed' PROVE TicketsHeld'
  <2>1. ~crossed
    BY <1>2 DEF Writes
  <2>2. \A q \in Calls \ {p} : call'[q] = call[q]
    BY OneCall DEF ContentInv, ContentTypes
  <2>3. ASSUME NEW t \in playing'
        PROVE  /\ t \in links' /\ clip'[t[2]].status # "ARCHIVED"
               /\ \/ Open(lecture'[t[1]])
                  \/ /\ t \in playing /\ (Open(lecture[t[1]]) => Revoking(p, t[1])')
                     /\ ~Revoking(p, t[1])
    <3>1. t \in links /\ t[1] \in Lectures /\ clip[t[2]].status # "ARCHIVED"
      BY <2>1, TicketFacts
    <3>2. Open(lecture[t[1]]) => Open(lecture'[t[1]])
      BY <3>1 DEF Timed, Open
    <3> QED
      BY <3>1, <3>2 DEF Revoking, Recounting
  <2> QED
    BY <2>1, <2>2, <2>3, TicketsKept
<1>3. lecture' \in [Lectures -> LectureRows]
  BY DEF Timed
<1> QED
  BY <1>1, <1>2, <1>3, WriteKeepsInv

-----------------------------------------------------------------------------
\* recountCourse and its store.
LEMMA RecountKeepsInv ==
  ASSUME ContentInv, NEW p \in Calls, recountCourse(p) \/ StoreCounters(p)
  PROVE  ContentInv'
<1>1. UNCHANGED <<section, lecture, clip, links, playing, crossed>>
  BY DEF recountCourse, StoreCounters, contentVars
<1>2. Counted' = Counted
  BY <1>1 DEF Counted, Open
<1>3. \E c : /\ call' = [call EXCEPT ![p] = c]
             /\ \/ recountCourse(p) /\ c = [op |-> "store", saw |-> Counted, who |-> "none"]
                \/ StoreCounters(p) /\ c = Idle
  BY DEF recountCourse, StoreCounters, Go, End
<1>4. PICK c : /\ call' = [call EXCEPT ![p] = c]
               /\ \/ recountCourse(p) /\ c = [op |-> "store", saw |-> Counted, who |-> "none"]
                  \/ StoreCounters(p) /\ c = Idle
  BY <1>3
<1>5. call'[p] = c /\ (\A q \in Calls \ {p} : call'[q] = call[q]) /\ call' = [q \in Calls |-> call'[q]]
  BY <1>4, OneCall DEF ContentInv, ContentTypes
<1>6. c.op \in {"store", "idle"} /\ (c.op = "store" => c.saw = Counted) /\ call[p].op \in {"recount", "store"}
  BY <1>4 DEF Idle, recountCourse, StoreCounters, At
<1>7. ContentTypes'
  <2>1. \A q \in Calls : CallTyped(q)'
    BY <1>5, <1>6 DEF CallTyped, ContentInv, ContentTypes
  <2> QED
    BY <1>1, <1>5, <2>1 DEF ContentTypes, ContentInv
<1>8. ASSUME ~crossed' PROVE TicketsHeld' /\ CountersHold' /\ \A q \in Calls : ReadingHolds(q)'
  <2>1. ~crossed
    BY <1>1, <1>8
  <2>2. TicketsHeld'
    BY <1>1, <1>5, <1>6, <2>1 DEF ContentInv, TicketsHeld, Revoking, Open
  <2>3. \A q \in Calls : ReadingHolds(q)'
    BY <1>1, <1>2, <1>5, <1>6, <2>1 DEF ContentInv, ReadingHolds, Open
  <2>4. CountersHold'
    <3>1. CASE recountCourse(p)
      <4>1. c.op = "store"
        BY <1>4, <3>1 DEF StoreCounters, recountCourse, At
      <4> QED
        BY <1>5, <4>1 DEF CountersHold, Recounting
    <3>2. CASE StoreCounters(p)
      <4>1. ReadingHolds(p) /\ call[p].op = "store"
        BY <2>1, <3>2 DEF ContentInv, StoreCounters, At
      <4>2. counters' = Counted
        BY <3>2, <4>1 DEF ReadingHolds, StoreCounters
      <4> QED
        BY <1>2, <4>2 DEF CountersHold
    <3> QED
      BY <3>1, <3>2
  <2> QED
    BY <2>2, <2>3, <2>4
<1> QED
  BY <1>7, <1>8 DEF ContentInv

-----------------------------------------------------------------------------
\* Sections.
LEMMA SectionWriteKeepsInv ==
  ASSUME ContentInv, NEW p \in Calls, (\E s \in Sections : createSection(p, s)) \/ updateSection(p)
  PROVE  ContentInv'
<1> DEFINE c == [op |-> "recount", saw |-> "none", who |-> "none"]
<1>1. PICK written : Writes(p, written) /\ call' = [call EXCEPT ![p] = c]
  BY DEF createSection, updateSection, ThenRecount, Go
<1>2. UNCHANGED <<lecture, clip, links, playing, counters>> /\ ~Recounting(p)
  BY DEF createSection, updateSection, At, Free, Recounting
<1>3. Timed
  BY <1>2, SameIsTimed
<1>4. clip' \in [Clips -> ClipRows] /\ links' \subseteq Lectures \X Clips
  BY <1>2 DEF ContentInv, ContentTypes
<1>5. c.op = "recount"
  OBVIOUS
<1> HIDE DEF c
<1> QED
  BY <1>1, <1>2, <1>3, <1>4, <1>5, QuietWrite

LEMMA RemoveSectionKeepsInv ==
  ASSUME ContentInv, NEW p \in Calls, removeSection(p)
  PROVE  ContentInv'
<1> DEFINE c == [op |-> "recount", saw |-> "none", who |-> "none"]
           written == Footprint(call[p])
           gone == {l \in Lectures : SectionOf(l) = call[p].who /\ lecture[l].status # "NONE"}
<1>1. /\ call[p].op = "removeSection" /\ CloseLectures(gone) /\ Writes(p, written)
      /\ call' = [call EXCEPT ![p] = c] /\ UNCHANGED <<links, counters>>
  BY DEF removeSection, ThenRecount, Go, At
<1>2. gone \subseteq written /\ gone \subseteq Lectures
  BY <1>1, FootprintOf
<1>3. c.op = "recount"
  OBVIOUS
<1> HIDE DEF c, written, gone
<1>4. \A l \in Lectures : /\ lecture[l] \in LectureRows /\ lecture'[l] \in LectureRows
                          /\ l \notin gone => lecture'[l] = lecture[l]
  <2> SUFFICES ASSUME NEW l \in Lectures
               PROVE  /\ lecture[l] \in LectureRows /\ lecture'[l] \in LectureRows
                      /\ l \notin gone => lecture'[l] = lecture[l]
    OBVIOUS
  <2>1. lecture[l] \in LectureRows
    BY DEF ContentInv, ContentTypes
  <2>2. lecture'[l] = IF l \in gone /\ Live(lecture[l])
                      THEN [lecture[l] EXCEPT !.gone = TRUE, !.status = "ARCHIVED"] ELSE lecture[l]
    BY <1>1 DEF CloseLectures
  <2> QED
    BY <2>1, <2>2, LectureRowFacts
<1>5. lecture' \in [Lectures -> LectureRows]
  <2>1. lecture' = [l \in Lectures |-> lecture'[l]]
    BY <1>1 DEF CloseLectures
  <2> QED
    BY <1>4, <2>1
<1>6. clip' \in [Clips -> ClipRows] /\ links' \subseteq Lectures \X Clips
  BY <1>1, OrphansType DEF CloseLectures, ContentInv, ContentTypes
<1>7. \A a \in links : a[1] \notin gone => clip'[a[2]] = clip[a[2]]
  BY <1>1, OrphansOnly DEF CloseLectures
<1>8. Local(written)
  BY <1>1, <1>2, <1>4, <1>7 DEF Local
<1>9. ASSUME ~crossed' PROVE TicketsHeld'
  <2>1. ~crossed /\ \A q \in Calls \ {p} : call'[q] = call[q]
    BY <1>1, <1>9, OneCall DEF Writes, ContentInv, ContentTypes
  <2>2. ASSUME NEW t \in playing'
        PROVE  /\ t \in links' /\ clip'[t[2]].status # "ARCHIVED"
               /\ \/ Open(lecture'[t[1]])
                  \/ /\ t \in playing /\ (Open(lecture[t[1]]) => Revoking(p, t[1])')
                     /\ ~Revoking(p, t[1])
    <3>1. t \in playing /\ t[1] \notin gone
      BY <1>1 DEF CloseLectures
    <3>2. t \in links /\ t[1] \in Lectures /\ clip[t[2]].status # "ARCHIVED"
      BY <2>1, <3>1, TicketFacts
    <3> QED
      BY <1>1, <1>4, <1>7, <3>1, <3>2 DEF Revoking
  <2> QED
    BY <2>1, <2>2, TicketsKept
<1> QED
  BY <1>1, <1>3, <1>5, <1>6, <1>8, <1>9, WriteKeepsInv

-----------------------------------------------------------------------------
\* Lectures.
LEMMA CreateLectureKeepsInv ==
  ASSUME ContentInv, NEW p \in Calls, createLecture(p)
  PROVE  ContentInv'
<1> DEFINE c == [op |-> "recount", saw |-> "none", who |-> "none"]
           written == Footprint(call[p])
           l == call[p].who
<1>1. PICK st \in {"PUBLISHED", "DRAFT"} : lecture' = [lecture EXCEPT ![l].status = st]
  BY DEF createLecture
<1>2. /\ call[p].op = "createLecture" /\ Writes(p, written) /\ call' = [call EXCEPT ![p] = c]
      /\ UNCHANGED <<clip, links, playing>>
  BY DEF createLecture, ThenRecount, Go, At
<1>3. c.op = "recount" /\ l \in written /\ l \in Lectures
  BY <1>2, FootprintOf DEF ContentInv, ContentTypes, CallTyped
<1> HIDE DEF c, written
<1>4. /\ lecture' \in [Lectures -> LectureRows] /\ \A k \in Lectures \ {l} : lecture'[k] = lecture[k]
  BY <1>1, <1>3, LectureRowFacts DEF ContentInv, ContentTypes
<1>5. Local(written)
  BY <1>2, <1>3, <1>4 DEF Local
<1>6. clip' \in [Clips -> ClipRows] /\ links' \subseteq Lectures \X Clips
  BY <1>2 DEF ContentInv, ContentTypes
<1>7. ASSUME ~crossed' PROVE TicketsHeld'
  <2>1. ~crossed /\ \A q \in Calls \ {p} : call'[q] = call[q]
    BY <1>2, <1>7, OneCall DEF Writes, ContentInv, ContentTypes
  <2>2. ~Open(lecture[l])
    BY <1>2, <2>1 DEF ContentInv, ReadingHolds, Open
  <2>3. ASSUME NEW t \in playing'
        PROVE  /\ t \in links' /\ clip'[t[2]].status # "ARCHIVED"
               /\ \/ Open(lecture'[t[1]])
                  \/ /\ t \in playing /\ (Open(lecture[t[1]]) => Revoking(p, t[1])')
                     /\ ~Revoking(p, t[1])
    <3>1. t \in playing /\ t \in links /\ t[1] \in Lectures /\ clip[t[2]].status # "ARCHIVED"
      BY <1>2, <2>1, TicketFacts
    <3> QED
      BY <1>2, <1>4, <2>2, <3>1 DEF Revoking
  <2> QED
    BY <2>1, <2>3, TicketsKept
<1> QED
  BY <1>2, <1>3, <1>4, <1>5, <1>6, <1>7, WriteKeepsInv

\* The status an update saw is the one it replaces.
LEMMA UpdateLectureKeepsInv ==
  ASSUME ContentInv, NEW p \in Calls, updateLecture(p)
  PROVE  ContentInv'
<1> DEFINE written == Footprint(call[p])
           l == call[p].who
<1>1. PICK st \in {"PUBLISHED", "DRAFT"} :
        /\ lecture' = [lecture EXCEPT ![l].status = st]
        /\ IF call[p].saw = "PUBLISHED" /\ st # "PUBLISHED"
           THEN Go(p, "revoke", "none", l) ELSE Go(p, "recount", "none", "none")
  BY DEF updateLecture
<1> DEFINE c == IF call[p].saw = "PUBLISHED" /\ st # "PUBLISHED"
                THEN [op |-> "revoke", saw |-> "none", who |-> l]
                ELSE [op |-> "recount", saw |-> "none", who |-> "none"]
<1>3. /\ call' = [call EXCEPT ![p] = c]
      /\ IF call[p].saw = "PUBLISHED" /\ st # "PUBLISHED"
         THEN c.op = "revoke" /\ c.who = l ELSE c.op = "recount"
  BY <1>1 DEF Go
<1> HIDE DEF c
<1>4. call[p].op = "updateLecture" /\ Writes(p, written) /\ UNCHANGED <<clip, links, playing>>
  BY DEF updateLecture, At
<1>5. written = {l} /\ l \in Lectures
  BY <1>4, FootprintOf DEF ContentInv, ContentTypes, CallTyped
<1> HIDE DEF written
<1>6. /\ lecture' \in [Lectures -> LectureRows] /\ \A k \in Lectures \ {l} : lecture'[k] = lecture[k]
      /\ lecture'[l].status = st /\ lecture'[l].gone = lecture[l].gone
  <2>1. lecture[l] \in LectureRows /\ lecture \in [Lectures -> LectureRows]
    BY <1>5 DEF ContentInv, ContentTypes
  <2>2. lecture' = [lecture EXCEPT ![l] = [lecture[l] EXCEPT !.status = st]]
    BY <1>1, <1>5, <2>1
  <2>3. /\ [lecture[l] EXCEPT !.status = st] \in LectureRows
        /\ [lecture[l] EXCEPT !.status = st].status = st
        /\ [lecture[l] EXCEPT !.status = st].gone = lecture[l].gone
    BY <2>1, LectureRowFacts
  <2> QED
    BY <1>5, <2>1, <2>2, <2>3
<1>7. Local(written)
  BY <1>4, <1>5, <1>6 DEF Local
<1>8. clip' \in [Clips -> ClipRows] /\ links' \subseteq Lectures \X Clips
  BY <1>4 DEF ContentInv, ContentTypes
<1>9. ASSUME ~crossed' PROVE TicketsHeld'
  <2>1. ~crossed /\ call'[p] = c /\ \A q \in Calls \ {p} : call'[q] = call[q]
    BY <1>3, <1>4, <1>9, OneCall DEF Writes, ContentInv, ContentTypes
  <2>2. call[p].saw = lecture[l].status
    BY <1>4, <2>1 DEF ContentInv, ReadingHolds
  <2>3. ASSUME NEW t \in playing'
        PROVE  /\ t \in links' /\ clip'[t[2]].status # "ARCHIVED"
               /\ \/ Open(lecture'[t[1]])
                  \/ /\ t \in playing /\ (Open(lecture[t[1]]) => Revoking(p, t[1])')
                     /\ ~Revoking(p, t[1])
    <3>1. t \in playing /\ t \in links /\ t[1] \in Lectures /\ clip[t[2]].status # "ARCHIVED"
      BY <1>4, <2>1, TicketFacts
    <3>2. Open(lecture[t[1]]) => Open(lecture'[t[1]]) \/ Revoking(p, t[1])'
      BY <1>3, <1>6, <2>1, <2>2, <3>1 DEF Revoking, Open
    <3> QED
      BY <1>4, <3>1, <3>2 DEF Revoking
  <2> QED
    BY <2>1, <2>3, TicketsKept
<1>10. c.op \in {"recount", "revoke"} /\ (c.op = "revoke" => c.who \in Lectures)
  BY <1>3, <1>5
<1> QED
  BY <1>3, <1>4, <1>6, <1>7, <1>8, <1>9, <1>10, WriteKeepsInv

LEMMA RevokeTicketsKeepsInv ==
  ASSUME ContentInv, NEW p \in Calls, RevokeTickets(p)
  PROVE  ContentInv'
<1> DEFINE c == [op |-> "recount", saw |-> "none", who |-> "none"]
           written == Footprint(call[p])
<1>1. /\ call[p].op = "revoke" /\ Writes(p, written) /\ call' = [call EXCEPT ![p] = c]
      /\ UNCHANGED <<section, lecture, clip, links, counters>>
      /\ playing' = {t \in playing : t[1] # call[p].who}
  BY DEF RevokeTickets, ThenRecount, Go, At
<1>2. c.op = "recount"
  OBVIOUS
<1> HIDE DEF c, written
<1>3. Local(written)
  BY <1>1 DEF Local
<1>4. /\ lecture' \in [Lectures -> LectureRows] /\ clip' \in [Clips -> ClipRows]
      /\ links' \subseteq Lectures \X Clips
  BY <1>1 DEF ContentInv, ContentTypes
<1>5. ASSUME ~crossed' PROVE TicketsHeld'
  <2>1. ~crossed /\ \A q \in Calls \ {p} : call'[q] = call[q]
    BY <1>1, <1>5, OneCall DEF Writes, ContentInv, ContentTypes
  <2>2. ASSUME NEW t \in playing'
        PROVE  /\ t \in links' /\ clip'[t[2]].status # "ARCHIVED"
               /\ \/ Open(lecture'[t[1]])
                  \/ /\ t \in playing /\ (Open(lecture[t[1]]) => Revoking(p, t[1])')
                     /\ ~Revoking(p, t[1])
    <3>1. t \in playing /\ t[1] # call[p].who
      BY <1>1
    <3>2. t \in links /\ clip[t[2]].status # "ARCHIVED"
      BY <2>1, <3>1, TicketFacts
    <3> QED
      BY <1>1, <3>1, <3>2 DEF Revoking
  <2> QED
    BY <2>1, <2>2, TicketsKept
<1> QED
  BY <1>1, <1>2, <1>3, <1>4, <1>5, WriteKeepsInv

LEMMA RemoveLectureKeepsInv ==
  ASSUME ContentInv, NEW p \in Calls, removeLecture(p)
  PROVE  ContentInv'
<1> DEFINE c == [op |-> "recount", saw |-> "none", who |-> "none"]
           written == Footprint(call[p])
           l == call[p].who
<1>1. /\ call[p].op = "removeLecture" /\ Writes(p, written) /\ call' = [call EXCEPT ![p] = c]
      /\ lecture' = [lecture EXCEPT ![l].gone = TRUE, ![l].status = "ARCHIVED"]
      /\ clip' = [v \in Clips |-> IF v \in Orphans({l}) THEN [clip[v] EXCEPT !.status = "ARCHIVED"] ELSE clip[v]]
      /\ playing' = {t \in playing : t[1] # l}
      /\ UNCHANGED links
  BY DEF removeLecture, ThenRecount, Go, At
<1>2. c.op = "recount" /\ written = {l} /\ l \in Lectures
  BY <1>1, FootprintOf DEF ContentInv, ContentTypes, CallTyped
<1> HIDE DEF c, written
<1>3. lecture' \in [Lectures -> LectureRows] /\ \A k \in Lectures \ {l} : lecture'[k] = lecture[k]
  <2>1. lecture[l] \in LectureRows /\ lecture \in [Lectures -> LectureRows]
    BY <1>2 DEF ContentInv, ContentTypes
  <2>2. lecture' = [lecture EXCEPT ![l] = [lecture[l] EXCEPT !.gone = TRUE, !.status = "ARCHIVED"]]
    BY <1>1, <1>2, <2>1
  <2> QED
    BY <1>2, <2>1, <2>2, LectureRowFacts
<1>4. clip' \in [Clips -> ClipRows] /\ links' \subseteq Lectures \X Clips
  BY <1>1, OrphansType DEF ContentInv, ContentTypes
<1>5. \A a \in links : a[1] # l => clip'[a[2]] = clip[a[2]]
  <2>1. \A a \in links : a[1] \notin {l} => a[2] \in Clips /\ a[2] \notin Orphans({l})
    BY OrphansOnly
  <2> QED
    BY <1>1, <2>1
<1>6. Local(written)
  BY <1>1, <1>2, <1>3, <1>5 DEF Local
<1>7. ASSUME ~crossed' PROVE TicketsHeld'
  <2>1. ~crossed /\ \A q \in Calls \ {p} : call'[q] = call[q]
    BY <1>1, <1>7, OneCall DEF Writes, ContentInv, ContentTypes
  <2>2. ASSUME NEW t \in playing'
        PROVE  /\ t \in links' /\ clip'[t[2]].status # "ARCHIVED"
               /\ \/ Open(lecture'[t[1]])
                  \/ /\ t \in playing /\ (Open(lecture[t[1]]) => Revoking(p, t[1])')
                     /\ ~Revoking(p, t[1])
    <3>1. t \in playing /\ t[1] # l
      BY <1>1
    <3>2. t \in links /\ t[1] \in Lectures /\ clip[t[2]].status # "ARCHIVED"
      BY <2>1, <3>1, TicketFacts
    <3> QED
      BY <1>1, <1>3, <1>5, <3>1, <3>2 DEF Revoking
  <2> QED
    BY <2>1, <2>2, TicketsKept
<1> QED
  BY <1>1, <1>2, <1>3, <1>4, <1>6, <1>7, WriteKeepsInv

-----------------------------------------------------------------------------
\* Videos.
LEMMA UploadKeepsInv ==
  ASSUME ContentInv, NEW p \in Calls, initUpload(p)
  PROVE  ContentInv'
<1> DEFINE written == Footprint(call[p])
           l == call[p].who[1]
           v == call[p].who[2]
           row == [status |-> "UPLOADING", gone |-> FALSE,
                   owner |-> IF clip[v].status = "NONE" THEN l ELSE clip[v].owner]
<1>1. /\ call[p].op = "upload" /\ Writes(p, written) /\ call' = [call EXCEPT ![p] = Idle]
      /\ clip' = [clip EXCEPT ![v] = row] /\ links' = links \cup {<<l, v>>}
      /\ UNCHANGED <<section, lecture, playing, counters>>
  BY DEF initUpload, At, End
<1>2. l \in Lectures /\ v \in Clips /\ clip \in [Clips -> ClipRows] /\ links \subseteq Lectures \X Clips
  BY <1>1 DEF ContentInv, ContentTypes, CallTyped
<1>3. row \in ClipRows /\ row.status # "ARCHIVED"
  BY <1>2 DEF ClipRows
<1> HIDE DEF row, written
<1>4. /\ clip' \in [Clips -> ClipRows] /\ links' \subseteq Lectures \X Clips
      /\ \A w \in Clips : clip[w].status # "ARCHIVED" => clip'[w].status # "ARCHIVED"
  BY <1>1, <1>2, <1>3
<1>5. Timed /\ ~Recounting(p) /\ Idle.op = "idle"
  BY <1>1, SameIsTimed DEF Recounting, Idle
<1>6. \A t \in playing' : clip[t[2]].status # "ARCHIVED" => clip'[t[2]].status # "ARCHIVED"
  BY <1>1, <1>2, <1>3
<1> QED
  BY <1>1, <1>4, <1>5, <1>6, QuietWrite

LEMMA ReadyKeepsInv ==
  ASSUME ContentInv, NEW p \in Calls, NEW v \in Clips, markReady(p, v)
  PROVE  ContentInv'
<1> DEFINE c == [op |-> "recount", saw |-> "none", who |-> "none"]
           some == {l \in Lectures : l \in LinkedTo(v) \/ clip[v].owner = l}
<1>1. /\ call[p].op = "idle" /\ Writes(p, {v} \cup LinkedTo(v)) /\ call' = [call EXCEPT ![p] = c]
      /\ clip' = [clip EXCEPT ![v].status = "READY"]
      /\ lecture' = [l \in Lectures |-> IF l \in some THEN [lecture[l] EXCEPT !.long = 1] ELSE lecture[l]]
      /\ UNCHANGED <<links, playing>>
  BY DEF markReady, Go, Free, At
<1>2. clip \in [Clips -> ClipRows] /\ links \subseteq Lectures \X Clips
  BY DEF ContentInv, ContentTypes
<1>3. c.op = "recount"
  OBVIOUS
<1> HIDE DEF c, some
<1>4. /\ clip' \in [Clips -> ClipRows]
      /\ \A w : clip[w].status # "ARCHIVED" => clip'[w].status # "ARCHIVED"
  <2>1. clip[v] \in ClipRows
    BY <1>2
  <2>2. [clip[v] EXCEPT !.status = "READY"] \in ClipRows /\ [clip[v] EXCEPT !.status = "READY"].status = "READY"
    BY <2>1 DEF ClipRows
  <2>3. clip' = [clip EXCEPT ![v] = [clip[v] EXCEPT !.status = "READY"]]
    BY <1>1, <1>2
  <2>4. clip'[v].status = "READY" /\ \A w : w # v => clip'[w] = clip[w]
    BY <1>2, <2>2, <2>3
  <2> QED
    BY <1>2, <2>2, <2>3, <2>4
<1>5. Timed /\ ~Recounting(p)
  BY <1>1, LongIsTimed DEF Recounting
<1> QED
  BY <1>1, <1>2, <1>3, <1>4, <1>5, QuietWrite

LEMMA AttachKeepsInv ==
  ASSUME ContentInv, NEW p \in Calls, attach(p)
  PROVE  ContentInv'
<1> DEFINE written == Footprint(call[p])
           l == call[p].who[1]
           v == call[p].who[2]
           has == clip[v].status \in {"READY", "ARCHIVED"}
           c == IF has THEN [op |-> "recount", saw |-> "none", who |-> "none"] ELSE Idle
<1>1. /\ call[p].op = "attach" /\ Writes(p, written) /\ links' = links \cup {<<l, v>>}
      /\ UNCHANGED <<section, clip, playing, counters>>
      /\ propagateDurationToAttachedLessons(p, v, LinkedTo(v) \cup {l})
  BY DEF attach, At
<1>2. /\ call' = [call EXCEPT ![p] = c]
      /\ IF has THEN lecture' = [k \in Lectures |-> IF k \in LinkedTo(v) \cup {l}
                                                   THEN [lecture[k] EXCEPT !.long = 1] ELSE lecture[k]]
                ELSE UNCHANGED lecture
  <2>1. CASE has
    BY <1>1, <2>1 DEF propagateDurationToAttachedLessons, Go
  <2>2. CASE ~has
    BY <1>1, <2>2 DEF propagateDurationToAttachedLessons, End
  <2> QED
    BY <2>1, <2>2
<1>3. IF has THEN c.op = "recount" ELSE c.op = "idle"
  BY DEF Idle
<1>4. l \in Lectures /\ v \in Clips /\ clip \in [Clips -> ClipRows] /\ links \subseteq Lectures \X Clips
  BY <1>1 DEF ContentInv, ContentTypes, CallTyped
<1> HIDE DEF c, written, has
<1>5. Timed
  <2>1. CASE has
    BY <1>2, <2>1, LongIsTimed
  <2>2. CASE ~has
    BY <1>2, <2>2, SameIsTimed
  <2> QED
    BY <2>1, <2>2
<1>6. ~Recounting(p) /\ links' \subseteq Lectures \X Clips /\ c.op \in {"recount", "idle"}
      /\ (c.op = "idle" => UNCHANGED lecture)
  BY <1>1, <1>2, <1>3, <1>4 DEF Recounting
<1> QED
  BY <1>1, <1>2, <1>4, <1>5, <1>6, QuietWrite

LEMMA RemoveVideoKeepsInv ==
  ASSUME ContentInv, NEW p \in Calls, removeVideo(p)
  PROVE  ContentInv'
<1> DEFINE c == [op |-> "recount", saw |-> "none", who |-> "none"]
           written == Footprint(call[p])
           v == call[p].who[2]
<1>1. /\ call[p].op = "removeVideo" /\ Writes(p, written) /\ call' = [call EXCEPT ![p] = c]
      /\ clip' = [clip EXCEPT ![v].status = "ARCHIVED", ![v].gone = TRUE]
      /\ playing' = {t \in playing : t[2] # v} /\ lecture' = Cleared(v, LinkedTo(v))
      /\ UNCHANGED links
  BY DEF removeVideo, ThenRecount, Go, At
<1>2. v \in written /\ clip \in [Clips -> ClipRows] /\ links \subseteq Lectures \X Clips
  BY <1>1, FootprintOf DEF ContentInv, ContentTypes
<1>3. c.op = "recount"
  OBVIOUS
<1> HIDE DEF c, written
<1>4. clip' \in [Clips -> ClipRows] /\ \A w : w # v => clip'[w] = clip[w]
  <2>1. CASE v \in Clips
    <3>1. [clip[v] EXCEPT !.status = "ARCHIVED", !.gone = TRUE] \in ClipRows
      BY <1>2, <2>1 DEF ClipRows
    <3>2. clip' = [clip EXCEPT ![v] = [clip[v] EXCEPT !.status = "ARCHIVED", !.gone = TRUE]]
      BY <1>1, <1>2, <2>1
    <3> QED
      BY <1>2, <2>1, <3>1, <3>2
  <2>2. CASE v \notin Clips
    <3>1. clip' = clip
      BY <1>1, <1>2, <2>2
    <3> QED
      BY <1>2, <3>1
  <2> QED
    BY <2>1, <2>2
<1>5. Timed /\ ~Recounting(p)
  BY <1>1, ClearedIsTimed DEF Recounting
<1>6. \A w \in Clips : clip[w].status # "ARCHIVED" /\ w \notin written => clip'[w].status # "ARCHIVED"
  BY <1>2, <1>4
<1>7. \A t \in playing' : clip[t[2]].status # "ARCHIVED" => clip'[t[2]].status # "ARCHIVED"
  BY <1>1, <1>4
<1> QED
  BY <1>1, <1>2, <1>3, <1>4, <1>5, <1>6, <1>7, QuietWrite

\* The ticket goes with the attachment, and nobody else's does.
LEMMA DetachKeepsInv ==
  ASSUME ContentInv, NEW p \in Calls, detachFromLesson(p)
  PROVE  ContentInv'
<1> DEFINE c == [op |-> "recount", saw |-> "none", who |-> "none"]
           written == Footprint(call[p])
           l == call[p].who[1]
           v == call[p].who[2]
           owner == IF call[p].saw = l THEN "none" ELSE clip[v].owner
<1>1. /\ call[p].op = "detach" /\ Writes(p, written) /\ call' = [call EXCEPT ![p] = c]
      /\ links' = links \ {<<l, v>>} /\ playing' = playing \ {<<l, v>>}
      /\ clip' = [clip EXCEPT ![v].owner = owner]
      /\ lecture' = Cleared(v, {l})
  BY DEF detachFromLesson, ThenRecount, Go, At
<1>2. l \in written /\ clip \in [Clips -> ClipRows] /\ links \subseteq Lectures \X Clips
  BY <1>1, FootprintOf DEF ContentInv, ContentTypes
<1>3. c.op = "recount"
  OBVIOUS
<1>4. v \in Clips => clip[v] \in ClipRows /\ owner \in Lectures \cup {"none"}
  BY <1>2 DEF ClipRows
<1> HIDE DEF c, written, owner
<1>5. clip' \in [Clips -> ClipRows] /\ \A w \in Clips : clip'[w].status = clip[w].status
  <2>1. CASE v \in Clips
    <3>1. /\ [clip[v] EXCEPT !.owner = owner] \in ClipRows
          /\ [clip[v] EXCEPT !.owner = owner].status = clip[v].status
      BY <1>4, <2>1 DEF ClipRows
    <3>2. clip' = [clip EXCEPT ![v] = [clip[v] EXCEPT !.owner = owner]]
      BY <1>1, <1>2, <2>1
    <3> QED
      BY <1>2, <2>1, <3>1, <3>2
  <2>2. CASE v \notin Clips
    <3>1. clip' = clip
      BY <1>1, <1>2, <2>2
    <3> QED
      BY <1>2, <3>1
  <2> QED
    BY <2>1, <2>2
<1>6. Timed
  BY <1>1, ClearedIsTimed
<1>7. Local(written)
  <2>1. ASSUME NEW a \in links, a[1] \notin written
        PROVE  a \in links' /\ (clip[a[2]].status # "ARCHIVED" => clip'[a[2]].status # "ARCHIVED")
    <3>1. a = <<a[1], a[2]>> /\ a[2] \in Clips /\ a[1] # l
      BY <1>2, <2>1
    <3>2. a # <<l, v>>
      BY <3>1
    <3> QED
      BY <1>1, <1>5, <3>1, <3>2
  <2> QED
    BY <1>6, <2>1 DEF Local, Timed
<1>8. ASSUME ~crossed' PROVE TicketsHeld'
  <2>1. ~crossed /\ \A q \in Calls \ {p} : call'[q] = call[q]
    BY <1>1, <1>8, OneCall DEF Writes, ContentInv, ContentTypes
  <2>2. ASSUME NEW t \in playing'
        PROVE  /\ t \in links' /\ clip'[t[2]].status # "ARCHIVED"
               /\ \/ Open(lecture'[t[1]])
                  \/ /\ t \in playing /\ (Open(lecture[t[1]]) => Revoking(p, t[1])')
                     /\ ~Revoking(p, t[1])
    <3>1. t \in playing /\ t # <<l, v>>
      BY <1>1
    <3>2. t \in links /\ t[1] \in Lectures /\ t[2] \in Clips /\ clip[t[2]].status # "ARCHIVED"
      BY <2>1, <3>1, TicketFacts
    <3>3. Open(lecture[t[1]]) => Open(lecture'[t[1]])
      BY <1>6, <3>2 DEF Timed, Open
    <3> QED
      BY <1>1, <1>5, <3>1, <3>2, <3>3 DEF Revoking
  <2> QED
    BY <2>1, <2>2, TicketsKept
<1>9. lecture' \in [Lectures -> LectureRows] /\ links' \subseteq Lectures \X Clips
  BY <1>1, <1>2, <1>6 DEF Timed
<1> QED
  BY <1>1, <1>3, <1>5, <1>7, <1>8, <1>9, WriteKeepsInv

\* What a student was let in to see is still to be seen.
LEMMA TicketKeepsInv ==
  ASSUME ContentInv, NEW p \in Calls, issueTicket(p)
  PROVE  ContentInv'
<1> DEFINE written == Footprint(call[p])
           t0 == call[p].who
<1>1. /\ call[p].op = "ticket" /\ Writes(p, written) /\ call' = [call EXCEPT ![p] = Idle]
      /\ playing' = playing \cup {t0}
      /\ UNCHANGED <<section, lecture, clip, links, counters>>
  BY DEF issueTicket, At, End
<1>2. Idle.op = "idle" /\ ~Recounting(p)
  BY <1>1 DEF Idle, Recounting
<1> HIDE DEF written
<1>3. Local(written)
  BY <1>1 DEF Local
<1>4. /\ lecture' \in [Lectures -> LectureRows] /\ clip' \in [Clips -> ClipRows]
      /\ links' \subseteq Lectures \X Clips
  BY <1>1 DEF ContentInv, ContentTypes
<1>5. ASSUME ~crossed' PROVE TicketsHeld'
  <2>1. ~crossed /\ \A q \in Calls \ {p} : call'[q] = call[q]
    BY <1>1, <1>5, OneCall DEF Writes, ContentInv, ContentTypes
  <2>2. ReadingHolds(p)
    BY <2>1 DEF ContentInv
  <2>3. ASSUME NEW t \in playing'
        PROVE  /\ t \in links' /\ clip'[t[2]].status # "ARCHIVED"
               /\ \/ Open(lecture'[t[1]])
                  \/ /\ t \in playing /\ (Open(lecture[t[1]]) => Revoking(p, t[1])')
                     /\ ~Revoking(p, t[1])
    <3>1. CASE t = t0
      BY <1>1, <2>2, <3>1 DEF ReadingHolds
    <3>2. CASE t \in playing
      <4>1. t \in links /\ clip[t[2]].status # "ARCHIVED"
        BY <2>1, <3>2, TicketFacts
      <4> QED
        BY <1>1, <3>2, <4>1 DEF Revoking
    <3> QED
      BY <1>1, <3>1, <3>2
  <2> QED
    BY <2>1, <2>3, TicketsKept
<1> QED
  BY <1>1, <1>2, <1>3, <1>4, <1>5, WriteKeepsInv

-----------------------------------------------------------------------------
\* A handler begins.
LEMMA BeginKeepsInv ==
  ASSUME ContentInv, NEW p \in Calls, ContentBegins(p)
  PROVE  ContentInv'
<1>1. ASSUME NEW op, NEW saw, NEW who, Reads(p, op, saw, who),
             op \notin {"store", "recount", "revoke"},
             op \in {"createLecture", "updateLecture", "removeLecture"} => who \in Lectures,
             op \in {"upload", "attach", "ticket"} => who \in Lectures \X Clips,
             op = "ticket" => who \in links /\ clip[who[2]].status # "ARCHIVED" /\ Open(lecture[who[1]]),
             op = "updateLecture" => saw = lecture[who].status,
             op = "createLecture" => lecture[who].status = "NONE"
      PROVE  ContentInv'
  <2>1. call'[p] = [op |-> op, saw |-> saw, who |-> who]
    BY <1>1, OneCall DEF ContentInv, ContentTypes, Reads, Go
  <2>2. call'[p].op = op /\ call'[p].saw = saw /\ call'[p].who = who
    BY <2>1
  <2>3. UNCHANGED <<section, lecture, clip, links, playing, counters, crossed>>
    BY <1>1 DEF Reads, contentVars
  <2>4. CallTyped(p)'
    BY <1>1, <2>2 DEF CallTyped
  <2>5. ReadingHolds(p)'
    BY <1>1, <2>2, <2>3 DEF ReadingHolds, Open
  <2> QED
    BY <1>1, <2>4, <2>5, ReadKeepsInv
<1>2. CASE \E s \in Sections : createSection(p, s) \/ BeginUpdateSection(p, s) \/ BeginRemoveSection(p, s)
  <2>1. PICK s \in Sections : createSection(p, s) \/ BeginUpdateSection(p, s) \/ BeginRemoveSection(p, s)
    BY <1>2
  <2>2. CASE createSection(p, s)
    BY <2>2, SectionWriteKeepsInv
  <2>3. CASE BeginUpdateSection(p, s)
    BY <1>1, <2>3 DEF BeginUpdateSection
  <2>4. CASE BeginRemoveSection(p, s)
    BY <1>1, <2>4 DEF BeginRemoveSection
  <2> QED
    BY <2>1, <2>2, <2>3, <2>4
<1>3. CASE \E l \in Lectures : BeginCreateLecture(p, l) \/ BeginUpdateLecture(p, l) \/ BeginRemoveLecture(p, l)
  <2>1. PICK l \in Lectures : BeginCreateLecture(p, l) \/ BeginUpdateLecture(p, l) \/ BeginRemoveLecture(p, l)
    BY <1>3
  <2>2. CASE BeginCreateLecture(p, l)
    BY <1>1, <2>2 DEF BeginCreateLecture
  <2>3. CASE BeginUpdateLecture(p, l)
    BY <1>1, <2>3 DEF BeginUpdateLecture
  <2>4. CASE BeginRemoveLecture(p, l)
    BY <1>1, <2>4 DEF BeginRemoveLecture
  <2> QED
    BY <2>1, <2>2, <2>3, <2>4
<1>4. CASE \E v \in Clips : markReady(p, v) \/ BeginRemoveVideo(p, v) \/ BeginDetach(p, v)
  <2>1. PICK v \in Clips : markReady(p, v) \/ BeginRemoveVideo(p, v) \/ BeginDetach(p, v)
    BY <1>4
  <2>2. CASE markReady(p, v)
    BY <2>2, ReadyKeepsInv
  <2>3. CASE BeginRemoveVideo(p, v)
    <3>1. PICK l : Reads(p, IF LiveLinks(v) \ {l} # {} THEN "detach" ELSE "removeVideo", clip[v].owner, <<l, v>>)
      BY <2>3 DEF BeginRemoveVideo
    <3>2. CASE LiveLinks(v) \ {l} # {}
      BY <1>1, <3>1, <3>2
    <3>3. CASE ~(LiveLinks(v) \ {l} # {})
      BY <1>1, <3>1, <3>3
    <3> QED
      BY <3>2, <3>3
  <2>4. CASE BeginDetach(p, v)
    BY <1>1, <2>4 DEF BeginDetach
  <2> QED
    BY <2>1, <2>2, <2>3, <2>4
<1>5. CASE \E l \in Lectures, v \in Clips : BeginUpload(p, l, v) \/ BeginAttach(p, l, v) \/ BeginTicket(p, l, v)
  <2>1. PICK l \in Lectures, v \in Clips : BeginUpload(p, l, v) \/ BeginAttach(p, l, v) \/ BeginTicket(p, l, v)
    BY <1>5
  <2>2. <<l, v>> \in Lectures \X Clips /\ <<l, v>>[1] = l /\ <<l, v>>[2] = v
    OBVIOUS
  <2>3. CASE BeginUpload(p, l, v)
    BY <1>1, <2>2, <2>3 DEF BeginUpload
  <2>4. CASE BeginAttach(p, l, v)
    BY <1>1, <2>2, <2>4 DEF BeginAttach
  <2>5. CASE BeginTicket(p, l, v)
    BY <1>1, <2>2, <2>5 DEF BeginTicket
  <2> QED
    BY <2>1, <2>3, <2>4, <2>5
<1> QED
  BY <1>2, <1>3, <1>4, <1>5 DEF ContentBegins

\* Every step on the tree keeps the invariant.
LEMMA ContentStep ==
  ASSUME ContentInv, [ContentNext]_<<call, contentVars>>
  PROVE  ContentInv'
<1>1. ASSUME NEW p \in Calls, ContentWrites(p) PROVE ContentInv'
  BY <1>1, RecountKeepsInv, SectionWriteKeepsInv, RemoveSectionKeepsInv, CreateLectureKeepsInv,
     UpdateLectureKeepsInv, RevokeTicketsKeepsInv, RemoveLectureKeepsInv, UploadKeepsInv, AttachKeepsInv,
     RemoveVideoKeepsInv, DetachKeepsInv, TicketKeepsInv
     DEF ContentWrites
<1>2. CASE UNCHANGED <<call, contentVars>>
  <2>1. UNCHANGED <<call, section, lecture, clip, links, playing, counters, crossed>>
    BY <1>2 DEF contentVars
  <2>2. Counted' = Counted
    BY <2>1 DEF Counted, Open
  <2>3. ContentTypes'
    BY <2>1 DEF ContentInv, ContentTypes, CallTyped
  <2>4. ~crossed' => TicketsHeld'
    BY <2>1 DEF ContentInv, TicketsHeld, Revoking, Open
  <2>5. ~crossed' => CountersHold'
    BY <2>1, <2>2 DEF ContentInv, CountersHold, Recounting
  <2>6. ~crossed' => \A q \in Calls : ReadingHolds(q)'
    BY <2>1, <2>2 DEF ContentInv, ReadingHolds, Open
  <2> QED
    BY <2>3, <2>4, <2>5, <2>6 DEF ContentInv
<1> QED
  BY <1>1, <1>2, BeginKeepsInv DEF ContentNext

\* An empty tree has nothing to count and nothing to play.
LEMMA ContentInitInv == HandlersInit /\ ContentInit => ContentInv
<1> SUFFICES ASSUME HandlersInit, ContentInit PROVE ContentInv
  OBVIOUS
<1>1. /\ call = [q \in Calls |-> Idle] /\ section = [s \in Sections |-> Row("NONE")]
      /\ lecture = [l \in Lectures |-> [status |-> "NONE", gone |-> FALSE, long |-> 0]]
      /\ clip = [v \in Clips |-> [status |-> "NONE", gone |-> FALSE, owner |-> "none"]]
      /\ links = {} /\ playing = {} /\ counters = Zeroes /\ crossed = FALSE
  BY DEF HandlersInit, ContentInit
<1>2. \A q \in Calls : call[q].op = "idle"
  BY <1>1 DEF Idle
<1>3. ContentTypes
  BY <1>1, <1>2 DEF ContentTypes, LectureRows, ClipRows, CallTyped
<1>4. {s \in Sections : Open(section[s])} = {} /\ {l \in Lectures : Open(lecture[l])} = {}
  BY <1>1 DEF Open, Row
<1>5. counters = Counted
  BY <1>1, <1>4, FS_EmptySet, SumOfNone DEF Counted, Zeroes
<1>6. TicketsHeld /\ CountersHold /\ \A q \in Calls : ReadingHolds(q)
  BY <1>1, <1>2, <1>5 DEF TicketsHeld, CountersHold, ReadingHolds
<1> QED
  BY <1>3, <1>6 DEF ContentInv

\* For any number of sections, lectures, videos and handlers: while nobody crossed, a ticket
\* plays a published lecture its video is attached to and the counters are those of the
\* published content (update, remove, detachFromLesson, recountCourse).
THEOREM ContentIsInOrder == ContentSpec => []ContentInOrder
<1>1. ContentInv /\ [ContentNext]_<<call, contentVars>> => ContentInv'
  BY ContentStep
<1>2. ContentInv => ContentInOrder
  <2> SUFFICES ASSUME ContentInv, ~crossed, \A q \in Calls : call[q].op = "idle"
               PROVE  /\ \A t \in playing : Open(lecture[t[1]]) /\ t \in links /\ clip[t[2]].status # "ARCHIVED"
                      /\ counters = Counted
    BY DEF ContentInOrder, Settled, Free, At
  <2> QED
    BY DEF ContentInv, TicketsHeld, CountersHold, Revoking, Recounting
<1> QED
  BY <1>1, <1>2, ContentInitInv, PTL DEF ContentSpec

-----------------------------------------------------------------------------
\* Whoever comes earlier when the largest remainders are served first.
Earlier(qs, w, q) == {r \in qs : w[r] > w[q] \/ (w[r] = w[q] /\ r < q)}

\* The first k in that order.
First(qs, w, k) == {q \in qs : Cardinality(Earlier(qs, w, q)) < k}

\* alloc gives each the quotient, and one more to the first `left` in that order.
Serves(alloc, qs, fl, w, left) ==
  /\ IsFiniteSet(qs) /\ qs \subseteq Int
  /\ left \in 0..Cardinality(qs)
  /\ \A q \in qs : fl[q] \in Int /\ w[q] \in Int
  /\ \A q \in qs : alloc[q] = fl[q] + IF Cardinality(Earlier(qs, w, q)) < left THEN 1 ELSE 0

\* The places in that order are 0, 1, 2, ..., one for each.
LEMMA EarlierAreFewer ==
  ASSUME NEW qs, IsFiniteSet(qs), qs \subseteq Int, NEW w, \A q \in qs : w[q] \in Int,
         NEW q \in qs, NEW r \in Earlier(qs, w, q)
  PROVE  Cardinality(Earlier(qs, w, r)) < Cardinality(Earlier(qs, w, q))
<1>1. Earlier(qs, w, q) \in SUBSET qs /\ r \in qs /\ r \in Int /\ q \in Int
  BY DEF Earlier
<1>2. Earlier(qs, w, r) \in SUBSET Earlier(qs, w, q)
  <2> SUFFICES ASSUME NEW s \in Earlier(qs, w, r) PROVE s \in Earlier(qs, w, q)
    OBVIOUS
  <2>1. s \in qs /\ s \in Int /\ w[s] \in Int /\ w[r] \in Int /\ w[q] \in Int
    BY <1>1 DEF Earlier
  <2> QED
    BY <1>1, <2>1 DEF Earlier
<1>3. r \notin Earlier(qs, w, r)
  BY <1>1 DEF Earlier
<1>4. IsFiniteSet(Earlier(qs, w, q)) /\ IsFiniteSet(Earlier(qs, w, r))
  BY <1>1, <1>2, FS_Subset
<1>5. Earlier(qs, w, r) # Earlier(qs, w, q)
  BY <1>3
<1>6. /\ Cardinality(Earlier(qs, w, q)) \in Nat /\ Cardinality(Earlier(qs, w, r)) \in Nat
      /\ Cardinality(Earlier(qs, w, r)) <= Cardinality(Earlier(qs, w, q))
      /\ Cardinality(Earlier(qs, w, r)) # Cardinality(Earlier(qs, w, q))
  BY <1>2, <1>4, <1>5, FS_Subset, FS_CardinalityType
<1> QED
  BY <1>6

\* There are n numbers below n.
LEMMA UpTo == ASSUME NEW n \in Nat PROVE IsFiniteSet(0..(n - 1)) /\ Cardinality(0..(n - 1)) = n
<1>1. 0 \in Int /\ n - 1 \in Int
  OBVIOUS
<1>2. /\ IsFiniteSet(0..(n - 1))
      /\ Cardinality(0..(n - 1)) = IF 0 > n - 1 THEN 0 ELSE (n - 1) - 0 + 1
  BY <1>1, FS_Interval
<1> QED
  BY <1>2

\* So the first k are k in number.
LEMMA PlacesAreTaken ==
  ASSUME NEW qs, IsFiniteSet(qs), qs \subseteq Int, NEW w, \A q \in qs : w[q] \in Int,
         NEW k \in 0..Cardinality(qs)
  PROVE  IsFiniteSet(First(qs, w, k)) /\ Cardinality(First(qs, w, k)) = k
<1> DEFINE n == Cardinality(qs)
           place == [q \in qs |-> Cardinality(Earlier(qs, w, q))]
           places == 0..(n - 1)
           first == First(qs, w, k)
<1>0. first = {q \in qs : Cardinality(Earlier(qs, w, q)) < k}
  BY DEF First
<1> HIDE DEF first
<1>1. n \in Nat
  BY FS_CardinalityType
<1>2. ASSUME NEW q \in qs PROVE Cardinality(Earlier(qs, w, q)) \in places
  <2>1. Earlier(qs, w, q) \in SUBSET (qs \ {q})
    BY DEF Earlier
  <2>2. IsFiniteSet(qs \ {q}) /\ Cardinality(qs \ {q}) = n - 1
    BY FS_RemoveElement
  <2>3. /\ Cardinality(Earlier(qs, w, q)) <= n - 1
        /\ IsFiniteSet(Earlier(qs, w, q))
    BY <2>1, <2>2, FS_Subset
  <2>4. Cardinality(Earlier(qs, w, q)) \in Nat
    BY <2>3, FS_CardinalityType
  <2> QED
    BY <1>1, <2>3, <2>4
<1>3. place \in Injection(qs, places)
  <2>1. place \in [qs -> places]
    BY <1>2
  <2>2. ASSUME NEW a \in qs, NEW b \in qs, place[a] = place[b] PROVE a = b
    <3>1. a \notin Earlier(qs, w, b) /\ b \notin Earlier(qs, w, a)
      <4>1. /\ Cardinality(Earlier(qs, w, a)) \in Nat /\ Cardinality(Earlier(qs, w, b)) \in Nat
            /\ Cardinality(Earlier(qs, w, a)) = Cardinality(Earlier(qs, w, b))
        BY <1>1, <1>2, <2>2
      <4>2. ASSUME a \in Earlier(qs, w, b) PROVE FALSE
        <5>1. Cardinality(Earlier(qs, w, a)) < Cardinality(Earlier(qs, w, b))
          BY <4>2, EarlierAreFewer
        <5> QED
          BY <4>1, <5>1
      <4>3. ASSUME b \in Earlier(qs, w, a) PROVE FALSE
        <5>1. Cardinality(Earlier(qs, w, b)) < Cardinality(Earlier(qs, w, a))
          BY <4>3, EarlierAreFewer
        <5> QED
          BY <4>1, <5>1
      <4> QED
        BY <4>2, <4>3
    <3>2. a \in Int /\ b \in Int /\ w[a] \in Int /\ w[b] \in Int
      OBVIOUS
    <3> QED
      BY <3>1, <3>2 DEF Earlier
  <2> QED
    BY <2>1, <2>2 DEF Injection, IsInjective
<1>4. IsFiniteSet(places) /\ Cardinality(places) = n
  BY <1>1, UpTo
<1>5. place \in Surjection(qs, places)
  <2> HIDE DEF place, places
  <2> QED
    BY <1>3, <1>4, FS_Injection
<1>6. IsFiniteSet(first)
  BY <1>0, FS_Subset
<1>7. k \in Nat /\ IsFiniteSet(0..(k - 1)) /\ Cardinality(0..(k - 1)) = k
  <2>1. k \in Nat
    BY <1>1
  <2> QED
    BY <2>1, UpTo
<1> DEFINE part0 == [q \in first |-> Cardinality(Earlier(qs, w, q))]
<1>8. part0 \in Bijection(first, 0..(k - 1))
  <2>1. part0 \in [first -> 0..(k - 1)]
    <3> SUFFICES ASSUME NEW q \in first PROVE Cardinality(Earlier(qs, w, q)) \in 0..(k - 1)
      OBVIOUS
    <3>1. Cardinality(Earlier(qs, w, q)) \in places /\ Cardinality(Earlier(qs, w, q)) < k
      BY <1>0, <1>2
    <3> QED
      BY <1>1, <1>7, <3>1
  <2>2. IsInjective(part0)
    BY <1>0, <1>3 DEF Injection, IsInjective
  <2>3. \A t \in 0..(k - 1) : \E q \in first : part0[q] = t
    <3> SUFFICES ASSUME NEW t \in 0..(k - 1) PROVE \E q \in first : part0[q] = t
      OBVIOUS
    <3>1. t \in places /\ t < k
      BY <1>1
    <3>2. PICK q \in qs : place[q] = t
      BY <1>5, <3>1 DEF Surjection
    <3> QED
      BY <1>0, <3>1, <3>2
  <2> QED
    BY <2>1, <2>2, <2>3 DEF Bijection, Injection, Surjection
<1>9. ExistsBijection(first, 0..(k - 1))
  BY <1>8 DEF ExistsBijection
<1> QED
  BY <1>6, <1>7, <1>9, FS_Bijection DEF first

-----------------------------------------------------------------------------
PartRows == [live : BOOLEAN, used : BOOLEAN, active : BOOLEAN, model : Models, share : Nat]

\* The parts of a course are finitely many.
LEMMA ActiveParts ==
  ASSUME NEW table PROVE IsFiniteSet(Parts) /\ Active(table) \in SUBSET Parts /\ IsFiniteSet(Active(table))
<1>1. 1 \in Int /\ MaxParts \in Int /\ Active(table) \in SUBSET Parts
  BY PartAssumption DEF Active
<1>2. IsFiniteSet(1..MaxParts)
  BY <1>1, FS_Interval
<1> QED
  BY <1>1, <1>2, FS_Subset DEF Parts

\* The largest remainders: the quotients of numbers that sum to 10000 * amount fall short of
\* amount by at most one for each, and one more for each of the first in that order makes it up.
LEMMA RemaindersMakeUp ==
  ASSUME NEW qs, IsFiniteSet(qs), NEW amount \in Int, NEW prod, NEW whole, NEW fl, NEW w,
         \A q \in qs : fl[q] \in Int /\ whole[q] = 10000 * fl[q],
         \A q \in qs : whole[q] \in Int /\ w[q] \in Int /\ prod[q] = whole[q] + w[q],
         Between(w, qs, 9999),
         SumFunctionOnSet(prod, qs) = amount * 10000
  PROVE  /\ SumFunctionOnSet(fl, qs) \in Int
         /\ amount - SumFunctionOnSet(fl, qs) \in 0..Cardinality(qs)
<1> DEFINE fsum == SumFunctionOnSet(fl, qs)
           wsum == SumFunctionOnSet(w, qs)
           hsum == SumFunctionOnSet(whole, qs)
           n == Cardinality(qs)
<1>1. n \in Nat
  BY FS_CardinalityType
<1>2. fsum \in Int
  BY SumType
<1>3. wsum \in Int
  <2>1. \A q \in qs : w[q] \in Int
    BY DEF Between
  <2> QED
    BY <2>1, SumType
<1>4. 0 <= wsum /\ wsum <= 9999 * n
  <2>1. 9999 \in Int
    OBVIOUS
  <2> QED
    BY <2>1, SumBounds
<1>5. hsum = 10000 * fsum
  BY SumTimes, SMTT(30)
<1>6. amount * 10000 = hsum + wsum
  BY SumOfSums, SMTT(30)
<1> HIDE DEF fsum, wsum, hsum, n
<1>7. amount - fsum >= 0 /\ amount - fsum <= n
  BY <1>1, <1>2, <1>3, <1>4, <1>5, <1>6
<1> QED
  BY <1>1, <1>2, <1>7 DEF fsum, n

\* So what is given out is the whole amount.
LEMMA LargestRemainders ==
  ASSUME NEW alloc, NEW qs, NEW fl, NEW w, NEW left, Serves(alloc, qs, fl, w, left)
  PROVE  /\ \A q \in qs : alloc[q] \in Int
         /\ SumFunctionOnSet(alloc, qs) = SumFunctionOnSet(fl, qs) + left
<1> DEFINE first == First(qs, w, left)
           bonus == [q \in qs |-> IF Cardinality(Earlier(qs, w, q)) < left THEN 1 ELSE 0]
           fsum == SumFunctionOnSet(fl, qs)
           bsum == SumFunctionOnSet(bonus, qs)
<1>0. /\ IsFiniteSet(qs) /\ qs \subseteq Int /\ left \in 0..Cardinality(qs)
      /\ \A q \in qs : fl[q] \in Int
      /\ \A q \in qs : w[q] \in Int
      /\ \A q \in qs : alloc[q] = fl[q] + IF Cardinality(Earlier(qs, w, q)) < left THEN 1 ELSE 0
  BY DEF Serves
<1>1. IsFiniteSet(first) /\ Cardinality(first) = left
  BY <1>0, PlacesAreTaken
<1>2. /\ first \in SUBSET qs
      /\ \A q \in qs : bonus[q] \in Int
      /\ \A q \in qs \ first : bonus[q] = 0
      /\ \A q \in first : bonus[q] = 1
  BY DEF First
<1>3. /\ \A q \in qs : alloc[q] \in Int
      /\ \A q \in qs : fl[q] \in Int /\ bonus[q] \in Int /\ alloc[q] = fl[q] + bonus[q]
  BY <1>0
<1> HIDE DEF first, bonus
<1>4. bsum = SumFunctionOnSet(bonus, first)
  BY <1>0, <1>2, SumOutside
<1>5. SumFunctionOnSet(bonus, first) = Cardinality(first)
  BY <1>1, <1>2, SumOfOnes
<1>6. SumFunctionOnSet(alloc, qs) = fsum + bsum
  BY <1>0, <1>3, SumOfSums
<1>7. fsum \in Int
  BY <1>0, SumType
<1>8. left \in Int
  BY <1>0, FS_CardinalityType
<1> HIDE DEF fsum, bsum
<1> QED
  BY <1>1, <1>3, <1>4, <1>5, <1>6, <1>7, <1>8 DEF fsum

\* allocateByPercentage, for shares that make 100%.
LEMMA PercentagesAddUp ==
  ASSUME NEW table \in [Parts -> PartRows], NEW amount \in Nat,
         Shares(table, Active(table)) = 10000
  PROVE  /\ \A q \in Active(table) : allocateByPercentage(table, amount)[q] \in Int
         /\ SumFunctionOnSet(allocateByPercentage(table, amount), Active(table)) = amount
<1> DEFINE qs == Active(table)
           alloc == allocateByPercentage(table, amount)
           sh == [q \in qs |-> table[q].share]
           prod == [q \in qs |-> amount * ShareOf(table, q)]
           fl == [q \in qs |-> (amount * ShareOf(table, q)) \div 10000]
           w == [q \in qs |-> (amount * ShareOf(table, q)) % 10000]
           whole == [q \in qs |-> 10000 * ((amount * ShareOf(table, q)) \div 10000)]
           left == amount - SumFunctionOnSet(fl, qs)
<1>1. IsFiniteSet(qs) /\ qs \subseteq Parts
  BY ActiveParts
<1>2. qs \subseteq Int
  BY <1>1, PartAssumption DEF Parts
<1>3. ASSUME NEW q \in qs
      PROVE  sh[q] \in Int /\ prod[q] \in Int /\ prod[q] = amount * sh[q]
  <2>1. table[q].share \in Nat /\ ShareOf(table, q) = table[q].share
    BY <1>1 DEF PartRows, ShareOf
  <2> QED
    BY <2>1
<1>4. ASSUME NEW q \in qs
      PROVE  /\ fl[q] \in Int /\ whole[q] \in Int /\ w[q] \in Int
             /\ whole[q] = 10000 * fl[q] /\ prod[q] = whole[q] + w[q] /\ 0 <= w[q] /\ w[q] <= 9999
  <2> DEFINE x == prod[q]
  <2>1. fl[q] = x \div 10000 /\ w[q] = x % 10000 /\ whole[q] = 10000 * (x \div 10000)
    OBVIOUS
  <2>2. x \in Int
    BY <1>3
  <2> HIDE DEF x, prod, fl, w, whole
  <2>3. /\ x \div 10000 \in Int /\ x = (10000 * (x \div 10000)) + (x % 10000)
        /\ x % 10000 \in Int /\ 0 <= x % 10000 /\ x % 10000 < 10000
    BY <2>2, DivFacts
  <2>4. /\ fl[q] \in Int /\ whole[q] \in Int /\ w[q] \in Int
        /\ whole[q] = 10000 * fl[q] /\ x = whole[q] + w[q] /\ 0 <= w[q] /\ w[q] <= 9999
    BY <2>1, <2>3
  <2> QED
    BY <2>4 DEF x
<1>5. SumFunctionOnSet(sh, qs) = 10000
  BY DEF Shares, SumFunction
<1>6. \A q \in qs : alloc[q] = fl[q] + IF Cardinality(Earlier(qs, w, q)) < left THEN 1 ELSE 0
  <2> SUFFICES ASSUME NEW q \in qs
               PROVE  alloc[q] = fl[q] + IF Cardinality(Earlier(qs, w, q)) < left THEN 1 ELSE 0
    OBVIOUS
  <2> DEFINE before == {r \in Active(table) :
                          \/ (amount * ShareOf(table, r)) % 10000 > (amount * ShareOf(table, q)) % 10000
                          \/ /\ (amount * ShareOf(table, r)) % 10000 = (amount * ShareOf(table, q)) % 10000
                             /\ r < q}
             lo == amount - SumFunction([r \in Active(table) |-> (amount * ShareOf(table, r)) \div 10000])
  <2>1. alloc[q] = (amount * ShareOf(table, q)) \div 10000 + IF Cardinality(before) < lo THEN 1 ELSE 0
    BY DEF allocateByPercentage
  <2>2. left = lo
    BY DEF SumFunction
  <2>3. before = Earlier(qs, w, q)
    BY DEF Earlier
  <2>4. fl[q] = (amount * ShareOf(table, q)) \div 10000
    OBVIOUS
  <2> HIDE DEF before, lo, left, w, fl, alloc
  <2> QED
    BY <2>1, <2>2, <2>3, <2>4
<1>7. SumFunctionOnSet(prod, qs) = amount * 10000
  <2> HIDE DEF sh, prod, qs
  <2>1. SumFunctionOnSet(prod, qs) = amount * SumFunctionOnSet(sh, qs)
    BY <1>1, <1>3, SumTimes
  <2> QED
    BY <1>5, <2>1
<1>8. left = amount - SumFunctionOnSet(fl, qs) /\ amount \in Int
  OBVIOUS
<1>9. /\ \A q \in qs : fl[q] \in Int /\ whole[q] = 10000 * fl[q]
      /\ \A q \in qs : whole[q] \in Int /\ w[q] \in Int /\ prod[q] = whole[q] + w[q]
      /\ \A q \in qs : w[q] \in Int /\ 0 <= w[q] /\ w[q] <= 9999
      /\ \A q \in qs : fl[q] \in Int
      /\ \A q \in qs : w[q] \in Int
  <2> HIDE DEF qs, fl, w, whole, prod
  <2> QED
    BY <1>4
<1> HIDE DEF qs, alloc, prod, fl, w, whole, left
<1>10. left \in 0..Cardinality(qs)
  <2>1. Between(w, qs, 9999)
    BY <1>9 DEF Between
  <2> QED
    BY <1>1, <1>7, <1>8, <1>9, <2>1, RemaindersMakeUp
<1>11. (\A q \in qs : alloc[q] \in Int) /\ SumFunctionOnSet(alloc, qs) = SumFunctionOnSet(fl, qs) + left
  <2>1. Serves(alloc, qs, fl, w, left)
    BY <1>1, <1>2, <1>6, <1>9, <1>10 DEF Serves
  <2> QED
    BY <2>1, LargestRemainders
<1>12. SumFunctionOnSet(fl, qs) \in Int
  BY <1>1, <1>9, SumType
<1>13. SumFunctionOnSet(fl, qs) + left = amount
  BY <1>8, <1>12
<1> QED
  BY <1>11, <1>13 DEF qs, alloc

\* What allocatePartPrices does not refuse adds up, whichever way the parts are priced.
LEMMA AllocationPays ==
  ASSUME NEW table \in [Parts -> PartRows], NEW amount \in Nat,
         Active(table) # {}, loadPartAllocation(table, amount)
  PROVE  /\ ~AllocationRefused(table, amount)
         /\ \A q \in Active(table) : allocatePartPrices(table, amount)[q] \in Int
         /\ SumFunctionOnSet(allocatePartPrices(table, amount), Active(table)) = amount
<1> DEFINE qs == Active(table)
           lines == allocatePartPrices(table, amount)
<1>1. ~AllocationRefused(table, amount)
  BY DEF loadPartAllocation
<1>2. IsFiniteSet(qs) /\ qs \subseteq Parts
  BY ActiveParts
<1>3. CASE \A q \in qs : table[q].model = "PERCENTAGE"
  <2>1. Shares(table, qs) = 10000
    BY <1>1, <1>3 DEF AllocationRefused
  <2>2. lines = allocateByPercentage(table, amount)
    BY <1>3 DEF allocatePartPrices
  <2> HIDE DEF lines
  <2> QED
    BY <1>1, <2>1, <2>2, PercentagesAddUp DEF lines
<1>4. CASE ~ \A q \in qs : table[q].model = "PERCENTAGE"
  <2> DEFINE sh == [q \in qs |-> table[q].share]
             fixed == [q \in qs |-> ShareOf(table, q)]
  <2>1. \A q \in qs : table[q] \in PartRows /\ table[q].share \in Int /\ table[q].model \in {"PERCENTAGE", "FIXED"}
    BY <1>2 DEF PartRows, Models
  <2>2. \A q \in qs : table[q].model = "FIXED"
    BY <1>1, <1>4, <2>1 DEF AllocationRefused
  <2>3. Shares(table, qs) = amount
    BY <1>1, <2>2 DEF AllocationRefused
  <2>4. lines = fixed
    BY <1>4 DEF allocatePartPrices, allocateByFixedAmount
  <2>5. SumFunctionOnSet(sh, qs) = amount
    BY <2>3 DEF Shares, SumFunction
  <2>6. \A q \in qs : sh[q] \in Int /\ sh[q] = fixed[q]
    BY <2>1 DEF ShareOf
  <2> HIDE DEF lines, qs, sh, fixed
  <2>7. SumFunctionOnSet(sh, qs) = SumFunctionOnSet(fixed, qs)
    BY <1>2, <2>6, SumSame
  <2> QED
    BY <1>1, <2>4, <2>5, <2>6, <2>7 DEF lines, qs
<1> QED
  BY <1>3, <1>4

-----------------------------------------------------------------------------
\* What the handlers of parts keep.
PartCallTyped(p) ==
  /\ call[p].op \in {"updatePart", "removePart", "validated"} => call[p].who \in Parts
  /\ call[p].op = "updatePart" => call[p].saw \in Models
  /\ call[p].op = "validated" => call[p].saw \in PartRows
  /\ call[p].op = "changePrice" => call[p].saw \in Nat

PartTypes ==
  /\ call = [q \in Calls |-> call[q]]
  /\ price \in Nat /\ part \in [Parts -> PartRows] /\ sold \in [Parts -> Int]
  /\ \A p \in Calls : PartCallTyped(p)

\* What p has checked still holds.
CheckHolds(p) ==
  /\ call[p].op = "validated" => loadPartAllocation([part EXCEPT ![call[p].who] = call[p].saw], price)
  /\ call[p].op = "changePrice" => loadPartAllocation(part, call[p].saw)
  /\ call[p].op = "default" => \A q \in Parts : ~part[q].live

\* What has been paid since the last change is the line of the allocation.
SoldAtLines == \A q \in Active(part) : sold[q] # -1 => sold[q] = allocatePartPrices(part, price)[q]

\* The inductive invariant.
PartInv ==
  /\ PartTypes
  /\ ~skewed => loadPartAllocation(part, price) /\ SoldAtLines /\ \A p \in Calls : CheckHolds(p)

\* A course without parts has nothing to allocate.
LEMMA PartInitHolds == HandlersInit /\ PartInit => PartInv
<1> SUFFICES ASSUME HandlersInit, PartInit PROVE PartInv
  OBVIOUS
<1>1. Active(part) = {}
  BY DEF PartInit, NoPart, Active
<1>2. price \in Nat
  BY PartAssumption DEF PartInit
<1>3. part \in [Parts -> PartRows] /\ sold \in [Parts -> Int]
  BY DEF PartInit, NoPart, Unsold, PartRows, Models
<1>4. call = [q \in Calls |-> call[q]] /\ \A p \in Calls : call[p].op = "idle"
  BY DEF HandlersInit, Idle
<1> QED
  BY <1>1, <1>2, <1>3, <1>4
     DEF PartInv, PartTypes, PartCallTyped, CheckHolds, SoldAtLines, loadPartAllocation

\* A step that only p's call takes.
LEMMA LookKeepsInv ==
  ASSUME PartInv, NEW p \in Calls, NEW c, call' = [call EXCEPT ![p] = c], UNCHANGED partVars,
         /\ c.op \in {"updatePart", "removePart", "validated"} => c.who \in Parts
         /\ c.op = "updatePart" => c.saw \in Models
         /\ c.op = "validated" => c.saw \in PartRows
         /\ c.op = "changePrice" => c.saw \in Nat,
         /\ c.op = "validated" => loadPartAllocation([part EXCEPT ![c.who] = c.saw], price)
         /\ c.op = "changePrice" => loadPartAllocation(part, c.saw)
         /\ c.op = "default" => \A q \in Parts : ~part[q].live
  PROVE  PartInv'
<1>1. /\ PartTypes /\ price' = price /\ part' = part /\ sold' = sold /\ skewed' = skewed
  BY DEF PartInv, partVars
<1>2. /\ call'[p] = c /\ \A q \in Calls \ {p} : call'[q] = call[q]
      /\ call' = [q \in Calls |-> call'[q]]
  BY <1>1, OneCall DEF PartTypes
<1>3. PartTypes'
  BY <1>1, <1>2 DEF PartTypes, PartCallTyped
<1>4. CheckHolds(p)'
  BY <1>1, <1>2 DEF CheckHolds
<1>5. ~skewed => \A q \in Calls \ {p} : CheckHolds(q)'
  BY <1>1, <1>2 DEF CheckHolds, PartInv
<1>6. SoldAtLines => SoldAtLines'
  BY <1>1 DEF SoldAtLines
<1>7. loadPartAllocation(part, price) => loadPartAllocation(part, price)'
  BY <1>1
<1> QED
  BY <1>1, <1>3, <1>4, <1>5, <1>6, <1>7 DEF PartInv

\* A commit: nobody else has checked, or the writes are skewed.
LEMMA CommitKeepsInv ==
  ASSUME PartInv, NEW p \in Calls, End(p), Commits(p), Checked(p),
         price' \in Nat, part' \in [Parts -> PartRows],
         ~skewed => loadPartAllocation(part', price')
  PROVE  PartInv'
<1>1. /\ PartTypes /\ sold' = Unsold
      /\ ~skewed' => ~skewed /\ \A q \in Calls \ {p} : ~Checked(q)
  BY DEF PartInv, Commits
<1>2. call' = [call EXCEPT ![p] = Idle] /\ Idle.op = "idle"
  BY DEF End, Idle
<1>3. /\ call'[p] = Idle /\ \A q \in Calls \ {p} : call'[q] = call[q]
      /\ call' = [q \in Calls |-> call'[q]]
  BY <1>1, <1>2, OneCall DEF PartTypes
<1>4. sold' \in [Parts -> Int] /\ \A q \in Parts : sold'[q] = -1
  BY <1>1 DEF Unsold
<1>5. PartTypes'
  BY <1>1, <1>2, <1>3, <1>4 DEF PartTypes, PartCallTyped
<1>6. SoldAtLines'
  BY <1>4 DEF SoldAtLines, Active
<1>7. ~skewed' => \A q \in Calls : CheckHolds(q)'
  BY <1>1, <1>2, <1>3 DEF CheckHolds, Checked
<1> QED
  BY <1>1, <1>5, <1>6, <1>7 DEF PartInv

\* 60 and 40 make 100%.
DefaultPart(share) ==
  [live |-> TRUE, used |-> TRUE, active |-> TRUE, model |-> "PERCENTAGE", share |-> share]

\* The default structure is 60/40 wherever it is created.
LEMMA DefaultAddsUp ==
  ASSUME NEW table, table[1] = DefaultPart(6000), table[2] = DefaultPart(4000), NEW amount,
         \A q \in Parts \ {1, 2} : ~table[q].live
  PROVE  loadPartAllocation(table, amount)
<1> DEFINE sh == [q \in {1, 2} |-> table[q].share]
<1>1. {1, 2} \subseteq Parts
  BY PartAssumption DEF Parts
<1>2. Active(table) = {1, 2}
  BY <1>1 DEF Active, DefaultPart
<1>3. sh[1] = 6000 /\ sh[2] = 4000
  BY DEF DefaultPart
<1>4. Shares(table, {1, 2}) = SumFunctionOnSet(sh, {1, 2})
  BY DEF Shares, SumFunction
<1>5. sh[1] \in Int /\ sh[2] \in Int /\ 1 # 2
  BY <1>3
<1> HIDE DEF sh
<1>6. SumFunctionOnSet(sh, {1, 2}) = sh[1] + sh[2]
  <2> DEFINE both == {1, 2}
  <2>1. 1 \in both /\ 2 \in both /\ \A x \in both : x = 1 \/ x = 2
    OBVIOUS
  <2> HIDE DEF both
  <2>2. SumFunctionOnSet(sh, both) = sh[1] + sh[2]
    BY <1>5, <2>1, SumOfTwo
  <2> QED
    BY <2>2 DEF both
<1>7. Shares(table, Active(table)) = 10000
  BY <1>2, <1>3, <1>4, <1>6
<1> QED
  BY <1>2, <1>7 DEF loadPartAllocation, AllocationRefused, DefaultPart

\* The commits: the default structure, a validated write, a new price.
LEMMA DefaultKeepsInv == ASSUME PartInv, NEW p \in Calls, createDefaultStructure(p) PROVE PartInv'
<1>1. call[p].op = "default" /\ End(p) /\ UNCHANGED <<price, everSold>>
  BY DEF createDefaultStructure, At
<1>2. CASE part[1].used \/ part[2].used
  <2>1. call' = [call EXCEPT ![p] = Idle] /\ UNCHANGED partVars
    BY <1>1, <1>2 DEF createDefaultStructure, End, partVars
  <2> QED
    BY <2>1, LookKeepsInv DEF Idle
<1>3. CASE ~(part[1].used \/ part[2].used)
  <2>1. part' = [part EXCEPT ![1] = DefaultPart(6000), ![2] = DefaultPart(4000)] /\ Commits(p)
    BY <1>3 DEF createDefaultStructure, DefaultPart
  <2>2. PartTypes /\ 1 \in Parts /\ 2 \in Parts
    BY PartAssumption DEF PartInv, Parts
  <2>3. DefaultPart(6000) \in PartRows /\ DefaultPart(4000) \in PartRows
    BY DEF DefaultPart, PartRows, Models
  <2>4. part' \in [Parts -> PartRows] /\ price' \in Nat
    BY <1>1, <2>1, <2>2, <2>3 DEF PartTypes
  <2>5. /\ part'[1] = DefaultPart(6000) /\ part'[2] = DefaultPart(4000)
        /\ \A q \in Parts \ {1, 2} : part'[q] = part[q]
    BY <2>1, <2>2 DEF PartTypes
  <2>6. ~skewed => \A q \in Parts : ~part[q].live
    BY <1>1 DEF PartInv, CheckHolds
  <2>7. ~skewed => loadPartAllocation(part', price')
    BY <2>5, <2>6, DefaultAddsUp
  <2>8. Checked(p)
    BY <1>1 DEF Checked
  <2> QED
    <3>1. End(p) /\ Commits(p)
      BY <1>1, <2>1
    <3> QED
      BY <2>4, <2>7, <2>8, <3>1, CommitKeepsInv
<1> QED
  BY <1>2, <1>3

LEMMA CommitPartsKeepsInv == ASSUME PartInv, NEW p \in Calls, CommitParts(p) PROVE PartInv'
<1>1. /\ call[p].op = "validated" /\ part' = [part EXCEPT ![call[p].who] = call[p].saw]
      /\ End(p) /\ Commits(p) /\ price' = price
  BY DEF CommitParts, At
<1>2. PartTypes /\ call[p].who \in Parts /\ call[p].saw \in PartRows
  BY <1>1 DEF PartInv, PartTypes, PartCallTyped
<1>3. part' \in [Parts -> PartRows] /\ price' \in Nat
  BY <1>1, <1>2 DEF PartTypes
<1>4. ~skewed => loadPartAllocation(part', price')
  BY <1>1 DEF PartInv, CheckHolds
<1> QED
  BY <1>1, <1>3, <1>4, CommitKeepsInv DEF Checked

LEMMA ChangePriceKeepsInv == ASSUME PartInv, NEW p \in Calls, changePrice(p) PROVE PartInv'
<1>1. /\ call[p].op = "changePrice" /\ price' = call[p].saw /\ part' = part
      /\ End(p) /\ Commits(p)
  BY DEF changePrice, At
<1>2. PartTypes /\ call[p].saw \in Nat
  BY <1>1 DEF PartInv, PartTypes, PartCallTyped
<1>3. part' \in [Parts -> PartRows] /\ price' \in Nat
  BY <1>1, <1>2 DEF PartTypes
<1>4. ~skewed => loadPartAllocation(part', price')
  BY <1>1 DEF PartInv, CheckHolds
<1> QED
  BY <1>1, <1>3, <1>4, CommitKeepsInv DEF Checked

\* A part is sold for its line.
LEMMA SellKeepsInv == ASSUME PartInv, NEW q \in Parts, SellPart(q) PROVE PartInv'
<1> DEFINE lines == allocatePartPrices(part, price)
           paid == IF AllocationRefused(part, price) THEN 0 ELSE lines[q]
<1>1. /\ q \in Active(part) /\ sold' = [sold EXCEPT ![q] = paid]
      /\ UNCHANGED <<price, part, skewed, call>>
  BY DEF SellPart, Active
<1>2. PartTypes
  BY DEF PartInv
<1>3. ~AllocationRefused(part, price) => lines[q] \in Int
  <2> SUFFICES ASSUME ~AllocationRefused(part, price) PROVE lines[q] \in Int
    OBVIOUS
  <2>1. loadPartAllocation(part, price) /\ Active(part) # {}
    BY <1>1 DEF loadPartAllocation
  <2> QED
    BY <1>1, <1>2, <2>1, AllocationPays DEF PartTypes
<1>4. paid \in Int
  BY <1>3
<1>5. ~skewed => paid = lines[q]
  BY <1>1 DEF PartInv, loadPartAllocation
<1> HIDE DEF paid, lines
<1>6. /\ sold' \in [Parts -> Int] /\ sold'[q] = paid
      /\ \A r \in Parts \ {q} : sold'[r] = sold[r]
  BY <1>1, <1>2, <1>4 DEF PartTypes
<1>7. PartTypes'
  BY <1>1, <1>2, <1>6 DEF PartTypes, PartCallTyped
<1>8. ~skewed => SoldAtLines'
  <2> SUFFICES ASSUME ~skewed, NEW r \in Active(part), sold'[r] # -1
               PROVE  sold'[r] = allocatePartPrices(part, price)[r]
    BY <1>1 DEF SoldAtLines
  <2>1. CASE r = q
    BY <1>5, <1>6, <2>1 DEF lines
  <2>2. CASE r # q
    BY <1>6, <2>2 DEF PartInv, SoldAtLines, Active
  <2> QED
    BY <2>1, <2>2
<1>9. ~skewed => loadPartAllocation(part, price)' /\ \A p \in Calls : CheckHolds(p)'
  BY <1>1 DEF PartInv, CheckHolds
<1> QED
  BY <1>1, <1>7, <1>8, <1>9 DEF PartInv

\* A write that has validated what it wrote.
LEMMA ValidatesKeepsInv ==
  ASSUME PartInv, NEW p \in Calls, NEW q \in Parts, NEW row \in PartRows, Validates(p, q, row)
  PROVE  PartInv'
<1> DEFINE c == [op |-> "validated", saw |-> row, who |-> q]
<1>1. /\ call' = [call EXCEPT ![p] = c] /\ UNCHANGED partVars
      /\ loadPartAllocation([part EXCEPT ![q] = row], price)
  BY DEF Validates, Looks, Go
<1>2. c.op = "validated" /\ c.who = q /\ c.saw = row
  OBVIOUS
<1> HIDE DEF c
<1> QED
  BY <1>1, <1>2, LookKeepsInv

\* Shares are numbers.
LEMMA SharesTyped == \A m \in Models : \A s \in ShareIn(m) : s \in Nat
BY PartAssumption DEF ShareIn

\* Every step on the parts of a course keeps the invariant.
LEMMA PartStepKeepsInv == PartInv /\ [PartNext]_<<call, partVars>> => PartInv'
<1> SUFFICES ASSUME PartInv, [PartNext]_<<call, partVars>> PROVE PartInv'
  OBVIOUS
<1>0. PartTypes
  BY DEF PartInv
<1>1. CASE UNCHANGED <<call, partVars>>
  BY <1>1 DEF PartInv, partVars, PartTypes, PartCallTyped, CheckHolds, SoldAtLines
<1>2. ASSUME NEW p \in Calls, BeginDefault(p) PROVE PartInv'
  <2>1. /\ call' = [call EXCEPT ![p] = [op |-> "default", saw |-> "none", who |-> "none"]]
        /\ UNCHANGED partVars /\ \A q \in Parts : ~part[q].live
    BY <1>2 DEF BeginDefault, Looks, Go
  <2> QED
    BY <2>1, LookKeepsInv
<1>3. ASSUME NEW p \in Calls, updatePart(p) PROVE PartInv'
  <2> DEFINE q == call[p].who
             m == call[p].saw
  <2>1. q \in Parts /\ m \in Models /\ part[q] \in PartRows
    BY <1>0, <1>3 DEF updatePart, At, PartTypes, PartCallTyped
  <2>2. PICK row \in PartRows : Validates(p, q, row)
    <3>1. CASE \E s \in ShareIn(m) : Validates(p, q, [part[q] EXCEPT !.model = m, !.share = s])
      <4>1. PICK s \in ShareIn(m) : Validates(p, q, [part[q] EXCEPT !.model = m, !.share = s])
        BY <3>1
      <4>2. s \in Nat
        BY <2>1, SharesTyped
      <4> HIDE DEF q, m
      <4>3. [part[q] EXCEPT !.model = m, !.share = s] \in PartRows
        BY <2>1, <4>2 DEF PartRows
      <4> QED
        BY <4>1, <4>3
    <3>2. CASE \E b \in BOOLEAN : Validates(p, q, [part[q] EXCEPT !.active = b])
      <4>1. PICK b \in BOOLEAN : Validates(p, q, [part[q] EXCEPT !.active = b])
        BY <3>2
      <4> HIDE DEF q, m
      <4>2. [part[q] EXCEPT !.active = b] \in PartRows
        BY <2>1 DEF PartRows
      <4> QED
        BY <4>1, <4>2
    <3> QED
      BY <1>3, <3>1, <3>2 DEF updatePart
  <2> HIDE DEF q, m
  <2> QED
    BY <2>1, <2>2, ValidatesKeepsInv
<1>4. ASSUME NEW p \in Calls, removePricedPart(p) PROVE PartInv'
  <2> DEFINE q == call[p].who
             row == [part[q] EXCEPT !.live = FALSE, !.active = FALSE]
  <2>1. q \in Parts /\ part[q] \in PartRows
    BY <1>0, <1>4 DEF removePricedPart, At, PartTypes, PartCallTyped
  <2>2. Validates(p, q, row)
    BY <1>4 DEF removePricedPart
  <2> HIDE DEF q
  <2>3. row \in PartRows
    BY <2>1 DEF PartRows
  <2> HIDE DEF row
  <2> QED
    BY <2>1, <2>2, <2>3, ValidatesKeepsInv
<1>5. ASSUME NEW p \in Calls, Refused(p) PROVE PartInv'
  <2>1. call' = [call EXCEPT ![p] = Idle] /\ UNCHANGED partVars
    BY <1>5 DEF Refused, End
  <2> QED
    BY <2>1, LookKeepsInv DEF Idle
<1>6. ASSUME NEW p \in Calls, BeginChangePrice(p) PROVE PartInv'
  <2>1. PICK a \in Amounts : loadPartAllocation(part, a) /\ Looks(p, "changePrice", a, "none")
    BY <1>6 DEF BeginChangePrice
  <2> DEFINE c == [op |-> "changePrice", saw |-> a, who |-> "none"]
  <2>2. call' = [call EXCEPT ![p] = c] /\ UNCHANGED partVars
    BY <2>1 DEF Looks, Go
  <2>3. c.op = "changePrice" /\ c.saw = a /\ a \in Nat
    BY PartAssumption
  <2> HIDE DEF c
  <2> QED
    BY <2>1, <2>2, <2>3, LookKeepsInv
<1>7. ASSUME NEW p \in Calls, NEW q \in Parts, createPricedPart(p, q) PROVE PartInv'
  <2>0. PICK m \in Models : \E s \in ShareIn(m) :
          Validates(p, q, [live |-> TRUE, used |-> TRUE, active |-> TRUE, model |-> m, share |-> s])
    BY <1>7 DEF createPricedPart
  <2>1. PICK s \in ShareIn(m) :
          Validates(p, q, [live |-> TRUE, used |-> TRUE, active |-> TRUE, model |-> m, share |-> s])
    BY <2>0
  <2> DEFINE row == [live |-> TRUE, used |-> TRUE, active |-> TRUE, model |-> m, share |-> s]
  <2>2. row \in PartRows
    BY SharesTyped DEF PartRows
  <2>3. Validates(p, q, row)
    BY <2>1
  <2> HIDE DEF row
  <2> QED
    BY <2>2, <2>3, ValidatesKeepsInv
<1>8. ASSUME NEW p \in Calls, NEW q \in Parts, BeginUpdatePart(p, q) PROVE PartInv'
  <2>1. PICK m \in Models : Looks(p, "updatePart", m, q)
    BY <1>8 DEF BeginUpdatePart
  <2> DEFINE c == [op |-> "updatePart", saw |-> m, who |-> q]
  <2>2. call' = [call EXCEPT ![p] = c] /\ UNCHANGED partVars
    BY <2>1 DEF Looks, Go
  <2>3. c.op = "updatePart" /\ c.saw = m /\ c.who = q
    OBVIOUS
  <2> HIDE DEF c
  <2> QED
    BY <2>2, <2>3, LookKeepsInv
<1>9. ASSUME NEW p \in Calls, NEW q \in Parts, BeginRemovePart(p, q) PROVE PartInv'
  <2> DEFINE c == [op |-> "removePart", saw |-> "none", who |-> q]
  <2>1. call' = [call EXCEPT ![p] = c] /\ UNCHANGED partVars
    BY <1>9 DEF BeginRemovePart, Looks, Go
  <2>2. c.op = "removePart" /\ c.who = q
    OBVIOUS
  <2> HIDE DEF c
  <2> QED
    BY <2>1, <2>2, LookKeepsInv
<1> QED
  BY <1>1, <1>2, <1>3, <1>4, <1>5, <1>6, <1>7, <1>8, <1>9,
     DefaultKeepsInv, CommitPartsKeepsInv, ChangePriceKeepsInv, SellKeepsInv DEF PartNext

\* Paid lines are the lines of the allocation, which sum to the price.
LEMMA LinesMakeThePrice == PartInv => PartsPayTheCourse
<1> SUFFICES ASSUME PartInv, ~skewed, Active(part) # {}, \A q \in Active(part) : sold[q] # -1
             PROVE  SumFunctionOnSet(sold, Active(part)) = price
  BY DEF PartsPayTheCourse
<1> DEFINE lines == allocatePartPrices(part, price)
           qs == Active(part)
<1>1. PartTypes /\ loadPartAllocation(part, price)
  BY DEF PartInv
<1>2. (\A q \in qs : lines[q] \in Int) /\ SumFunctionOnSet(lines, qs) = price
  BY <1>1, AllocationPays DEF PartTypes
<1>3. \A q \in qs : sold[q] = lines[q]
  BY DEF PartInv, SoldAtLines
<1>4. IsFiniteSet(qs)
  BY ActiveParts
<1>5. \A q \in qs : lines[q] \in Int /\ lines[q] = sold[q]
  BY <1>2, <1>3
<1> HIDE DEF qs, lines
<1>6. SumFunctionOnSet(lines, qs) = SumFunctionOnSet(sold, qs)
  BY <1>4, <1>5, SumSame
<1> QED
  BY <1>2, <1>6 DEF qs

\* PartsPayTheCourse: for any parts, shares, prices and number of handlers, buying every part
\* of a course as it stands costs what the course costs (revalidate, allocatePartPrices).
THEOREM PartsPay == PartSpec => []PartsPayTheCourse
<1>1. PartInv /\ [PartNext]_<<call, partVars>> => PartInv'
  BY PartStepKeepsInv
<1> QED
  BY PartInitHolds, LinesMakeThePrice, <1>1, PTL DEF PartSpec

-----------------------------------------------------------------------------
Watched == observePlayback.watched
Needed == IF rule.type = "WATCH_FULL" THEN 99 ELSE Threshold
Evidenced == PercentOf(IF rule.contiguous THEN Watched ELSE furthest + 1) >= Needed

Marks == [exists : BOOLEAN, pos : Int, percent : Int, watched : Int, completed : BOOLEAN]

\* What a row may say on the evidence there is.
MarkSound(m) ==
  /\ m.watched <= Watched
  /\ m.completed => Evidenced
  /\ m.percent <= PercentOf(furthest + 1) \/ Evidenced

ReportSound(p) ==
  /\ call[p].op = "report" =>
       /\ call[p].saw \in Marks /\ call[p].saw.exists
       /\ rule.type # "MANUAL" => MarkSound(call[p].saw)
  /\ call[p].op = "markComplete" /\ rule.type # "MANUAL" => mark.exists /\ Evidenced

ProgressTypes ==
  /\ call = [p \in Calls |-> call[p]]
  /\ rule \in [type : {"WATCH_PERCENT", "WATCH_FULL", "MANUAL"}, contiguous : BOOLEAN]
  /\ seen \in [Plays -> [watched : Nat, pos : 0..Duration]]
  /\ furthest \in Nat /\ \A t \in Plays : seen[t].pos <= furthest
  /\ mark \in Marks

\* The inductive invariant: what is in flight rests on evidence as well.
ProgressInv ==
  /\ ProgressTypes
  /\ rule.type # "MANUAL" => MarkSound(mark)
  /\ \A p \in Calls : ReportSound(p)

\* Max and Min of two and three numbers.
LEMMA MaxOfTwo ==
  ASSUME NEW a \in Int, NEW b \in Int
  PROVE  Max({a, b}) \in {a, b} /\ Max({a, b}) >= a /\ Max({a, b}) >= b
<1>1. \E x \in {a, b} : \A y \in {a, b} : x >= y
  <2>1. CASE a >= b
    BY <2>1
  <2>2. CASE b >= a
    BY <2>2
  <2> QED
    BY <2>1, <2>2
<1> QED
  BY <1>1 DEF Max

LEMMA MinOfTwo ==
  ASSUME NEW a \in Int, NEW b \in Int
  PROVE  Min({a, b}) \in {a, b} /\ Min({a, b}) <= a /\ Min({a, b}) <= b
<1>1. \E x \in {a, b} : \A y \in {a, b} : x =< y
  <2>1. CASE a <= b
    BY <2>1
  <2>2. CASE b <= a
    BY <2>2
  <2> QED
    BY <2>1, <2>2
<1> QED
  BY <1>1 DEF Min

LEMMA MinOfThree ==
  ASSUME NEW a \in Int, NEW b \in Int, NEW c \in Int
  PROVE  Min({a, b, c}) \in {a, b, c} /\ Min({a, b, c}) <= a /\ Min({a, b, c}) <= b /\ Min({a, b, c}) <= c
<1>1. \E x \in {a, b, c} : \A y \in {a, b, c} : x =< y
  <2>1. CASE a <= b /\ a <= c
    BY <2>1
  <2>2. CASE b <= a /\ b <= c
    BY <2>2
  <2>3. CASE c <= a /\ c <= b
    BY <2>3
  <2> QED
    BY <2>1, <2>2, <2>3
<1> QED
  BY <1>1 DEF Min

\* The percentage of a longer stretch is not smaller.
LEMMA PercentMonotone ==
  ASSUME NEW x \in Int, NEW y \in Int, x <= y
  PROVE  PercentOf(x) \in Int /\ PercentOf(y) \in Int /\ PercentOf(x) <= PercentOf(y)
<1> DEFINE a == 200 * x + Duration
           b == 200 * y + Duration
           n == 2 * Duration
<1>1. a \in Int /\ b \in Int /\ a <= b /\ n \in Nat /\ n > 0
  BY ProgressAssumption
<1>2. PercentOf(x) = a \div n /\ PercentOf(y) = b \div n
  BY DEF PercentOf
<1> HIDE DEF a, b, n
<1>3. a \div n \in Int /\ b \div n \in Int
  BY <1>1, DivBounds
<1> QED
  BY <1>1, <1>2, <1>3, DivMonotone

\* What was observed.
LEMMA ObservedType ==
  ASSUME ProgressTypes
  PROVE  Watched \in Nat /\ observePlayback.pos \in Nat /\ observePlayback.pos <= furthest
<1> DEFINE f == [t \in Plays |-> seen[t].watched]
           zero == [t \in Plays |-> 0]
           at == [t \in Plays |-> seen[t].pos]
           P == {seen[t].pos : t \in Plays}
<1>1. IsFiniteSet(Plays) /\ Plays # {} /\ Duration \in Nat
  BY ProgressAssumption
<1>2. \A t \in Plays : f[t] \in Int /\ 0 <= f[t] /\ zero[t] = 0 /\ zero[t] \in Int
  BY DEF ProgressTypes
<1>3. Watched = SumFunctionOnSet(f, Plays)
  BY DEF Watched, observePlayback, SumFunction
<1>4. Watched \in Int
  <2> HIDE DEF f
  <2> QED
    BY <1>1, <1>2, <1>3, SumType
<1>5. 0 <= Watched
  <2>1. SumFunctionOnSet(zero, Plays) = 0
    <3>1. SumFunctionOnSet(zero, Plays) = SumFunctionOnSet(zero, {})
      <4> HIDE DEF zero
      <4> QED
        BY <1>1, <1>2, SumOutside
    <3> QED
      BY <3>1, SumOfNone
  <2>2. SumFunctionOnSet(zero, Plays) <= SumFunctionOnSet(f, Plays)
    <3> HIDE DEF f, zero
    <3> QED
      BY <1>1, <1>2, SumOrder
  <2> QED
    BY <1>3, <2>1, <2>2
<1>6. at \in Surjection(Plays, P)
  BY DEF Surjection
<1>7. IsFiniteSet(P) /\ P # {} /\ \A n \in P : n \in Int /\ n >= 0 /\ n <= furthest
  <2>1. IsFiniteSet(P)
    BY <1>1, <1>6, FS_Surjection
  <2> QED
    BY <1>1, <2>1 DEF ProgressTypes
<1>8. observePlayback.pos = Max(P)
  BY DEF observePlayback
<1>9. Max(P) \in P
  <2> HIDE DEF P
  <2>1. \E n \in P : \A m \in P : m <= n
    BY <1>7, GreatestNumber
  <2>2. \E n \in P : \A m \in P : n >= m
    BY <1>7, <2>1
  <2> QED
    BY <2>2 DEF Max
<1> QED
  BY <1>4, <1>5, <1>7, <1>8, <1>9

\* More evidence: whatever was evidenced still is.
LEMMA MoreEvidence ==
  ASSUME ProgressTypes, UNCHANGED rule, Watched' \in Nat, furthest' \in Nat,
         Watched <= Watched', furthest <= furthest'
  PROVE  /\ Evidenced => Evidenced'
         /\ \A m \in Marks : MarkSound(m) => MarkSound(m)'
<1>1. Watched \in Nat /\ Watched' \in Nat /\ furthest \in Nat /\ furthest' \in Nat
  BY ObservedType DEF ProgressTypes
<1>2. /\ PercentOf(Watched) \in Int /\ PercentOf(Watched') \in Int /\ PercentOf(Watched) <= PercentOf(Watched')
      /\ PercentOf(furthest + 1) \in Int /\ PercentOf(furthest' + 1) \in Int
      /\ PercentOf(furthest + 1) <= PercentOf(furthest' + 1)
  BY <1>1, PercentMonotone
<1>3. Needed \in Int /\ Needed' = Needed
  BY ProgressAssumption DEF Needed
<1>4. Evidenced => Evidenced'
  BY <1>2, <1>3 DEF Evidenced, PercentOf
<1>5. ASSUME NEW m \in Marks, MarkSound(m) PROVE MarkSound(m)'
  <2>1. m.watched \in Int /\ m.percent \in Int
    BY DEF Marks
  <2>2. m.watched <= Watched'
    BY <1>1, <1>5, <2>1 DEF MarkSound
  <2>3. m.percent <= PercentOf(furthest + 1) => m.percent <= PercentOf(furthest' + 1)
    BY <1>2, <2>1
  <2> QED
    BY <1>4, <1>5, <2>2, <2>3 DEF MarkSound, PercentOf
<1> QED
  BY <1>4, <1>5

\* Nothing else changes the evidence.
LEMMA SameEvidence ==
  ASSUME UNCHANGED <<rule, seen, furthest>>
  PROVE  Watched' = Watched /\ (Evidenced <=> Evidenced')
BY DEF Watched, observePlayback, Evidenced, PercentOf, Needed

\* A unit more was watched.
LEMMA HeartbeatKeepsInv ==
  ASSUME ProgressInv, NEW t \in Plays, NEW pos \in 0..Duration, Heartbeat(t, pos)
  PROVE  ProgressInv'
<1> DEFINE f == [u \in Plays |-> seen[u].watched]
           g == [u \in Plays |-> seen'[u].watched]
<1>1. /\ seen' = [seen EXCEPT ![t] = [watched |-> seen[t].watched + 1, pos |-> pos]]
      /\ furthest' = Max({furthest, pos}) /\ UNCHANGED <<rule, mark, call>>
  BY DEF Heartbeat
<1>2. ProgressTypes /\ IsFiniteSet(Plays) /\ Duration \in Nat
  BY ProgressAssumption DEF ProgressInv
<1>3. furthest' \in Nat /\ furthest' >= furthest /\ furthest' >= pos
  BY <1>1, <1>2, MaxOfTwo DEF ProgressTypes
<1>4. seen' \in [Plays -> [watched : Nat, pos : 0..Duration]] /\ \A u \in Plays : seen'[u].pos <= furthest'
  <2>1. [watched |-> seen[t].watched + 1, pos |-> pos] \in [watched : Nat, pos : 0..Duration]
    BY <1>2 DEF ProgressTypes
  <2>2. seen' \in [Plays -> [watched : Nat, pos : 0..Duration]]
    BY <1>1, <1>2, <2>1 DEF ProgressTypes
  <2>3. ASSUME NEW u \in Plays PROVE seen'[u].pos <= furthest'
    <3>1. CASE u = t
      BY <1>1, <1>2, <1>3, <3>1 DEF ProgressTypes
    <3>2. CASE u # t
      <4>1. seen'[u] = seen[u] /\ seen[u].pos \in 0..Duration /\ seen[u].pos <= furthest /\ furthest \in Nat
        BY <1>1, <1>2, <3>2 DEF ProgressTypes
      <4> QED
        BY <1>2, <1>3, <4>1
    <3> QED
      BY <3>1, <3>2
  <2> QED
    BY <2>2, <2>3
<1>5. ProgressTypes'
  BY <1>1, <1>2, <1>3, <1>4 DEF ProgressTypes
<1>6. Watched' = Watched + 1
  <2>1. Watched = SumFunctionOnSet(f, Plays) /\ Watched' = SumFunctionOnSet(g, Plays)
    BY DEF Watched, observePlayback, SumFunction
  <2>2. /\ \A u \in Plays : f[u] \in Int /\ g[u] \in Int
        /\ \A u \in Plays \ {t} : f[u] = g[u]
        /\ g[t] = f[t] + 1
    BY <1>1, <1>2, <1>4 DEF ProgressTypes
  <2>3. SumFunctionOnSet(f, Plays) \in Int
    <3> HIDE DEF f
    <3> QED
      BY <1>2, <2>2, SumType
  <2>4. SumFunctionOnSet(g, Plays) = SumFunctionOnSet(f, Plays) - f[t] + g[t]
    <3> HIDE DEF f, g
    <3> QED
      BY <1>2, <2>2, SumChange
  <2> HIDE DEF f, g
  <2> QED
    BY <2>1, <2>2, <2>3, <2>4
<1>7. Watched \in Nat
  BY <1>2, ObservedType
<1>8. (Evidenced => Evidenced') /\ \A m \in Marks : MarkSound(m) => MarkSound(m)'
  BY <1>1, <1>2, <1>3, <1>6, <1>7, MoreEvidence DEF ProgressTypes
<1>9. rule.type # "MANUAL" => MarkSound(mark)'
  BY <1>1, <1>2, <1>8 DEF ProgressInv, ProgressTypes
<1>10. \A p \in Calls : ReportSound(p)'
  BY <1>1, <1>8 DEF ProgressInv, ReportSound
<1> QED
  BY <1>1, <1>5, <1>9, <1>10 DEF ProgressInv, MarkSound

\* What a report computes rests on what was observed.
LEMMA ReportIsSound ==
  ASSUME ProgressInv, NEW p \in Calls, NEW claimed \in Int, NEW spent \in Int,
         BeginReport(p, [watched |-> spent, pos |-> claimed])
  PROVE  ProgressInv'
<1> DEFINE at == clampToObserved(claimed, observePlayback.pos)
           credit == Credit(spent, Watched, mark.watched)
           banked == mark.watched + credit
           percent == Min({100, Max({mark.percent, PercentOf(at)})})
           done == mark.completed \/ (rule.type # "MANUAL" /\ Reached(percent, banked))
           row == [exists |-> TRUE, pos |-> at, percent |-> percent, watched |-> banked, completed |-> done]
<1>1. /\ call' = [call EXCEPT ![p] = [op |-> "report", saw |-> row, who |-> mark.completed]]
      /\ UNCHANGED <<rule, seen, furthest, mark>>
  BY DEF BeginReport, Go, progressVars, Watched
<1>2. /\ ProgressTypes /\ mark \in Marks /\ furthest \in Nat
      /\ MaxDelta \in Nat /\ Duration \in Nat /\ Duration > 0 /\ Threshold \in Int
  BY ProgressAssumption DEF ProgressInv, ProgressTypes
<1>3. mark.watched \in Int /\ mark.percent \in Int /\ mark.completed \in BOOLEAN
  BY <1>2 DEF Marks
<1>4. Watched \in Nat /\ observePlayback.pos \in Nat /\ observePlayback.pos <= furthest
  BY <1>2, ObservedType
<1>5. at \in Int /\ at <= furthest + 1
  <2> DEFINE o == observePlayback.pos + 1
  <2>1. o \in Int /\ o <= furthest + 1 /\ Duration \in Int /\ at = Min({claimed, Duration, o})
    BY <1>2, <1>4 DEF clampToObserved
  <2> HIDE DEF o, at
  <2>2. at \in {claimed, Duration, o} /\ at <= o
    BY <2>1, MinOfThree, Zenon
  <2> QED
    BY <1>2, <2>1, <2>2
<1> HIDE DEF at
<1>6. credit \in Int /\ (mark.watched <= Watched => mark.watched + credit <= Watched)
  <2> DEFINE room == Max({0, Watched - mark.watched})
           rest == Watched - mark.watched
  <2>0. rest \in Int /\ (mark.watched <= Watched => rest >= 0) /\ 0 \in Int /\ MaxDelta \in Int
    BY <1>2, <1>3, <1>4
  <2>1. room \in {0, rest} /\ room >= 0 /\ room >= rest
    <3> DEFINE none == 0
    <3>1. none \in Int /\ rest \in Int /\ room = Max({none, rest})
      BY <2>0
    <3> HIDE DEF rest, none, room
    <3>2. room \in {none, rest} /\ room >= none /\ room >= rest
      BY <3>1, MaxOfTwo, Zenon
    <3> QED
      BY <3>2 DEF none
  <2>2. credit = Min({spent, MaxDelta, room})
    BY DEF Credit
  <2> HIDE DEF credit, room, rest
  <2>3. room \in Int /\ (mark.watched <= Watched => room <= rest)
    BY <2>0, <2>1
  <2>4. credit \in {spent, MaxDelta, room} /\ credit <= room
    BY <2>0, <2>2, <2>3, MinOfThree, Zenon
  <2>5. credit \in Int
    BY <2>0, <2>3, <2>4
  <2> QED
    BY <1>3, <1>4, <2>3, <2>4, <2>5 DEF rest
<1>7. percent \in Int /\ (percent <= mark.percent \/ percent <= PercentOf(furthest + 1))
  <2> DEFINE here == PercentOf(at)
             top == Max({mark.percent, here})
             cent == 100
  <2>1. here \in Int /\ PercentOf(furthest + 1) \in Int /\ here <= PercentOf(furthest + 1)
    BY <1>2, <1>5, PercentMonotone
  <2>2. percent = Min({cent, top}) /\ cent \in Int /\ mark.percent \in Int
    BY <1>3
  <2> HIDE DEF here, cent, percent
  <2>3. top \in {mark.percent, here}
    BY <2>1, <2>2, MaxOfTwo, Zenon
  <2> HIDE DEF top
  <2>4. top \in Int
    BY <2>1, <2>2, <2>3
  <2>5. percent \in {cent, top} /\ percent <= top
    BY <2>2, <2>4, MinOfTwo, Zenon
  <2>6. percent \in Int
    BY <2>2, <2>4, <2>5
  <2> QED
    BY <2>1, <2>2, <2>3, <2>4, <2>5, <2>6
<1> HIDE DEF credit, percent
<1>8. banked \in Int
  BY <1>3, <1>6
<1>9. done \in BOOLEAN
  BY <1>3
<1>10. ASSUME rule.type # "MANUAL"
       PROVE  /\ banked <= Watched /\ (done => Evidenced)
              /\ percent <= PercentOf(furthest + 1) \/ Evidenced
  <2>1. MarkSound(mark)
    BY <1>10 DEF ProgressInv
  <2>2. banked <= Watched
    BY <1>6, <2>1 DEF MarkSound
  <2>3. PercentOf(furthest + 1) \in Int
    BY <1>2, PercentMonotone
  <2>4. percent <= PercentOf(furthest + 1) \/ Evidenced
    BY <1>3, <1>7, <2>1, <2>3 DEF MarkSound
  <2> HIDE DEF banked
  <2>5. ASSUME Reached(percent, banked) PROVE Evidenced
    <3>1. Needed \in Int
      BY <1>2 DEF Needed
    <3>2. CASE rule.contiguous
      <4>1. PercentOf(banked) >= Needed
        BY <2>5, <3>2 DEF Reached, Needed
      <4>2. PercentOf(banked) \in Int /\ PercentOf(Watched) \in Int /\ PercentOf(banked) <= PercentOf(Watched)
        BY <1>4, <1>8, <2>2, PercentMonotone
      <4>3. PercentOf(Watched) >= Needed
        BY <3>1, <4>1, <4>2
      <4> QED
        BY <3>2, <4>3 DEF Evidenced
    <3>3. CASE ~rule.contiguous
      <4>1. percent >= Needed
        BY <2>5, <3>3 DEF Reached, Needed
      <4>2. CASE percent <= PercentOf(furthest + 1)
        <5>1. PercentOf(furthest + 1) >= Needed
          BY <1>7, <2>3, <3>1, <4>1, <4>2
        <5> QED
          BY <3>3, <5>1 DEF Evidenced
      <4> QED
        BY <2>4, <4>2
    <3> QED
      BY <3>2, <3>3
  <2>6. mark.completed => Evidenced
    BY <2>1 DEF MarkSound
  <2> QED
    BY <2>2, <2>4, <2>5, <2>6
<1> HIDE DEF banked, done
<1>11. row \in Marks /\ row.exists /\ row.watched = banked /\ row.completed = done /\ row.percent = percent
  BY <1>5, <1>7, <1>8, <1>9 DEF Marks
<1> HIDE DEF row
<1> PICK r : r = row
  OBVIOUS
<1>12. /\ call'[p] = [op |-> "report", saw |-> r, who |-> mark.completed]
       /\ \A q \in Calls \ {p} : call'[q] = call[q]
       /\ call' = [q \in Calls |-> call'[q]]
  BY <1>1, <1>2, OneCall DEF ProgressTypes
<1>13. ProgressTypes'
  BY <1>1, <1>2, <1>12 DEF ProgressTypes
<1>14. Watched' = Watched /\ (Evidenced <=> Evidenced')
  BY <1>1, SameEvidence
<1>15. rule.type # "MANUAL" => MarkSound(r)'
  BY <1>1, <1>10, <1>11, <1>14 DEF MarkSound, PercentOf
<1>16. ReportSound(p)'
  BY <1>1, <1>11, <1>12, <1>15 DEF ReportSound
<1>17. \A q \in Calls \ {p} : ReportSound(q)'
  BY <1>1, <1>12, <1>14 DEF ProgressInv, ReportSound, MarkSound, PercentOf
<1>18. rule.type # "MANUAL" => MarkSound(mark)'
  BY <1>1, <1>14 DEF ProgressInv, MarkSound, PercentOf
<1> QED
  BY <1>1, <1>13, <1>16, <1>17, <1>18 DEF ProgressInv, MarkSound

\* The other steps of a handler.
LEMMA UpsertKeepsInv == ASSUME ProgressInv, NEW p \in Calls, upsert(p) PROVE ProgressInv'
<1>1. /\ call[p].op = "report" /\ mark' = call[p].saw /\ call' = [call EXCEPT ![p] = Idle]
      /\ UNCHANGED <<rule, seen, furthest>>
  BY DEF upsert, At, End
<1>2. ProgressTypes /\ ReportSound(p) /\ Idle.op = "idle"
  BY DEF ProgressInv, Idle
<1>3. call'[p] = Idle /\ (\A q \in Calls \ {p} : call'[q] = call[q]) /\ call' = [q \in Calls |-> call'[q]]
  BY <1>1, <1>2, OneCall DEF ProgressTypes
<1>4. Watched' = Watched /\ (Evidenced <=> Evidenced')
  BY <1>1, SameEvidence
<1>5. mark' \in Marks /\ mark'.exists
  BY <1>1, <1>2 DEF ReportSound
<1>6. ProgressTypes'
  BY <1>1, <1>2, <1>3, <1>5 DEF ProgressTypes
<1>7. rule.type # "MANUAL" => MarkSound(mark)'
  BY <1>1, <1>2, <1>4 DEF ReportSound, MarkSound, PercentOf
<1>8. \A q \in Calls : ReportSound(q)'
  BY <1>1, <1>2, <1>3, <1>4, <1>5 DEF ProgressInv, ReportSound, MarkSound, PercentOf
<1> QED
  BY <1>1, <1>6, <1>7, <1>8 DEF ProgressInv, MarkSound

\* A student marks the lecture complete: what they ask for is checked, then written.
LEMMA BeginMarkKeepsInv == ASSUME ProgressInv, NEW p \in Calls, BeginMarkComplete(p) PROVE ProgressInv'
<1> DEFINE c == [op |-> "markComplete", saw |-> "none", who |-> "none"]
<1>1. call' = [call EXCEPT ![p] = c] /\ UNCHANGED <<rule, seen, furthest, mark>>
  BY DEF BeginMarkComplete, Go, progressVars
<1>2. ProgressTypes /\ c.op = "markComplete"
  BY DEF ProgressInv
<1> HIDE DEF c
<1>3. call'[p] = c /\ (\A q \in Calls \ {p} : call'[q] = call[q]) /\ call' = [q \in Calls |-> call'[q]]
  BY <1>1, <1>2, OneCall DEF ProgressTypes
<1>4. Watched' = Watched /\ (Evidenced <=> Evidenced')
  BY <1>1, SameEvidence
<1>5. ASSUME rule.type # "MANUAL" PROVE mark.exists /\ Evidenced
  <2>1. mark.exists /\ Reached(mark.percent, mark.watched)
    BY <1>5 DEF BeginMarkComplete
  <2>2. MarkSound(mark) /\ mark.percent \in Int /\ mark.watched \in Int /\ Needed \in Int
    BY <1>2, <1>5, ProgressAssumption DEF ProgressInv, ProgressTypes, Marks, Needed
  <2>3. CASE rule.contiguous
    <3>1. PercentOf(mark.watched) >= Needed
      BY <2>1, <2>3 DEF Reached, Needed
    <3>2. Watched \in Nat /\ mark.watched <= Watched
      BY <1>2, <2>2, ObservedType DEF MarkSound
    <3>3. /\ PercentOf(mark.watched) \in Int /\ PercentOf(Watched) \in Int
          /\ PercentOf(mark.watched) <= PercentOf(Watched)
      BY <2>2, <3>2, PercentMonotone
    <3>4. PercentOf(Watched) >= Needed
      BY <2>2, <3>1, <3>3
    <3> QED
      BY <2>1, <2>3, <3>4 DEF Evidenced
  <2>4. CASE ~rule.contiguous
    <3>1. mark.percent >= Needed
      BY <2>1, <2>4 DEF Reached, Needed
    <3>2. PercentOf(furthest + 1) \in Int
      BY <1>2, PercentMonotone DEF ProgressTypes
    <3>3. CASE mark.percent <= PercentOf(furthest + 1)
      <4>1. PercentOf(furthest + 1) >= Needed
        BY <2>2, <3>1, <3>2, <3>3
      <4> QED
        BY <2>1, <2>4, <4>1 DEF Evidenced
    <3> QED
      BY <2>1, <2>2, <3>3 DEF MarkSound
  <2> QED
    BY <2>3, <2>4
<1>6. ProgressTypes'
  BY <1>1, <1>2, <1>3 DEF ProgressTypes
<1>7. rule.type # "MANUAL" => MarkSound(mark)'
  BY <1>1, <1>4 DEF ProgressInv, MarkSound, PercentOf
<1>8. \A q \in Calls : ReportSound(q)'
  BY <1>1, <1>2, <1>3, <1>4, <1>5 DEF ProgressInv, ReportSound, MarkSound, PercentOf
<1> QED
  BY <1>1, <1>6, <1>7, <1>8 DEF ProgressInv, MarkSound

LEMMA MarkCompleteKeepsInv == ASSUME ProgressInv, NEW p \in Calls, markComplete(p) PROVE ProgressInv'
<1>1. /\ call[p].op = "markComplete" /\ call' = [call EXCEPT ![p] = Idle]
      /\ mark' = IF mark.exists THEN [mark EXCEPT !.completed = TRUE, !.percent = 100]
                 ELSE [exists |-> TRUE, pos |-> Duration, percent |-> 100, watched |-> Duration, completed |-> TRUE]
      /\ UNCHANGED <<rule, seen, furthest>>
  BY DEF markComplete, At, End
<1>2. ProgressTypes /\ ReportSound(p) /\ Idle.op = "idle" /\ mark \in Marks /\ Duration \in Int
  BY ProgressAssumption DEF ProgressInv, ProgressTypes, Idle
<1>3. call'[p] = Idle /\ (\A q \in Calls \ {p} : call'[q] = call[q]) /\ call' = [q \in Calls |-> call'[q]]
  BY <1>1, <1>2, OneCall DEF ProgressTypes
<1>4. Watched' = Watched /\ (Evidenced <=> Evidenced')
  BY <1>1, SameEvidence
<1>5. mark' \in Marks /\ mark'.exists /\ (mark.exists => mark'.watched = mark.watched)
  <2>1. CASE mark.exists
    <3>1. mark' = [mark EXCEPT !.completed = TRUE, !.percent = 100]
      BY <1>1, <2>1
    <3>2. mark' \in Marks
      <4>1. mark' = [exists |-> mark.exists, pos |-> mark.pos, percent |-> 100,
                     watched |-> mark.watched, completed |-> TRUE]
        BY <1>2, <3>1 DEF Marks
      <4>2. mark.exists \in BOOLEAN /\ mark.pos \in Int /\ mark.watched \in Int
        BY <1>2 DEF Marks
      <4> QED
        BY <4>1, <4>2 DEF Marks
    <3>3. mark'.exists = mark.exists /\ mark'.watched = mark.watched
      BY <1>2, <3>1 DEF Marks
    <3> QED
      BY <2>1, <3>2, <3>3
  <2>2. CASE ~mark.exists
    <3>1. mark' = [exists |-> TRUE, pos |-> Duration, percent |-> 100, watched |-> Duration, completed |-> TRUE]
      BY <1>1, <2>2
    <3> QED
      BY <1>2, <2>2, <3>1 DEF Marks
  <2> QED
    BY <2>1, <2>2
<1>6. ProgressTypes'
  BY <1>1, <1>2, <1>3, <1>5 DEF ProgressTypes
<1>7. rule.type # "MANUAL" => MarkSound(mark)'
  BY <1>1, <1>2, <1>4, <1>5 DEF ProgressInv, ReportSound, MarkSound, PercentOf
<1>8. \A q \in Calls : ReportSound(q)'
  BY <1>1, <1>2, <1>3, <1>4, <1>5 DEF ProgressInv, ReportSound, MarkSound, PercentOf
<1> QED
  BY <1>1, <1>6, <1>7, <1>8 DEF ProgressInv, MarkSound

\* Every step of a mark keeps the invariant.
LEMMA ProgressStep ==
  ASSUME ProgressInv, [ProgressNext]_<<call, progressVars>>
  PROVE  ProgressInv'
<1>0. Duration \in Nat /\ MaxDelta \in Nat
  BY ProgressAssumption
<1>1. ASSUME NEW p \in Calls, report(p) PROVE ProgressInv'
  <2>1. PICK r \in Reports : BeginReport(p, r)
    BY <1>1 DEF report
  <2>2. r = [watched |-> r.watched, pos |-> r.pos] /\ r.watched \in Int /\ r.pos \in Int
    BY <1>0 DEF Reports
  <2>3. BeginReport(p, [watched |-> r.watched, pos |-> r.pos])
    BY <2>1, <2>2
  <2> QED
    BY <2>2, <2>3, ReportIsSound
<1>2. ASSUME NEW p \in Calls, upsertBatch(p) PROVE ProgressInv'
  <2>1. PICK a \in Reports, b \in Reports : BeginReport(p, Collapsed(a, b))
    BY <1>2 DEF upsertBatch, Batches
  <2>2. a.watched \in Int /\ b.watched \in Int /\ a.pos \in Int /\ b.pos \in Int
    BY <1>0 DEF Reports
  <2>3. a.watched + b.watched \in Int
    BY <2>2
  <2>4. Max({a.pos, b.pos}) \in {a.pos, b.pos}
    BY <2>2, MaxOfTwo
  <2>5. Max({a.pos, b.pos}) \in Int
    BY <2>2, <2>4
  <2>6. BeginReport(p, [watched |-> a.watched + b.watched, pos |-> Max({a.pos, b.pos})])
    BY <2>1 DEF Collapsed
  <2> QED
    BY <2>3, <2>5, <2>6, ReportIsSound
<1>3. CASE UNCHANGED <<call, progressVars>>
  <2>1. UNCHANGED <<call, rule, seen, furthest, mark>>
    BY <1>3 DEF progressVars
  <2>2. Watched' = Watched /\ (Evidenced <=> Evidenced')
    BY <2>1, SameEvidence
  <2>3. ProgressTypes'
    BY <2>1 DEF ProgressInv, ProgressTypes
  <2> QED
    BY <2>1, <2>2, <2>3 DEF ProgressInv, ReportSound, MarkSound, PercentOf
<1> QED
  BY <1>1, <1>2, <1>3, HeartbeatKeepsInv, UpsertKeepsInv, BeginMarkKeepsInv, MarkCompleteKeepsInv DEF ProgressNext

\* Before the first heartbeat there is nothing to show.
LEMMA ProgressInitInv == HandlersInit /\ ProgressInit => ProgressInv
<1> SUFFICES ASSUME HandlersInit, ProgressInit PROVE ProgressInv
  OBVIOUS
<1>1. /\ call = [q \in Calls |-> Idle] /\ \A q \in Calls : call[q].op = "idle"
      /\ seen = [t \in Plays |-> [watched |-> 0, pos |-> 0]] /\ furthest = 0 /\ mark = NoMark
      /\ rule \in [type : {"WATCH_PERCENT", "WATCH_FULL", "MANUAL"}, contiguous : BOOLEAN]
  BY DEF HandlersInit, ProgressInit, Idle
<1>2. ProgressTypes
  BY <1>1, ProgressAssumption DEF ProgressTypes, NoMark, Marks
<1>3. Watched \in Nat
  BY <1>2, ObservedType
<1>4. 0 <= PercentOf(furthest + 1)
  <2> DEFINE n == 2 * Duration
             a == 200 * 0 + Duration
  <2>1. n \in Nat /\ n > 0 /\ a \in Int /\ 0 \in Int /\ 0 <= a
    BY ProgressAssumption
  <2>2. 0 \div n <= a \div n /\ a \div n \in Int /\ 0 \div n \in Int
    <3> HIDE DEF n, a
    <3> QED
      BY <2>1, DivMonotone, DivBounds
  <2>3. 0 \div n >= 0
    <3>1. n * (0 \div n) <= 0 /\ 0 < n * (0 \div n) + n
      <4> HIDE DEF n, a
      <4> QED
        BY <2>1, DivBounds
    <3> HIDE DEF n
    <3>2. ASSUME 0 \div n <= -1 PROVE FALSE
      <4>1. n * (0 \div n) <= n * (-1)
        BY <2>1, <2>2, <3>2, LessTimes
      <4>2. n * (-1) = -n
        BY <2>1
      <4> QED
        BY <2>1, <2>2, <3>1, <4>1, <4>2
    <3> QED
      BY <2>2, <3>2
  <2>4. PercentOf(0) = a \div n
    BY DEF PercentOf
  <2>5. PercentOf(0) <= PercentOf(1) /\ PercentOf(0) \in Int /\ PercentOf(1) \in Int
    BY PercentMonotone
  <2> HIDE DEF a, n
  <2>6. 0 <= PercentOf(0)
    BY <2>2, <2>3, <2>4
  <2> QED
    BY <1>1, <2>5, <2>6
<1>5. MarkSound(mark)
  BY <1>1, <1>3, <1>4 DEF MarkSound, NoMark
<1> QED
  BY <1>1, <1>2, <1>5 DEF ProgressInv, ReportSound

\* For any number of tickets, reports and handlers, any duration and threshold: nobody banks
\* more than was recorded and nobody has completed without evidence (upsert, markComplete).
THEOREM ProgressIsOnEvidence == ProgressSpec => []ProgressOnEvidence
<1>1. ProgressInv /\ [ProgressNext]_<<call, progressVars>> => ProgressInv'
  BY ProgressStep
<1>2. ProgressInv => ProgressOnEvidence
  BY DEF ProgressInv, ProgressOnEvidence, MarkSound, Evidenced, Needed, Watched
<1> QED
  BY <1>1, <1>2, ProgressInitInv, PTL DEF ProgressSpec
=============================================================================
