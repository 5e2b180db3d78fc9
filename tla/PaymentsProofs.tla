--------------------------- MODULE PaymentsProofs ---------------------------
(***************************************************************************)
(* Proofs about Payments and Enrollments, for every set of students,       *)
(* courses, cards, prices, keys, requests and webhooks and every bound.    *)
(***************************************************************************)
EXTENDS Enrollments, SumTheorems

USE DEF Enrollments, PaymentIds, PaymentRows, EnrollmentRows, PaymentStatuses, EnrollmentStates

(* A payment that exists has a student and a course. *)
Owned == \A p \in PaymentIds : payment[p].status # "NONE" => payment[p].owner \in Enrollments

Inv == /\ TypeOK /\ Owned
       /\ RefundedNeverExceedsPaid /\ RefundKeyUsedOnce /\ RequestResolvedOnce

-----------------------------------------------------------------------------
(* The end date a grant writes is a day or never. *)
LEMMA EndType ==
  ASSUME now \in Nat, NEW t \in Terms
  PROVE  computeAccessEnd(t) \in Nat \cup {Forever}
BY DEF computeAccessEnd, Terms

(* The recount writes a number. *)
LEMMA RecountType ==
  ASSUME studentCount \in [Courses -> Nat], NEW ks
  PROVE  Recount(ks) \in [Courses -> Nat]
<1>1. ASSUME NEW k \in Courses
      PROVE  Cardinality({u \in Students : enrollment'[<<u, k>>].state = "ACTIVE"}) \in Nat
  BY AccessAssumption, FS_Subset, FS_CardinalityType
<1>. QED
  BY <1>1 DEF Recount

(* What revokeEnrollmentInTx does to the tables, given the payments table base. *)
LEMMA RevokeEffect ==
  ASSUME AccessTypeOK, NEW e \in Enrollments, NEW base \in [PaymentIds -> PaymentRows],
         revokeEnrollmentInTx(e, base), UNCHANGED now
  PROVE  /\ AccessTypeOK'
         /\ \A p \in PaymentIds :
              \/ payment'[p] = base[p]
              \/ /\ base[p].status = "PENDING" /\ base[p].owner = e
                 /\ payment'[p] = [base[p] EXCEPT !.status = "CANCELLED"]
         /\ enrollment[e].state # "REVOKED" =>
              \A p \in PaymentIds : payment'[p].owner = e => payment'[p].status # "PENDING"
         /\ enrollment'[e].state = "REVOKED"
         /\ \A f \in Enrollments : f # e => enrollment'[f] = enrollment[f]
<1>1. CASE enrollment[e].state = "REVOKED"
  BY <1>1 DEF AccessTypeOK, revokeEnrollmentInTx
<1>2. CASE enrollment[e].state # "REVOKED"
  <2>. DEFINE row == [enrollment[e] EXCEPT !.state = "REVOKED", !.covers = FALSE, !.grants = {}]
  <2>0. enrollment \in [Enrollments -> EnrollmentRows] /\ enrollment[e] \in EnrollmentRows
    BY DEF AccessTypeOK
  <2>a. row \in EnrollmentRows /\ row.state = "REVOKED"
    BY <2>0
  <2>b. enrollment' = [enrollment EXCEPT ![e] = row]
    BY <1>2, Zenon DEF revokeEnrollmentInTx, WithdrawnRow
  <2>. HIDE DEF row
  <2>1. enrollment' \in [Enrollments -> EnrollmentRows]
    BY <2>0, <2>a, <2>b
  <2>2. payment' = [p \in PaymentIds |->
            IF base[p].owner = e /\ base[p].status = "PENDING"
            THEN [base[p] EXCEPT !.status = "CANCELLED"] ELSE base[p]]
    BY <1>2 DEF revokeEnrollmentInTx, CheckoutsClosed
  <2>3. ASSUME NEW p \in PaymentIds
        PROVE  [base[p] EXCEPT !.status = "CANCELLED"] \in PaymentRows
    OBVIOUS
  <2>4. payment' \in [PaymentIds -> PaymentRows]
    BY <2>2, <2>3
  <2>5. studentCount' \in [Courses -> Nat]
    BY <1>2, RecountType DEF AccessTypeOK, revokeEnrollmentInTx
  <2>6. entitlement' \in [Enrollments -> SUBSET Parts] /\ ticket' \in [Enrollments -> BOOLEAN]
    BY <1>2 DEF AccessTypeOK, revokeEnrollmentInTx
  <2>7. AccessTypeOK'
    BY <2>1, <2>4, <2>5, <2>6 DEF AccessTypeOK
  <2>8. enrollment'[e].state = "REVOKED" /\ \A f \in Enrollments : f # e => enrollment'[f] = enrollment[f]
    BY <2>0, <2>a, <2>b
  <2>9. ASSUME NEW p \in PaymentIds
        PROVE  /\ \/ payment'[p] = base[p]
                  \/ /\ base[p].status = "PENDING" /\ base[p].owner = e
                     /\ payment'[p] = [base[p] EXCEPT !.status = "CANCELLED"]
               /\ payment'[p].owner = e => payment'[p].status # "PENDING"
    BY <2>2
  <2>. QED
    BY <2>7, <2>8, <2>9
<1>. QED
  BY <1>1, <1>2

(* A table with row p replaced keeps the payment invariants if the row does. *)
RowOK(row) ==
  /\ row \in PaymentRows
  /\ row.status # "NONE" => row.owner \in Enrollments
  /\ row.refunded <= row.amount
  /\ row.status = "REFUNDED" => row.refunded = row.amount

LEMMA RowsOK ==
  (\A p \in PaymentIds : RowOK(payment[p])) <=>
    (/\ \A p \in PaymentIds : payment[p] \in PaymentRows
     /\ Owned /\ RefundedNeverExceedsPaid)
BY DEF RowOK, Owned, RefundedNeverExceedsPaid

(* Appending a row with a fresh key, or none, that resolves nothing, or an open
   request, keeps the two refund-row invariants. *)
LEMMA AppendRow ==
  ASSUME NEW p \in PaymentIds, refunds \in [PaymentIds -> Seq(RefundRows)],
         RefundKeyUsedOnce, RequestResolvedOnce, NEW row \in RefundRows,
         \/ row.key = NoRequestKey
         \/ \A i \in 1..Len(refunds[p]) : refunds[p][i].key # row.key,
         \/ row.request = 0
         \/ /\ row.request \in 1..Len(refunds[p])
            /\ \A i \in 1..Len(refunds[p]) : refunds[p][i].request # row.request,
         refunds' = [refunds EXCEPT ![p] = Append(@, row)]
  PROVE  /\ refunds' \in [PaymentIds -> Seq(RefundRows)]
         /\ RefundKeyUsedOnce' /\ RequestResolvedOnce'
<1>. DEFINE old == refunds[p]  new == refunds'[p]
<1>1. /\ old \in Seq(RefundRows) /\ new = Append(old, row)
      /\ refunds' \in [PaymentIds -> Seq(RefundRows)]
      /\ \A q \in PaymentIds : q # p => refunds'[q] = refunds[q]
  OBVIOUS
<1>2. /\ Len(new) = Len(old) + 1 /\ Len(old) \in Nat
      /\ \A i \in 1..Len(old) : new[i] = old[i]
      /\ new[Len(old) + 1] = row
  BY <1>1
<1>3. \A i \in 1..Len(old) : old[i] \in RefundRows
  BY <1>1
<1>4. ASSUME NEW i \in 1..Len(new), NEW j \in 1..Len(new)
      PROVE  /\ (new[i].key = new[j].key /\ new[i].key # NoRequestKey) => i = j
             /\ new[i].request < i
             /\ (new[i].request = new[j].request /\ new[i].request > 0) => i = j
  <2>1. (i \in 1..Len(old) \/ i = Len(old) + 1) /\ (j \in 1..Len(old) \/ j = Len(old) + 1)
    BY <1>2
  <2>2. CASE i \in 1..Len(old) /\ j \in 1..Len(old)
    BY <2>2, <1>2 DEF RefundKeyUsedOnce, RequestResolvedOnce
  <2>3. CASE i = Len(old) + 1 /\ j \in 1..Len(old)
    BY <2>3, <1>2, <1>3 DEF RefundKeyUsedOnce, RequestResolvedOnce, RefundRows
  <2>4. CASE i \in 1..Len(old) /\ j = Len(old) + 1
    BY <2>4, <1>2, <1>3 DEF RefundKeyUsedOnce, RequestResolvedOnce, RefundRows
  <2>5. CASE i = Len(old) + 1 /\ j = Len(old) + 1
    BY <2>5, <1>2 DEF RefundRows
  <2>. QED
    BY <2>1, <2>2, <2>3, <2>4, <2>5
<1>5. RefundKeyUsedOnce'
  BY <1>1, <1>4 DEF RefundKeyUsedOnce
<1>6. RequestResolvedOnce'
  BY <1>1, <1>4 DEF RequestResolvedOnce
<1>. QED
  BY <1>1, <1>5, <1>6

-----------------------------------------------------------------------------
(* The rows a completed refund leaves in the payments table. *)
LEMMA RefundedRowOK ==
  ASSUME NEW p \in PaymentIds, payment \in [PaymentIds -> PaymentRows],
         \A q \in PaymentIds : RowOK(payment[q]),
         NEW amount \in Nat, amount > 0, payment[p].refunded + amount <= payment[p].amount,
         Refundable(p)
  PROVE  /\ RefundedRow(p, amount) \in [PaymentIds -> PaymentRows]
         /\ \A q \in PaymentIds : RowOK(RefundedRow(p, amount)[q])
         /\ \A q \in PaymentIds : RefundedRow(p, amount)[q].owner = payment[q].owner
         /\ \A q \in PaymentIds : q # p => RefundedRow(p, amount)[q] = payment[q]
         /\ RefundedRow(p, amount)[p].status \in {"REFUNDED", "PARTIALLY_REFUNDED"}
<1>. DEFINE total == payment[p].refunded + amount
            row == [payment[p] EXCEPT !.refunded = total,
                      !.status = IF total = payment[p].amount
                                 THEN "REFUNDED" ELSE "PARTIALLY_REFUNDED"]
<1>1. payment[p] \in PaymentRows /\ RowOK(payment[p]) /\ total \in Nat
  OBVIOUS
<1>2. /\ row \in PaymentRows /\ row.owner = payment[p].owner
      /\ row.status \in {"REFUNDED", "PARTIALLY_REFUNDED"}
      /\ row.refunded = total /\ row.amount = payment[p].amount
      /\ row.status = "REFUNDED" => total = payment[p].amount
  BY <1>1
<1>3. RefundedRow(p, amount) = [payment EXCEPT ![p] = row]
  BY Zenon DEF RefundedRow
<1>4. payment[p].owner \in Enrollments
  BY <1>1 DEF RowOK, Refundable
<1>. HIDE DEF row, total
<1>5. RowOK(row)
  BY <1>2, <1>4 DEF RowOK, total
<1>. QED
  BY <1>2, <1>3, <1>5

(* Cancelling a checkout keeps a row well formed. *)
LEMMA CancelledRowOK ==
  ASSUME NEW row, RowOK(row), row.status = "PENDING"
  PROVE  RowOK([row EXCEPT !.status = "CANCELLED"])
BY DEF RowOK

(* The initial tables satisfy the invariant. *)
LEMMA InitInv == Init => Inv
<1>. SUFFICES ASSUME Init PROVE Inv
  OBVIOUS
<1>1. NoEnrollment \in EnrollmentRows /\ NoPayment \in PaymentRows
  BY DEF NoEnrollment, NoPayment
<1>2. AccessTypeOK
  BY <1>1 DEF Init, AccessInit, AccessTypeOK
<1>3. TypeOK
  BY <1>2 DEF Init, TypeOK
<1>4. Owned /\ RefundedNeverExceedsPaid
  BY AccessAssumption DEF Init, AccessInit, NoPayment, Owned, RefundedNeverExceedsPaid
<1>5. RefundKeyUsedOnce /\ RequestResolvedOnce
  BY DEF Init, RefundKeyUsedOnce, RequestResolvedOnce
<1>. QED
  BY <1>3, <1>4, <1>5 DEF Inv

(* A step that touches no table but its own slots keeps the invariant. *)
LEMMA TablesUnchanged ==
  ASSUME Inv, UNCHANGED <<enrollment, entitlement, ticket, payment, studentCount, now,
                          refunds, revenue>>,
         recorded' \subseteq PaymentIds \X RefundKeys,
         request' \in [Requests -> [op : {"idle"}]
                         \cup [op : {"checkout"}, on : Enrollments, price : Prices]],
         hook' \in [Hooks -> [at : {"idle"}]
                      \cup [at : {"apply", "fail", "mark"}, event : Events]],
         processed' \subseteq Events
  PROVE  Inv'
<1>1. AccessTypeOK'
  BY DEF Inv, TypeOK, AccessTypeOK
<1>2. TypeOK'
  BY <1>1 DEF Inv, TypeOK
<1>3. Owned' /\ RefundedNeverExceedsPaid'
  BY DEF Inv, Owned, RefundedNeverExceedsPaid
<1>4. RefundKeyUsedOnce' /\ RequestResolvedOnce'
  BY DEF Inv, RefundKeyUsedOnce, RequestResolvedOnce
<1>. QED
  BY <1>2, <1>3, <1>4 DEF Inv

(* A step that replaces row p of the payments table by a well-formed one. *)
LEMMA PaymentReplaced ==
  ASSUME Inv, NEW p \in PaymentIds, NEW row, RowOK(row),
         payment' = [payment EXCEPT ![p] = row]
  PROVE  /\ payment' \in [PaymentIds -> PaymentRows]
         /\ Owned' /\ RefundedNeverExceedsPaid'
BY DEF Inv, TypeOK, AccessTypeOK, RowOK, Owned, RefundedNeverExceedsPaid

(* joinWithPayment: the upsert and the checkout. *)
LEMMA JoinKeepsInv == ASSUME Inv, NEW r \in Requests, joinWithPayment(r) PROVE Inv'
<1>. DEFINE e == request[r].on
            row == [enrollment[e] EXCEPT !.state = "PENDING_PAYMENT"]
            new == [owner |-> e, status |-> "PENDING", amount |-> request[r].price,
                    refunded |-> 0, fresh |-> TRUE]
<1>1. e \in Enrollments /\ request[r].price \in Prices
  BY DEF joinWithPayment, Inv, TypeOK
<1>2. enrollment' = [enrollment EXCEPT ![e].state = "PENDING_PAYMENT"]
  BY DEF joinWithPayment
<1>a. enrollment \in [Enrollments -> EnrollmentRows] /\ enrollment[e] \in EnrollmentRows
  BY <1>1 DEF Inv, TypeOK, AccessTypeOK
<1>b. row \in EnrollmentRows /\ enrollment' = [enrollment EXCEPT ![e] = row]
  BY <1>1, <1>2, <1>a
<1>c. request[r].price \in Nat
  BY <1>1, PaymentsAssumption
<1>. HIDE DEF row
<1>3. enrollment' \in [Enrollments -> EnrollmentRows]
  BY <1>a, <1>b
<1>4. RowOK(new)
  <2>1. new \in PaymentRows
    BY <1>1, <1>c
  <2>. QED
    BY <2>1, <1>1, <1>c DEF RowOK
<1>5. payment' = payment \/ \E p \in PaymentIds : payment' = [payment EXCEPT ![p] = new]
  BY DEF joinWithPayment, createPendingPayment
<1>. HIDE DEF new
<1>6. /\ payment' \in [PaymentIds -> PaymentRows]
      /\ Owned' /\ RefundedNeverExceedsPaid'
  <2>1. CASE payment' = payment
    BY <2>1 DEF Inv, TypeOK, AccessTypeOK, Owned, RefundedNeverExceedsPaid
  <2>2. CASE \E p \in PaymentIds : payment' = [payment EXCEPT ![p] = new]
    BY <2>2, <1>4, PaymentReplaced
  <2>. QED
    BY <1>5, <2>1, <2>2
<1>7. request' \in [Requests -> [op : {"idle"}]
                     \cup [op : {"checkout"}, on : Enrollments, price : Prices]]
  BY DEF joinWithPayment, Inv, TypeOK
<1>8. UNCHANGED <<entitlement, ticket, studentCount, now, refunds, revenue, recorded,
                  hook, processed>>
  BY DEF joinWithPayment
<1>9. AccessTypeOK'
  BY <1>3, <1>6, <1>8 DEF Inv, TypeOK, AccessTypeOK
<1>10. TypeOK'
  BY <1>7, <1>8, <1>9 DEF Inv, TypeOK
<1>11. RefundKeyUsedOnce' /\ RequestResolvedOnce'
  BY <1>8 DEF Inv, RefundKeyUsedOnce, RequestResolvedOnce
<1>. QED
  BY <1>6, <1>10, <1>11 DEF Inv

(* The types of the request and webhook slots. *)
SlotsOK ==
  /\ request \in [Requests -> [op : {"idle"}]
                    \cup [op : {"checkout"}, on : Enrollments, price : Prices]]
  /\ hook \in [Hooks -> [at : {"idle"}]
                 \cup [at : {"apply", "fail", "mark"}, event : Events]]
  /\ processed \subseteq Events

(* capture: the payment, the enrollment, the revenue line and the recount. *)
LEMMA CaptureKeepsInv ==
  ASSUME Inv, NEW p \in PaymentIds, capture(p), SlotsOK'
  PROVE  Inv'
<1>. DEFINE e == payment[p].owner
            amount == payment[p].amount
            paid == [payment[p] EXCEPT !.status = "PAID"]
            row == [enrollment[e] EXCEPT !.state = "ACTIVE", !.covers = TRUE,
                      !.ends = computeAccessEnd(CourseTerms[e[2]])]
<1>1. payment \in [PaymentIds -> PaymentRows] /\ payment[p] \in PaymentRows
  BY DEF Inv, TypeOK, AccessTypeOK
<1>2. e \in Enrollments /\ amount \in Nat /\ payment[p].status \in {"PENDING", "FAILED"}
  BY <1>1 DEF capture, Capturable, Inv, Owned
<1>3. payment[p].refunded <= amount
  BY DEF Inv, RefundedNeverExceedsPaid
<1>4. RowOK(paid)
  <2>1. paid \in PaymentRows /\ paid.owner = e /\ paid.refunded = payment[p].refunded
        /\ paid.amount = amount /\ paid.status = "PAID"
    BY <1>1
  <2>. QED
    BY <2>1, <1>2, <1>3 DEF RowOK
<1>5. payment' = [payment EXCEPT ![p] = paid]
  BY <1>1 DEF capture
<1>. HIDE DEF paid
<1>6. payment' \in [PaymentIds -> PaymentRows] /\ Owned' /\ RefundedNeverExceedsPaid'
  BY <1>4, <1>5, PaymentReplaced
<1>7. CourseTerms[e[2]] \in Terms
  BY <1>2, AccessAssumption
<1>8. computeAccessEnd(CourseTerms[e[2]]) \in Nat \cup {Forever}
  BY <1>7, EndType DEF Inv, TypeOK, AccessTypeOK
<1>9. enrollment \in [Enrollments -> EnrollmentRows] /\ enrollment[e] \in EnrollmentRows
  BY <1>2 DEF Inv, TypeOK, AccessTypeOK
<1>10. row \in EnrollmentRows
  BY <1>8, <1>9
<1>11. enrollment' = [enrollment EXCEPT ![e] = row]
  BY Zenon DEF capture
<1>. HIDE DEF row
<1>12. enrollment' \in [Enrollments -> EnrollmentRows]
  BY <1>9, <1>10, <1>11
<1>13. studentCount' \in [Courses -> Nat]
  BY RecountType DEF capture, Inv, TypeOK, AccessTypeOK
<1>14. UNCHANGED <<entitlement, ticket, now, refunds, recorded>>
  BY DEF capture
<1>15. AccessTypeOK'
  BY <1>6, <1>12, <1>13, <1>14 DEF Inv, TypeOK, AccessTypeOK
<1>16. revenue' \in [PaymentIds -> Seq(RevenueLines)]
  <2>1. PICK share \in Shares, t \in 0..amount :
          revenue' = [revenue EXCEPT ![p] = Append(@,
            [gross |-> amount, teacher |-> t, platform |-> amount - t, share |-> share])]
    BY DEF capture
  <2>2. share \in Nat
    BY PaymentsAssumption DEF IsBasisPoints
  <2>3. [gross |-> amount, teacher |-> t, platform |-> amount - t, share |-> share] \in RevenueLines
    BY <1>2, <2>2 DEF RevenueLines
  <2>. QED
    BY <2>1, <2>3 DEF Inv, TypeOK
<1>17. TypeOK'
  BY <1>14, <1>15, <1>16 DEF Inv, TypeOK, SlotsOK
<1>18. RefundKeyUsedOnce' /\ RequestResolvedOnce'
  BY <1>14 DEF Inv, RefundKeyUsedOnce, RequestResolvedOnce
<1>. QED
  BY <1>6, <1>17, <1>18 DEF Inv

(* applySucceededRefund: the row it appends and the contra line are well formed. *)
LEMMA ApplyEffect ==
  ASSUME Inv, NEW p \in PaymentIds, NEW amount \in Nat, NEW key \in RefundKeys \cup {NoRequestKey},
         NEW of \in Nat, applySucceededRefund(p, amount, key, of),
         \/ key = NoRequestKey
         \/ \A i \in 1..Len(refunds[p]) : refunds[p][i].key # key,
         \/ of = 0
         \/ /\ of \in 1..Len(refunds[p])
            /\ \A i \in 1..Len(refunds[p]) : refunds[p][i].request # of
  PROVE  /\ refunds' \in [PaymentIds -> Seq(RefundRows)]
         /\ RefundKeyUsedOnce' /\ RequestResolvedOnce'
         /\ revenue' \in [PaymentIds -> Seq(RevenueLines)]
         /\ amount > 0 /\ payment[p].refunded + amount <= payment[p].amount
<1>. DEFINE row == [type |-> "refund", amount |-> amount, key |-> key, request |-> of]
<1>1. row \in RefundRows /\ row.key = key /\ row.request = of
  BY DEF RefundRows
<1>2. refunds' = [refunds EXCEPT ![p] = Append(@, row)]
  BY DEF applySucceededRefund
<1>. HIDE DEF row
<1>3. /\ refunds' \in [PaymentIds -> Seq(RefundRows)]
      /\ RefundKeyUsedOnce' /\ RequestResolvedOnce'
  BY <1>1, <1>2, AppendRow DEF Inv, TypeOK
<1>4. revenue' \in [PaymentIds -> Seq(RevenueLines)]
  <2>1. PICK t \in 0..amount :
          revenue' = [revenue EXCEPT ![p] = Append(@,
            [gross |-> -amount, teacher |-> -t, platform |-> -(amount - t), share |-> 0])]
    BY DEF applySucceededRefund
  <2>2. [gross |-> -amount, teacher |-> -t, platform |-> -(amount - t), share |-> 0] \in RevenueLines
    BY DEF RevenueLines
  <2>. QED
    BY <2>1, <2>2 DEF Inv, TypeOK
<1>5. amount > 0 /\ payment[p].refunded + amount <= payment[p].amount
  BY DEF applySucceededRefund
<1>. QED
  BY <1>3, <1>4, <1>5

(* A key that KeyUsed does not know is on no row. *)
LEMMA FreshKey ==
  ASSUME Inv, NEW p \in PaymentIds, NEW key, ~KeyUsed(p, key)
  PROVE  \A i \in 1..Len(refunds[p]) : refunds[p][i].key # key
BY DEF KeyUsed, Inv, TypeOK

(* An open request is a row of the payment that nothing resolves. *)
LEMMA OpenRequest ==
  ASSUME Inv, NEW p \in PaymentIds, NEW i, RequestOpen(p, i)
  PROVE  /\ i \in 1..Len(refunds[p]) /\ refunds[p][i] \in RefundRows
         /\ \A j \in 1..Len(refunds[p]) : refunds[p][j].request # i
BY DEF RequestOpen, Resolved, Inv, TypeOK

(* Every row of the payments table is well formed. *)
LEMMA InvRows == Inv => /\ payment \in [PaymentIds -> PaymentRows]
                        /\ \A q \in PaymentIds : RowOK(payment[q])
BY RowsOK DEF Inv, TypeOK, AccessTypeOK

(* revokeAccess after a table of well-formed rows leaves well-formed tables. *)
LEMMA RevokeKeeps ==
  ASSUME Inv, NEW p \in PaymentIds, Refundable(p), UNCHANGED now,
         NEW base \in [PaymentIds -> PaymentRows], \A q \in PaymentIds : RowOK(base[q]),
         revokeAccess(p, base)
  PROVE  AccessTypeOK' /\ Owned' /\ RefundedNeverExceedsPaid'
<1>. DEFINE e == payment[p].owner
<1>1. e \in Enrollments
  BY DEF Inv, Owned, Refundable
<1>2. revokeEnrollmentInTx(e, base) /\ AccessTypeOK
  BY DEF revokeAccess, Inv, TypeOK
<1>3. /\ AccessTypeOK'
      /\ \A q \in PaymentIds :
           \/ payment'[q] = base[q]
           \/ /\ base[q].status = "PENDING" /\ base[q].owner = e
              /\ payment'[q] = [base[q] EXCEPT !.status = "CANCELLED"]
  BY <1>1, <1>2, RevokeEffect
<1>4. ASSUME NEW q \in PaymentIds PROVE RowOK(payment'[q])
  <2>1. CASE payment'[q] = base[q]
    BY <2>1
  <2>2. CASE base[q].status = "PENDING" /\ payment'[q] = [base[q] EXCEPT !.status = "CANCELLED"]
    BY <2>2, CancelledRowOK
  <2>. QED
    BY <1>3, <2>1, <2>2
<1>5. Owned' /\ RefundedNeverExceedsPaid'
  BY <1>4 DEF RowOK, Owned, RefundedNeverExceedsPaid
<1>. QED
  BY <1>3, <1>5

(* refund, immediate or pending. *)
LEMMA RefundKeepsInv ==
  ASSUME Inv, NEW p \in PaymentIds, NEW asked, NEW immediate, NEW key \in RefundKeys,
         refund(p, asked, immediate, key)
  PROVE  Inv'
<1>1. PICK amount \in 1..payment[p].amount :
        IF immediate
        THEN /\ applySucceededRefund(p, amount, key, 0)
             /\ revokeAccess(p, RefundedRow(p, amount))
        ELSE /\ refunds' = [refunds EXCEPT ![p] = Append(@,
                  [type |-> "refund_request", amount |-> amount, key |-> key, request |-> 0])]
             /\ UNCHANGED revenue
             /\ revokeAccess(p, payment)
  BY DEF refund
<1>2. ~KeyUsed(p, key) /\ Refundable(p) /\ UNCHANGED <<now, request, hook, processed>>
      /\ recorded' = recorded \cup {<<p, key>>}
  BY DEF refund
<1>3. \A i \in 1..Len(refunds[p]) : refunds[p][i].key # key
  BY <1>2, FreshKey
<1>4. payment \in [PaymentIds -> PaymentRows] /\ \A q \in PaymentIds : RowOK(payment[q])
  BY InvRows
<1>5. amount \in Nat
  BY <1>4
<1>6. /\ AccessTypeOK' /\ Owned' /\ RefundedNeverExceedsPaid'
      /\ refunds' \in [PaymentIds -> Seq(RefundRows)]
      /\ RefundKeyUsedOnce' /\ RequestResolvedOnce'
      /\ revenue' \in [PaymentIds -> Seq(RevenueLines)]
  <2>1. CASE immediate
    <3>1. applySucceededRefund(p, amount, key, 0) /\ revokeAccess(p, RefundedRow(p, amount))
      BY <1>1, <2>1
    <3>2. /\ refunds' \in [PaymentIds -> Seq(RefundRows)]
          /\ RefundKeyUsedOnce' /\ RequestResolvedOnce'
          /\ revenue' \in [PaymentIds -> Seq(RevenueLines)]
          /\ amount > 0 /\ payment[p].refunded + amount <= payment[p].amount
      BY <3>1, <1>3, <1>5, ApplyEffect
    <3>3. /\ RefundedRow(p, amount) \in [PaymentIds -> PaymentRows]
          /\ \A q \in PaymentIds : RowOK(RefundedRow(p, amount)[q])
      BY <1>2, <1>4, <1>5, <3>2, RefundedRowOK
    <3>4. AccessTypeOK' /\ Owned' /\ RefundedNeverExceedsPaid'
      BY <1>2, <3>1, <3>3, RevokeKeeps
    <3>. QED
      BY <3>2, <3>4
  <2>2. CASE ~immediate
    <3>. DEFINE row == [type |-> "refund_request", amount |-> amount, key |-> key, request |-> 0]
    <3>1. refunds' = [refunds EXCEPT ![p] = Append(@, row)] /\ UNCHANGED revenue
          /\ revokeAccess(p, payment)
      BY <1>1, <2>2
    <3>2. row \in RefundRows /\ row.key = key /\ row.request = 0
      BY <1>5 DEF RefundRows
    <3>. HIDE DEF row
    <3>3. /\ refunds' \in [PaymentIds -> Seq(RefundRows)]
          /\ RefundKeyUsedOnce' /\ RequestResolvedOnce'
      BY <3>1, <3>2, <1>3, AppendRow DEF Inv, TypeOK
    <3>4. AccessTypeOK' /\ Owned' /\ RefundedNeverExceedsPaid'
      BY <1>2, <1>4, <3>1, RevokeKeeps
    <3>. QED
      BY <3>1, <3>3, <3>4 DEF Inv, TypeOK
  <2>. QED
    BY <2>1, <2>2
<1>7. TypeOK'
  BY <1>2, <1>6 DEF Inv, TypeOK
<1>. QED
  BY <1>6, <1>7 DEF Inv

(* completeRequest. *)
LEMMA CompleteKeepsInv ==
  ASSUME Inv, NEW p \in PaymentIds, NEW i, completeRequest(p, i)
  PROVE  Inv'
<1>. DEFINE amount == refunds[p][i].amount
<1>1. /\ RequestOpen(p, i) /\ Refundable(p) /\ applySucceededRefund(p, amount, NoRequestKey, i)
      /\ payment' = RefundedRow(p, amount)
      /\ UNCHANGED <<enrollment, entitlement, ticket, studentCount, now,
                     recorded, request, hook, processed>>
  BY DEF completeRequest
<1>2. /\ i \in 1..Len(refunds[p]) /\ amount \in Nat
      /\ \A j \in 1..Len(refunds[p]) : refunds[p][j].request # i
  BY <1>1, OpenRequest DEF RefundRows
<1>. HIDE DEF amount
<1>3. i \in Nat
  BY <1>2 DEF Inv, TypeOK
<1>4. /\ refunds' \in [PaymentIds -> Seq(RefundRows)]
      /\ RefundKeyUsedOnce' /\ RequestResolvedOnce'
      /\ revenue' \in [PaymentIds -> Seq(RevenueLines)]
      /\ amount > 0 /\ payment[p].refunded + amount <= payment[p].amount
  BY <1>1, <1>2, <1>3, ApplyEffect
<1>5. /\ payment' \in [PaymentIds -> PaymentRows]
      /\ \A q \in PaymentIds : RowOK(payment'[q])
  BY <1>1, <1>2, <1>4, InvRows, RefundedRowOK
<1>6. Owned' /\ RefundedNeverExceedsPaid'
  BY <1>5 DEF RowOK, Owned, RefundedNeverExceedsPaid
<1>7. AccessTypeOK'
  BY <1>1, <1>5 DEF Inv, TypeOK, AccessTypeOK
<1>8. TypeOK'
  BY <1>1, <1>4, <1>7 DEF Inv, TypeOK
<1>. QED
  BY <1>4, <1>6, <1>8 DEF Inv

(* failRequest. *)
LEMMA FailRequestKeepsInv ==
  ASSUME Inv, NEW p \in PaymentIds, NEW i, failRequest(p, i)
  PROVE  Inv'
<1>. DEFINE row == [type |-> "refund_failed", amount |-> 0, key |-> NoRequestKey, request |-> i]
<1>1. /\ RequestOpen(p, i) /\ refunds' = [refunds EXCEPT ![p] = Append(@, row)]
      /\ UNCHANGED <<enrollment, entitlement, ticket, payment, studentCount, now,
                     revenue, recorded, request, hook, processed>>
  BY DEF failRequest
<1>2. /\ i \in 1..Len(refunds[p])
      /\ \A j \in 1..Len(refunds[p]) : refunds[p][j].request # i
  BY <1>1, OpenRequest
<1>3. i \in Nat
  BY <1>2 DEF Inv, TypeOK
<1>4. row \in RefundRows /\ row.key = NoRequestKey /\ row.request = i
  BY <1>3 DEF RefundRows
<1>. HIDE DEF row
<1>5. /\ refunds' \in [PaymentIds -> Seq(RefundRows)]
      /\ RefundKeyUsedOnce' /\ RequestResolvedOnce'
  BY <1>1, <1>2, <1>4, AppendRow DEF Inv, TypeOK
<1>6. AccessTypeOK' /\ Owned' /\ RefundedNeverExceedsPaid'
  BY <1>1 DEF Inv, TypeOK, AccessTypeOK, Owned, RefundedNeverExceedsPaid
<1>7. TypeOK'
  BY <1>1, <1>5, <1>6 DEF Inv, TypeOK
<1>. QED
  BY <1>5, <1>6, <1>7 DEF Inv

-----------------------------------------------------------------------------
(* A busy webhook slot holds an event; moving it on keeps it well formed. *)
BusyHooks == [at : {"apply", "fail", "mark"}, event : Events]

LEMMA HookMoves ==
  ASSUME Inv, NEW h \in Hooks, hook[h].at # "idle", NEW at \in {"apply", "fail", "mark"},
         HookAt(h, at)
  PROVE  /\ hook' \in [Hooks -> [at : {"idle"}] \cup BusyHooks]
         /\ hook[h].event.payment \in PaymentIds
         /\ hook'[h].event = hook[h].event
         /\ \A g \in Hooks : g # h => hook'[g] = hook[g]
<1>. DEFINE row == [hook[h] EXCEPT !.at = at]
<1>1. hook \in [Hooks -> [at : {"idle"}] \cup BusyHooks] /\ hook[h] \in BusyHooks
  BY DEF Inv, TypeOK, BusyHooks
<1>2. row \in BusyHooks /\ row.event = hook[h].event
  BY <1>1 DEF BusyHooks
<1>3. hook' = [hook EXCEPT ![h] = row]
  BY <1>1 DEF HookAt
<1>4. hook[h].event.payment \in PaymentIds
  BY <1>1 DEF BusyHooks, Events
<1>. HIDE DEF row
<1>. QED
  BY <1>1, <1>2, <1>3, <1>4

(* A webhook that has been let in is about a payment that exists. *)
HookOwned ==
  \A h \in Hooks : hook[h].at # "idle" => payment[hook[h].event.payment].owner \in Enrollments

(* JoinChecks, CheckoutAges and pruneIdempotency. *)
LEMMA SmallStepsKeepInv ==
  ASSUME Inv,
         \/ \E r \in Requests, e \in Enrollments, price \in Prices : JoinChecks(r, e, price)
         \/ \E p \in PaymentIds : CheckoutAges(p)
         \/ pruneIdempotency
  PROVE  Inv'
<1>1. ASSUME NEW r \in Requests, NEW e \in Enrollments, NEW price \in Prices,
             JoinChecks(r, e, price)
      PROVE  Inv'
  <2>1. request' \in [Requests -> [op : {"idle"}]
                        \cup [op : {"checkout"}, on : Enrollments, price : Prices]]
    BY <1>1 DEF JoinChecks, Inv, TypeOK
  <2>. QED
    BY <1>1, <2>1, TablesUnchanged DEF JoinChecks, Inv, TypeOK
<1>2. ASSUME NEW p \in PaymentIds, CheckoutAges(p) PROVE Inv'
  <2>. DEFINE row == [payment[p] EXCEPT !.fresh = FALSE]
  <2>1. payment \in [PaymentIds -> PaymentRows] /\ RowOK(payment[p])
    BY InvRows
  <2>2. payment' = [payment EXCEPT ![p] = row] /\ RowOK(row)
    BY <1>2, <2>1 DEF CheckoutAges, RowOK
  <2>. HIDE DEF row
  <2>3. payment' \in [PaymentIds -> PaymentRows] /\ Owned' /\ RefundedNeverExceedsPaid'
    BY <2>2, PaymentReplaced
  <2>4. UNCHANGED <<enrollment, entitlement, ticket, studentCount, now,
                    refunds, revenue, recorded, request, hook, processed>>
    BY <1>2 DEF CheckoutAges
  <2>5. TypeOK'
    BY <2>3, <2>4 DEF Inv, TypeOK, AccessTypeOK
  <2>6. RefundKeyUsedOnce' /\ RequestResolvedOnce'
    BY <2>4 DEF Inv, RefundKeyUsedOnce, RequestResolvedOnce
  <2>. QED
    BY <2>3, <2>5, <2>6 DEF Inv
<1>3. ASSUME pruneIdempotency PROVE Inv'
  <2>1. recorded' \subseteq recorded /\ processed' \subseteq processed
    BY <1>3 DEF pruneIdempotency
  <2>. QED
    BY <1>3, <2>1, TablesUnchanged DEF pruneIdempotency, Inv, TypeOK
<1>. QED
  BY <1>1, <1>2, <1>3

(* The steps of a webhook delivery. *)
LEMMA WebhookKeepsInv ==
  ASSUME Inv, HookOwned, WebhookStep
  PROVE  Inv'
<1>1. PICK h \in Hooks :
        \/ \E event \in Events : WebhookArrives(h, event)
        \/ WebhookCaptures(h) \/ FailReads(h) \/ FailWrites(h) \/ markProcessed(h)
  BY DEF WebhookStep
<1>2. ASSUME NEW event \in Events, WebhookArrives(h, event) PROVE Inv'
  <2>1. hook' \in [Hooks -> [at : {"idle"}]
                      \cup [at : {"apply", "fail", "mark"}, event : Events]]
    BY <1>2 DEF WebhookArrives, Inv, TypeOK
  <2>. QED
    BY <1>2, <2>1, TablesUnchanged DEF WebhookArrives, Inv, TypeOK
<1>3. CASE WebhookCaptures(h)
  <2>. DEFINE p == hook[h].event.payment
  <2>1. /\ hook[h].at = "apply" /\ HookAt(h, "mark") /\ UNCHANGED <<request, processed>>
        /\ capture(p) \/ UNCHANGED <<accessVars, paymentVars>>
    BY <1>3 DEF WebhookCaptures
  <2>2. /\ hook' \in [Hooks -> [at : {"idle"}] \cup BusyHooks] /\ p \in PaymentIds
    BY <2>1, HookMoves
  <2>3. SlotsOK'
    BY <2>1, <2>2 DEF SlotsOK, BusyHooks, Inv, TypeOK
  <2>4. CASE capture(p)
    BY <2>2, <2>3, <2>4, CaptureKeepsInv
  <2>5. CASE UNCHANGED <<accessVars, paymentVars>>
    BY <2>1, <2>3, <2>5, TablesUnchanged DEF accessVars, paymentVars, SlotsOK, Inv, TypeOK
  <2>. QED
    BY <2>1, <2>4, <2>5
<1>4. CASE FailReads(h)
  <2>1. PICK at \in {"mark", "fail"} : HookAt(h, at)
    BY <1>4 DEF FailReads
  <2>2. hook' \in [Hooks -> [at : {"idle"}] \cup BusyHooks]
    BY <1>4, <2>1, HookMoves DEF FailReads
  <2>. QED
    BY <1>4, <2>2, TablesUnchanged DEF FailReads, BusyHooks, accessVars, paymentVars, Inv, TypeOK
<1>5. CASE FailWrites(h)
  <2>. DEFINE p == hook[h].event.payment
              row == [payment[p] EXCEPT !.status = "FAILED"]
  <2>1. hook' \in [Hooks -> [at : {"idle"}] \cup BusyHooks] /\ p \in PaymentIds
    BY <1>5, HookMoves DEF FailWrites
  <2>2. payment \in [PaymentIds -> PaymentRows] /\ RowOK(payment[p])
    BY <2>1, InvRows
  <2>3. payment[p].owner \in Enrollments
    BY <1>5 DEF FailWrites, HookOwned
  <2>4. payment' = [payment EXCEPT ![p] = row]
    BY <1>5, <2>2 DEF FailWrites
  <2>5. RowOK(row)
    BY <2>2, <2>3 DEF RowOK
  <2>. HIDE DEF row
  <2>6. payment' \in [PaymentIds -> PaymentRows] /\ Owned' /\ RefundedNeverExceedsPaid'
    BY <2>1, <2>4, <2>5, PaymentReplaced
  <2>7. UNCHANGED <<enrollment, entitlement, ticket, studentCount, now,
                    refunds, revenue, recorded, request, processed>>
    BY <1>5 DEF FailWrites, paymentVars
  <2>8. TypeOK'
    BY <2>1, <2>6, <2>7 DEF Inv, TypeOK, AccessTypeOK, BusyHooks
  <2>9. RefundKeyUsedOnce' /\ RequestResolvedOnce'
    BY <2>7 DEF Inv, RefundKeyUsedOnce, RequestResolvedOnce
  <2>. QED
    BY <2>6, <2>8, <2>9 DEF Inv
<1>6. CASE markProcessed(h)
  <2>1. hook[h].event \in Events
    BY <1>6 DEF markProcessed, Inv, TypeOK
  <2>2. hook' \in [Hooks -> [at : {"idle"}]
                      \cup [at : {"apply", "fail", "mark"}, event : Events]]
    BY <1>6 DEF markProcessed, Inv, TypeOK
  <2>. QED
    BY <1>6, <2>1, <2>2, TablesUnchanged
    DEF markProcessed, accessVars, paymentVars, Inv, TypeOK
<1>. QED
  BY <1>1, <1>2, <1>3, <1>4, <1>5, <1>6

(* Every step keeps the invariant. *)
LEMMA NextKeepsInv == Inv /\ HookOwned /\ [Next]_vars => Inv'
<1>. SUFFICES ASSUME Inv, HookOwned, [Next]_vars PROVE Inv'
  OBVIOUS
<1>1. CASE CheckoutStep
  <2>1. ASSUME NEW p \in PaymentIds, confirm(p) PROVE Inv'
    <3>1. SlotsOK'
      BY <2>1 DEF confirm, SlotsOK, Inv, TypeOK
    <3>. QED
      BY <2>1, <3>1, CaptureKeepsInv DEF confirm
  <2>. QED
    BY <1>1, <2>1, JoinKeepsInv, SmallStepsKeepInv DEF CheckoutStep
<1>2. CASE RefundStep
  BY <1>2, RefundKeepsInv, CompleteKeepsInv, FailRequestKeepsInv, SmallStepsKeepInv DEF RefundStep
<1>3. CASE WebhookStep
  BY <1>3, WebhookKeepsInv
<1>4. CASE UNCHANGED vars
  BY <1>4, TablesUnchanged DEF vars, Inv, TypeOK
<1>. QED
  BY <1>1, <1>2, <1>3, <1>4 DEF Next

(* What a refund does to the payments table. *)
LEMMA RefundEffect ==
  ASSUME Inv, NEW p \in PaymentIds, NEW asked, NEW immediate, NEW key \in RefundKeys,
         refund(p, asked, immediate, key)
  PROVE  /\ payment[p].owner \in Enrollments /\ Refundable(p)
         /\ \A q \in PaymentIds : q # p =>
              \/ payment'[q] = payment[q]
              \/ /\ payment[q].status = "PENDING" /\ payment[q].owner = payment[p].owner
                 /\ payment'[q] = [payment[q] EXCEPT !.status = "CANCELLED"]
         /\ payment'[p].owner = payment[p].owner
         /\ payment'[p].status \in {payment[p].status, "PARTIALLY_REFUNDED", "REFUNDED"}
         /\ enrollment[payment[p].owner].state # "REVOKED" =>
              \A q \in PaymentIds :
                payment'[q].owner = payment[p].owner => payment'[q].status # "PENDING"
         /\ enrollment'[payment[p].owner].state = "REVOKED"
         /\ \A f \in Enrollments : f # payment[p].owner => enrollment'[f] = enrollment[f]
         /\ \A q \in PaymentIds : q # p => refunds'[q] = refunds[q]
         /\ hook' = hook
<1>. DEFINE e == payment[p].owner
<1>1. PICK amount \in 1..payment[p].amount :
        IF immediate
        THEN /\ applySucceededRefund(p, amount, key, 0)
             /\ revokeAccess(p, RefundedRow(p, amount))
        ELSE /\ refunds' = [refunds EXCEPT ![p] = Append(@,
                  [type |-> "refund_request", amount |-> amount, key |-> key, request |-> 0])]
             /\ UNCHANGED revenue
             /\ revokeAccess(p, payment)
  BY DEF refund
<1>2. Refundable(p) /\ UNCHANGED <<now, hook>>
  BY DEF refund
<1>3. payment \in [PaymentIds -> PaymentRows] /\ \A q \in PaymentIds : RowOK(payment[q])
  BY InvRows
<1>4. e \in Enrollments /\ AccessTypeOK /\ amount \in Nat /\ amount > 0
  BY <1>2, <1>3 DEF Inv, TypeOK, Owned, Refundable
<1>5. \A q \in PaymentIds : q # p => refunds'[q] = refunds[q]
  BY <1>1 DEF applySucceededRefund, Inv, TypeOK
<1>6. \E base \in [PaymentIds -> PaymentRows] :
        /\ revokeEnrollmentInTx(e, base)
        /\ \A q \in PaymentIds : q # p => base[q] = payment[q]
        /\ base[p].owner = e
        /\ base[p].status \in {payment[p].status, "PARTIALLY_REFUNDED", "REFUNDED"}
  <2>1. CASE immediate
    <3>1. payment[p].refunded + amount <= payment[p].amount /\ revokeEnrollmentInTx(e, RefundedRow(p, amount))
      BY <1>1, <2>1 DEF applySucceededRefund, revokeAccess
    <3>2. /\ RefundedRow(p, amount) \in [PaymentIds -> PaymentRows]
          /\ \A q \in PaymentIds : RefundedRow(p, amount)[q].owner = payment[q].owner
          /\ \A q \in PaymentIds : q # p => RefundedRow(p, amount)[q] = payment[q]
          /\ RefundedRow(p, amount)[p].status \in {"REFUNDED", "PARTIALLY_REFUNDED"}
      BY <1>2, <1>3, <1>4, <3>1, RefundedRowOK
    <3>. QED
      BY <3>1, <3>2
  <2>2. CASE ~immediate
    BY <1>1, <1>3, <2>2 DEF revokeAccess
  <2>. QED
    BY <2>1, <2>2
<1>7. PICK base \in [PaymentIds -> PaymentRows] :
        /\ revokeEnrollmentInTx(e, base)
        /\ \A q \in PaymentIds : q # p => base[q] = payment[q]
        /\ base[p].owner = e
        /\ base[p].status \in {payment[p].status, "PARTIALLY_REFUNDED", "REFUNDED"}
  BY <1>6
<1>8. /\ \A q \in PaymentIds :
           \/ payment'[q] = base[q]
           \/ /\ base[q].status = "PENDING" /\ base[q].owner = e
              /\ payment'[q] = [base[q] EXCEPT !.status = "CANCELLED"]
      /\ enrollment[e].state # "REVOKED" =>
           \A q \in PaymentIds : payment'[q].owner = e => payment'[q].status # "PENDING"
      /\ enrollment'[e].state = "REVOKED"
      /\ \A f \in Enrollments : f # e => enrollment'[f] = enrollment[f]
  BY <1>2, <1>4, <1>7, RevokeEffect
<1>9. payment'[p] = base[p]
  BY <1>2, <1>7, <1>8 DEF Refundable
<1>. QED
  BY <1>2, <1>4, <1>5, <1>7, <1>8, <1>9

(* Writing a status leaves every owner alone. *)
LEMMA SameOwners ==
  ASSUME payment \in [PaymentIds -> PaymentRows], NEW p \in PaymentIds, NEW q \in PaymentIds,
         NEW s, payment' = [payment EXCEPT ![p].status = s]
  PROVE  payment'[q].owner = payment[q].owner
<1>1. CASE q = p
  <2>1. payment'[p] = [payment[p] EXCEPT !.status = s] /\ payment[p] \in PaymentRows
    OBVIOUS
  <2>. QED
    BY <1>1, <2>1
<1>2. CASE q # p
  BY <1>2
<1>. QED
  BY <1>1, <1>2

(* A payment that has an owner keeps one. *)
LEMMA OwnersStay ==
  ASSUME Inv, HookOwned, [Next]_vars, NEW q \in PaymentIds, payment[q].owner \in Enrollments
  PROVE  payment'[q].owner \in Enrollments
<1>1. payment \in [PaymentIds -> PaymentRows] /\ \A p \in PaymentIds : RowOK(payment[p])
  BY InvRows
<1>2. ASSUME NEW r \in Requests, joinWithPayment(r) PROVE payment'[q].owner \in Enrollments
  <2>1. request[r].on \in Enrollments
    BY <1>2 DEF joinWithPayment, Inv, TypeOK
  <2>. DEFINE new == [owner |-> request[r].on, status |-> "PENDING", amount |-> request[r].price,
                      refunded |-> 0, fresh |-> TRUE]
  <2>2. payment' = payment \/ \E p \in PaymentIds : payment' = [payment EXCEPT ![p] = new]
    BY <1>2 DEF joinWithPayment, createPendingPayment
  <2>3. new.owner \in Enrollments
    BY <2>1
  <2>. HIDE DEF new
  <2>. QED
    BY <1>1, <2>2, <2>3
<1>3. ASSUME NEW p \in PaymentIds, capture(p) PROVE payment'[q].owner = payment[q].owner
  BY <1>1, <1>3, SameOwners DEF capture
<1>a. ASSUME NEW p \in PaymentIds, CheckoutAges(p) PROVE payment'[q].owner = payment[q].owner
  BY <1>1, <1>a DEF CheckoutAges
<1>4. CASE CheckoutStep
  BY <1>2, <1>3, <1>4, <1>a DEF CheckoutStep, confirm, JoinChecks
<1>5. ASSUME NEW p \in PaymentIds, NEW i, completeRequest(p, i)
      PROVE  payment'[q].owner = payment[q].owner
  <2>1. refunds[p][i].amount \in Nat
    BY <1>5, OpenRequest DEF completeRequest, RefundRows
  <2>. DEFINE amount == refunds[p][i].amount
  <2>2. /\ Refundable(p) /\ payment' = RefundedRow(p, amount)
        /\ amount > 0 /\ payment[p].refunded + amount <= payment[p].amount
    BY <1>5 DEF completeRequest, applySucceededRefund
  <2>. HIDE DEF amount
  <2>3. amount \in Nat
    BY <2>1 DEF amount
  <2>. QED
    BY <1>1, <2>2, <2>3, RefundedRowOK
<1>6. ASSUME NEW p \in PaymentIds, NEW asked, NEW immediate, NEW key \in RefundKeys,
             refund(p, asked, immediate, key)
      PROVE  payment'[q].owner = payment[q].owner
  <2>1. [payment[q] EXCEPT !.status = "CANCELLED"].owner = payment[q].owner
    BY <1>1
  <2>2. CASE q = p
    <3>1. payment'[p].owner = payment[p].owner
      BY <1>6, RefundEffect
    <3>. QED
      BY <2>2, <3>1
  <2>3. CASE q # p
    <3>1. \/ payment'[q] = payment[q]
          \/ payment'[q] = [payment[q] EXCEPT !.status = "CANCELLED"]
      BY <1>6, <2>3, RefundEffect
    <3>. QED
      BY <2>1, <3>1
  <2>. QED
    BY <2>2, <2>3
<1>7. CASE RefundStep
  BY <1>5, <1>6, <1>7 DEF RefundStep, failRequest, pruneIdempotency
<1>8. CASE WebhookStep
  <2>1. PICK h \in Hooks :
          \/ \E event \in Events : WebhookArrives(h, event)
          \/ WebhookCaptures(h) \/ FailReads(h) \/ FailWrites(h) \/ markProcessed(h)
    BY <1>8 DEF WebhookStep
  <2>2. CASE WebhookCaptures(h)
    <3>1. hook[h].event.payment \in PaymentIds
      BY <2>2, HookMoves DEF WebhookCaptures
    <3>. QED
      BY <1>3, <2>2, <3>1 DEF WebhookCaptures, accessVars
  <2>3. CASE FailWrites(h)
    <3>1. hook[h].event.payment \in PaymentIds
      BY <2>3, HookMoves DEF FailWrites
    <3>. QED
      BY <1>1, <2>3, <3>1, SameOwners DEF FailWrites
  <2>. QED
    BY <2>1, <2>2, <2>3 DEF WebhookArrives, FailReads, markProcessed, accessVars
<1>9. CASE UNCHANGED vars
  BY <1>9 DEF vars
<1>. QED
  BY <1>4, <1>7, <1>8, <1>9 DEF Next

(* Webhooks stay about payments that exist. *)
LEMMA NextKeepsHookOwned == Inv /\ HookOwned /\ [Next]_vars => HookOwned'
<1>. SUFFICES ASSUME Inv, HookOwned, [Next]_vars, NEW g \in Hooks, hook'[g].at # "idle"
              PROVE  payment'[hook'[g].event.payment].owner \in Enrollments
  BY DEF HookOwned
<1>1. hook \in [Hooks -> [at : {"idle"}] \cup BusyHooks]
  BY DEF Inv, TypeOK, BusyHooks
<1>2. CASE hook[g].at # "idle" /\ hook'[g].event = hook[g].event
  <2>1. hook[g].event.payment \in PaymentIds
    BY <1>1, <1>2 DEF BusyHooks, Events
  <2>. QED
    BY <1>2, <2>1, OwnersStay DEF HookOwned
<1>3. CASE \E event \in Events : WebhookArrives(g, event)
  <2>1. PICK event \in Events : WebhookArrives(g, event)
    BY <1>3
  <2>2. hook'[g].event = event /\ payment' = payment /\ event.payment \in PaymentIds
        /\ payment[event.payment].owner \in Enrollments
    BY <1>1, <2>1 DEF WebhookArrives, Events, Inv, Owned
  <2>. QED
    BY <2>2
<1>4. \/ hook[g].at # "idle" /\ hook'[g].event = hook[g].event
      \/ \E event \in Events : WebhookArrives(g, event)
  <2>1. CASE hook' = hook
    BY <2>1
  <2>2. CASE WebhookStep
    <3>1. PICK h \in Hooks :
            \/ \E event \in Events : WebhookArrives(h, event)
            \/ WebhookCaptures(h) \/ FailReads(h) \/ FailWrites(h) \/ markProcessed(h)
      BY <2>2 DEF WebhookStep
    <3>2. CASE g # h
      <4>1. hook'[g] = hook[g]
        BY <1>1, <3>1, <3>2
        DEF WebhookArrives, WebhookCaptures, FailReads, FailWrites, markProcessed, HookAt
      <4>. QED
        BY <4>1
    <3>3. CASE g = h
      <4>1. ASSUME NEW at \in {"mark", "fail"}, HookAt(h, at), hook[h].at # "idle"
            PROVE  hook[g].at # "idle" /\ hook'[g].event = hook[g].event
        BY <3>3, <4>1, HookMoves
      <4>2. ~markProcessed(h)
        BY <1>1, <3>3 DEF markProcessed
      <4>. QED
        BY <3>1, <3>3, <4>1, <4>2 DEF WebhookCaptures, FailReads, FailWrites
    <3>. QED
      BY <3>2, <3>3
  <2>3. CASE CheckoutStep
    BY <2>1, <2>3 DEF CheckoutStep, JoinChecks, joinWithPayment, CheckoutAges, confirm
  <2>4. CASE RefundStep
    BY <2>1, <2>4 DEF RefundStep, refund, completeRequest, failRequest, pruneIdempotency
  <2>5. CASE UNCHANGED vars
    BY <2>1, <2>5 DEF vars
  <2>. QED
    BY <2>2, <2>3, <2>4, <2>5 DEF Next
<1>. QED
  BY <1>2, <1>3, <1>4

-----------------------------------------------------------------------------
(* The inductive invariant holds in every reachable state. *)
LEMMA InvHolds == Spec => [](Inv /\ HookOwned)
<1>1. Init => Inv /\ HookOwned
  BY InitInv DEF Init, HookOwned
<1>2. Inv /\ HookOwned /\ [Next]_vars => (Inv /\ HookOwned)'
  BY NextKeepsInv, NextKeepsHookOwned
<1>. QED
  BY <1>1, <1>2, PTL DEF Spec

(* Every table stays well formed, with or without a provider. *)
THEOREM PaymentTypes == Spec => []TypeOK
<1>1. Inv => TypeOK
  BY DEF Inv
<1>. QED
  BY <1>1, InvHolds, PTL

(* No interleaving of direct refunds, requests, completions, failures, late
   webhooks and pruned records returns more than was paid, and a payment that
   is marked refunded was refunded in full (applySucceededRefund). *)
THEOREM RefundsAreBounded == Spec => []RefundedNeverExceedsPaid
<1>1. Inv => RefundedNeverExceedsPaid
  BY DEF Inv
<1>. QED
  BY <1>1, InvHolds, PTL

(* One key of the refund dialog produces one refund row, even after
   pruneIdempotency has removed its record (rowForKey). *)
THEOREM RefundKeysAreUsedOnce == Spec => []RefundKeyUsedOnce
<1>1. Inv => RefundKeyUsedOnce
  BY DEF Inv
<1>. QED
  BY <1>1, InvHolds, PTL

(* A pending refund request is completed or failed at most once (requestState). *)
THEOREM RequestsAreResolvedOnce == Spec => []RequestResolvedOnce
<1>1. Inv => RequestResolvedOnce
  BY DEF Inv
<1>. QED
  BY <1>1, InvHolds, PTL

-----------------------------------------------------------------------------
(* Without a provider no webhook is ever let in and no payment fails, so a
   payment that was never captured has no refunds, and a revoked enrollment has
   no checkout that could bring it back. *)
Quiet ==
  /\ \A h \in Hooks : hook[h].at = "idle"
  /\ \A p \in PaymentIds : payment[p].status # "FAILED"
  /\ \A p \in PaymentIds :
       payment[p].status \in {"NONE", "PENDING", "CANCELLED"} => refunds[p] = <<>>
  /\ \A e \in Enrollments : \A p \in PaymentIds :
       (enrollment[e].state = "REVOKED" /\ payment[p].owner = e) => payment[p].status # "PENDING"
  /\ AccessIsPaidFor

(* A step that writes neither enrollments, payments, refund rows nor slots. *)
LEMMA QuietUnchanged ==
  ASSUME Quiet, UNCHANGED <<enrollment, payment, refunds, hook>>
  PROVE  Quiet'
BY DEF Quiet, AccessIsPaidFor

(* joinWithPayment opens a checkout on an enrollment that is no longer revoked. *)
LEMMA JoinKeepsQuiet ==
  ASSUME Inv, Quiet, NEW r \in Requests, joinWithPayment(r)
  PROVE  /\ Quiet'
         /\ \A f \in Enrollments : enrollment[f].state = "REVOKED" => enrollment'[f].state # "ACTIVE"
<1>. DEFINE e == request[r].on
            new == [owner |-> e, status |-> "PENDING", amount |-> request[r].price,
                    refunded |-> 0, fresh |-> TRUE]
<1>1. e \in Enrollments
  BY DEF joinWithPayment, Inv, TypeOK
<1>2. /\ payment \in [PaymentIds -> PaymentRows] /\ enrollment \in [Enrollments -> EnrollmentRows]
  BY DEF Inv, TypeOK, AccessTypeOK
<1>3. /\ enrollment'[e].state = "PENDING_PAYMENT"
      /\ \A f \in Enrollments : f # e => enrollment'[f] = enrollment[f]
      /\ UNCHANGED <<refunds, hook>>
  BY <1>1, <1>2 DEF joinWithPayment
<1>4. \/ payment' = payment
      \/ \E p \in PaymentIds : payment[p].status = "NONE" /\ payment' = [payment EXCEPT ![p] = new]
  BY DEF joinWithPayment, createPendingPayment
<1>5. new.owner = e /\ new.status = "PENDING"
  OBVIOUS
<1>. HIDE DEF new, e
<1>6. ASSUME NEW p \in PaymentIds
      PROVE  \/ payment'[p] = payment[p]
             \/ payment[p].status = "NONE" /\ payment'[p].owner = e /\ payment'[p].status = "PENDING"
  BY <1>2, <1>4, <1>5
<1>7. \A p \in PaymentIds : payment'[p].status # "FAILED"
  BY <1>6 DEF Quiet
<1>8. \A p \in PaymentIds :
       payment'[p].status \in {"NONE", "PENDING", "CANCELLED"} => refunds'[p] = <<>>
  BY <1>3, <1>6 DEF Quiet
<1>9. ASSUME NEW f \in Enrollments, NEW p \in PaymentIds,
             enrollment'[f].state = "REVOKED", payment'[p].owner = f
      PROVE  payment'[p].status # "PENDING"
  <2>1. f # e /\ enrollment[f].state = "REVOKED"
    BY <1>3, <1>9
  <2>. QED
    BY <1>6, <1>9, <2>1 DEF Quiet
<1>10. ASSUME NEW f \in Enrollments, enrollment'[f].state = "ACTIVE"
       PROVE  \E p \in PaymentIds : /\ payment'[p].owner = f /\ payment'[p].status = "PAID"
                                    /\ refunds'[p] = <<>>
  <2>1. enrollment[f].state = "ACTIVE"
    BY <1>3, <1>10
  <2>2. PICK p \in PaymentIds : /\ payment[p].owner = f /\ payment[p].status = "PAID"
                                /\ refunds[p] = <<>>
    BY <2>1 DEF Quiet, AccessIsPaidFor
  <2>. QED
    BY <1>3, <1>6, <2>2
<1>. QED
  BY <1>3, <1>7, <1>8, <1>9, <1>10 DEF Quiet, AccessIsPaidFor

(* capture pays for the enrollment it opens, which was not revoked. *)
LEMMA CaptureKeepsQuiet ==
  ASSUME Inv, Quiet, NEW p \in PaymentIds, confirm(p)
  PROVE  /\ Quiet'
         /\ \A f \in Enrollments : enrollment[f].state = "REVOKED" => enrollment'[f].state # "ACTIVE"
<1>. DEFINE e == payment[p].owner
            row == [enrollment[e] EXCEPT !.state = "ACTIVE", !.covers = TRUE,
                      !.ends = computeAccessEnd(CourseTerms[e[2]])]
<1>1. /\ payment \in [PaymentIds -> PaymentRows] /\ enrollment \in [Enrollments -> EnrollmentRows]
  BY DEF Inv, TypeOK, AccessTypeOK
<1>2. payment[p].status = "PENDING"
  BY DEF confirm, capture, Capturable, Quiet
<1>3. e \in Enrollments /\ refunds[p] = <<>> /\ enrollment[e].state # "REVOKED"
  BY <1>2 DEF Inv, Owned, Quiet
<1>4. enrollment' = [enrollment EXCEPT ![e] = row] /\ UNCHANGED <<refunds, hook>>
  BY Zenon DEF confirm, capture
<1>5. row.state = "ACTIVE"
  BY <1>1, <1>3
<1>6. payment' = [payment EXCEPT ![p].status = "PAID"]
  BY DEF confirm, capture
<1>7. payment'[p].status = "PAID" /\ \A q \in PaymentIds : q # p => payment'[q] = payment[q]
  BY <1>1, <1>6
<1>8. payment'[p].owner = e
  BY <1>1, <1>6, SameOwners
<1>. HIDE DEF row, e
<1>9. enrollment'[e].state = "ACTIVE" /\ \A f \in Enrollments : f # e => enrollment'[f] = enrollment[f]
  BY <1>1, <1>3, <1>4, <1>5
<1>10. /\ \A q \in PaymentIds : payment'[q].status # "FAILED"
       /\ \A q \in PaymentIds :
            payment'[q].status \in {"NONE", "PENDING", "CANCELLED"} => refunds'[q] = <<>>
  BY <1>4, <1>7 DEF Quiet
<1>11. ASSUME NEW f \in Enrollments, NEW q \in PaymentIds,
              enrollment'[f].state = "REVOKED", payment'[q].owner = f
       PROVE  payment'[q].status # "PENDING"
  <2>1. f # e /\ enrollment[f].state = "REVOKED"
    BY <1>9, <1>11
  <2>2. q # p
    BY <1>8, <1>11, <2>1
  <2>. QED
    BY <1>7, <1>11, <2>1, <2>2 DEF Quiet
<1>12. ASSUME NEW f \in Enrollments, enrollment'[f].state = "ACTIVE"
       PROVE  \E q \in PaymentIds : /\ payment'[q].owner = f /\ payment'[q].status = "PAID"
                                    /\ refunds'[q] = <<>>
  <2>1. CASE f = e
    BY <1>3, <1>4, <1>7, <1>8, <2>1
  <2>2. CASE f # e
    <3>1. PICK q \in PaymentIds : /\ payment[q].owner = f /\ payment[q].status = "PAID"
                                  /\ refunds[q] = <<>>
      BY <1>9, <1>12, <2>2 DEF Quiet, AccessIsPaidFor
    <3>. QED
      BY <1>2, <1>4, <1>7, <3>1
  <2>. QED
    BY <2>1, <2>2
<1>. QED
  BY <1>3, <1>4, <1>9, <1>10, <1>11, <1>12 DEF Quiet, AccessIsPaidFor

(* refund, paid out or promised, revokes the enrollment of its payment. *)
LEMMA RefundKeepsQuiet ==
  ASSUME Inv, Quiet, NEW p \in PaymentIds, NEW asked, NEW immediate, NEW key \in RefundKeys,
         refund(p, asked, immediate, key)
  PROVE  /\ Quiet'
         /\ \A f \in Enrollments : enrollment[f].state = "REVOKED" => enrollment'[f].state # "ACTIVE"
<1>. DEFINE e == payment[p].owner
<1>1. /\ e \in Enrollments /\ Refundable(p)
      /\ \A q \in PaymentIds : q # p =>
           \/ payment'[q] = payment[q]
           \/ /\ payment[q].status = "PENDING" /\ payment[q].owner = e
              /\ payment'[q] = [payment[q] EXCEPT !.status = "CANCELLED"]
      /\ payment'[p].owner = e
      /\ payment'[p].status \in {payment[p].status, "PARTIALLY_REFUNDED", "REFUNDED"}
      /\ enrollment[e].state # "REVOKED" =>
           \A q \in PaymentIds : payment'[q].owner = e => payment'[q].status # "PENDING"
      /\ enrollment'[e].state = "REVOKED"
      /\ \A f \in Enrollments : f # e => enrollment'[f] = enrollment[f]
      /\ \A q \in PaymentIds : q # p => refunds'[q] = refunds[q]
      /\ hook' = hook
  BY RefundEffect
<1>2. payment \in [PaymentIds -> PaymentRows]
  BY InvRows
<1>3. payment[p].status \in {"PAID", "PARTIALLY_REFUNDED"}
  BY <1>1 DEF Refundable
<1>4. payment'[p].status \in {"PAID", "PARTIALLY_REFUNDED", "REFUNDED"}
  BY <1>1, <1>3
<1>5. ASSUME NEW q \in PaymentIds, q # p
      PROVE  \/ payment'[q] = payment[q]
             \/ /\ payment[q].status = "PENDING" /\ payment'[q].status = "CANCELLED"
                /\ payment'[q].owner = payment[q].owner /\ payment[q].owner = e
  <2>1. payment[q] \in PaymentRows
    BY <1>2
  <2>2. /\ [payment[q] EXCEPT !.status = "CANCELLED"].status = "CANCELLED"
        /\ [payment[q] EXCEPT !.status = "CANCELLED"].owner = payment[q].owner
    BY <2>1
  <2>. QED
    BY <1>1, <1>5, <2>2
<1>. HIDE DEF e
<1>6. \A q \in PaymentIds : payment'[q].status # "FAILED"
  BY <1>4, <1>5 DEF Quiet
<1>7. \A q \in PaymentIds :
        payment'[q].status \in {"NONE", "PENDING", "CANCELLED"} => refunds'[q] = <<>>
  BY <1>1, <1>4, <1>5 DEF Quiet
<1>8. ASSUME NEW f \in Enrollments, NEW q \in PaymentIds,
             enrollment'[f].state = "REVOKED", payment'[q].owner = f
      PROVE  payment'[q].status # "PENDING"
  <2>1. CASE q = p
    BY <1>4, <2>1
  <2>2. CASE q # p /\ f = e /\ enrollment[e].state # "REVOKED"
    BY <1>1, <1>8, <2>2
  <2>3. CASE q # p /\ enrollment[f].state = "REVOKED"
    BY <1>5, <1>8, <2>3 DEF Quiet
  <2>. QED
    BY <1>1, <1>8, <2>1, <2>2, <2>3
<1>9. ASSUME NEW f \in Enrollments, enrollment'[f].state = "ACTIVE"
      PROVE  \E q \in PaymentIds : /\ payment'[q].owner = f /\ payment'[q].status = "PAID"
                                   /\ refunds'[q] = <<>>
  <2>1. f # e /\ enrollment[f].state = "ACTIVE"
    BY <1>1, <1>9
  <2>2. PICK q \in PaymentIds : /\ payment[q].owner = f /\ payment[q].status = "PAID"
                                /\ refunds[q] = <<>>
    BY <2>1 DEF Quiet, AccessIsPaidFor
  <2>3. q # p
    BY <2>1, <2>2 DEF e
  <2>. QED
    BY <1>1, <1>5, <2>2, <2>3
<1>. QED
  BY <1>1, <1>6, <1>7, <1>8, <1>9 DEF Quiet, AccessIsPaidFor

(* Resolving a request concerns a payment nobody's access rests on any more. *)
LEMMA ResolveKeepsQuiet ==
  ASSUME Inv, Quiet, NEW p \in PaymentIds, NEW i, completeRequest(p, i) \/ failRequest(p, i)
  PROVE  Quiet' /\ enrollment' = enrollment
<1>1. RequestOpen(p, i) /\ UNCHANGED <<enrollment, hook>>
  BY DEF completeRequest, failRequest
<1>2. refunds[p] # <<>>
  <2>1. i \in 1..Len(refunds[p])
    BY <1>1, OpenRequest
  <2>. QED
    BY <2>1
<1>3. payment \in [PaymentIds -> PaymentRows] /\ \A q \in PaymentIds : RowOK(payment[q])
  BY InvRows
<1>4. payment[p].status \in {"PAID", "PARTIALLY_REFUNDED", "REFUNDED"}
  BY <1>2, <1>3 DEF Quiet
<1>5. /\ \A q \in PaymentIds : q # p => payment'[q] = payment[q]
      /\ payment'[p].status \in {"PAID", "PARTIALLY_REFUNDED", "REFUNDED"}
  <2>1. CASE completeRequest(p, i)
    <3>. DEFINE amount == refunds[p][i].amount
    <3>1. amount \in Nat
      BY <1>1, OpenRequest DEF RefundRows
    <3>2. /\ Refundable(p) /\ payment' = RefundedRow(p, amount)
          /\ amount > 0 /\ payment[p].refunded + amount <= payment[p].amount
      BY <2>1 DEF completeRequest, applySucceededRefund
    <3>. HIDE DEF amount
    <3>. QED
      BY <1>3, <3>1, <3>2, RefundedRowOK
  <2>2. CASE failRequest(p, i)
    BY <1>4, <2>2 DEF failRequest
  <2>. QED
    BY <2>1, <2>2
<1>6. \A q \in PaymentIds : q # p => refunds'[q] = refunds[q]
  BY DEF completeRequest, failRequest, applySucceededRefund, Inv, TypeOK
<1>7. ASSUME NEW f \in Enrollments, enrollment'[f].state = "ACTIVE"
      PROVE  \E q \in PaymentIds : /\ payment'[q].owner = f /\ payment'[q].status = "PAID"
                                   /\ refunds'[q] = <<>>
  <2>1. PICK q \in PaymentIds : /\ payment[q].owner = f /\ payment[q].status = "PAID"
                                /\ refunds[q] = <<>>
    BY <1>1, <1>7 DEF Quiet, AccessIsPaidFor
  <2>. QED
    BY <1>2, <1>5, <1>6, <2>1
<1>8. /\ \A q \in PaymentIds : payment'[q].status # "FAILED"
      /\ \A q \in PaymentIds :
           payment'[q].status \in {"NONE", "PENDING", "CANCELLED"} => refunds'[q] = <<>>
  BY <1>5, <1>6 DEF Quiet
<1>9. ASSUME NEW f \in Enrollments, NEW q \in PaymentIds,
             enrollment'[f].state = "REVOKED", payment'[q].owner = f
      PROVE  payment'[q].status # "PENDING"
  BY <1>1, <1>5, <1>9 DEF Quiet
<1>. QED
  BY <1>1, <1>7, <1>8, <1>9 DEF Quiet, AccessIsPaidFor

(* Every step without a provider keeps Quiet and brings no revoked enrollment back. *)
LEMMA NextKeepsQuiet ==
  ASSUME ~Online, Inv, Quiet, [Next]_vars
  PROVE  /\ Quiet'
         /\ \A f \in Enrollments : enrollment[f].state = "REVOKED" => enrollment'[f].state # "ACTIVE"
<1>1. ASSUME UNCHANGED <<enrollment, payment, refunds, hook>>
      PROVE  Quiet' /\ enrollment' = enrollment
  BY <1>1, QuietUnchanged
<1>2. ASSUME NEW p \in PaymentIds, CheckoutAges(p) PROVE Quiet' /\ enrollment' = enrollment
  <2>1. payment \in [PaymentIds -> PaymentRows]
    BY InvRows
  <2>2. \A q \in PaymentIds : /\ payment'[q].owner = payment[q].owner
                              /\ payment'[q].status = payment[q].status
    BY <1>2, <2>1 DEF CheckoutAges
  <2>3. UNCHANGED <<enrollment, refunds, hook>>
    BY <1>2 DEF CheckoutAges
  <2>. QED
    BY <2>2, <2>3 DEF Quiet, AccessIsPaidFor
<1>3. CASE CheckoutStep
  <2>1. ASSUME NEW r \in Requests, NEW e \in Enrollments, NEW price \in Prices,
               JoinChecks(r, e, price)
        PROVE  Quiet' /\ enrollment' = enrollment
    BY <1>1, <2>1 DEF JoinChecks
  <2>. QED
    BY <1>2, <1>3, <2>1, JoinKeepsQuiet, CaptureKeepsQuiet DEF CheckoutStep
<1>4. CASE RefundStep
  <2>1. ASSUME pruneIdempotency PROVE Quiet' /\ enrollment' = enrollment
    BY <1>1, <2>1 DEF pruneIdempotency
  <2>. QED
    BY <1>4, <2>1, RefundKeepsQuiet, ResolveKeepsQuiet DEF RefundStep
<1>5. ~WebhookStep
  BY DEF WebhookStep, WebhookArrives, WebhookCaptures, FailReads, FailWrites, markProcessed, Quiet
<1>6. CASE UNCHANGED vars
  BY <1>1, <1>6 DEF vars
<1>. QED
  BY <1>3, <1>4, <1>5, <1>6 DEF Next

(* As long as payments are confirmed by hand, the only way the deployed
   configuration allows, access rests on a payment that is paid and on which no
   refund was ever asked. *)
THEOREM AccessIsBought == ASSUME ~Online PROVE Spec => []AccessIsPaidFor
<1>1. Init => Quiet
  BY AccessAssumption DEF Init, AccessInit, NoEnrollment, NoPayment, Quiet, AccessIsPaidFor
<1>2. Inv /\ Quiet /\ [Next]_vars => Quiet'
  BY NextKeepsQuiet
<1>3. Quiet => AccessIsPaidFor
  BY DEF Quiet
<1>. QED
  BY <1>1, <1>2, <1>3, InvHolds, PTL DEF Spec

(* In that configuration no confirmation brings a revoked enrollment back. *)
THEOREM RevocationIsFinal == ASSUME ~Online PROVE Spec => RevocationHolds
<1>1. Init => Quiet
  BY AccessAssumption DEF Init, AccessInit, NoEnrollment, NoPayment, Quiet, AccessIsPaidFor
<1>2. Inv /\ Quiet /\ [Next]_vars => Quiet'
  BY NextKeepsQuiet
<1>3. Inv /\ Quiet /\ [Next]_vars =>
        [\A e \in Enrollments :
           enrollment[e].state = "REVOKED" => enrollment'[e].state # "ACTIVE"]_vars
  BY NextKeepsQuiet
<1>. QED
  BY <1>1, <1>2, <1>3, InvHolds, PTL DEF Spec, RevocationHolds
-----------------------------------------------------------------------------
(* A new line adds its amount to the revenue of the payment. *)
LEMMA GrossAppend ==
  ASSUME NEW lines \in Seq(RevenueLines), NEW line \in RevenueLines
  PROVE  GrossOf(Append(lines, line)) = GrossOf(lines) + line.gross
<1>. DEFINE n == Len(lines)
            more == Append(lines, line)
            f == [i \in 1..n |-> lines[i].gross]
            g == [i \in 1..(n + 1) |-> more[i].gross]
<1>1. /\ n \in Nat /\ DOMAIN lines = 1..n /\ DOMAIN more = 1..(n + 1)
      /\ 1..(n + 1) = 1..n \cup {n + 1} /\ n + 1 \notin 1..n
      /\ more[n + 1] = line /\ \A i \in 1..n : more[i] = lines[i] /\ lines[i] \in RevenueLines
  OBVIOUS
<1>2. /\ \A i \in 1..n : f[i] \in Int /\ f[i] = g[i]
      /\ \A i \in 1..n \cup {n + 1} : g[i] \in Int
      /\ g[n + 1] = line.gross
  BY <1>1 DEF RevenueLines
<1>3. GrossOf(lines) = SumFunctionOnSet(f, 1..n) /\ GrossOf(more) = SumFunctionOnSet(g, 1..n \cup {n + 1})
  BY <1>1 DEF GrossOf, SumFunction
<1>. HIDE DEF more, f, g
<1>4. IsFiniteSet(1..n)
  BY <1>1, FS_Interval
<1>5. SumFunctionOnSet(g, 1..n \cup {n + 1}) = g[n + 1] + SumFunctionOnSet(g, 1..n)
  BY <1>1, <1>2, <1>4, SumMore
<1>6. SumFunctionOnSet(f, 1..n) = SumFunctionOnSet(g, 1..n) /\ SumFunctionOnSet(f, 1..n) \in Int
  BY <1>2, <1>4, SumSame, SumType
<1>7. line.gross \in Int
  BY DEF RevenueLines
<1>. QED
  BY <1>2, <1>3, <1>5, <1>6, <1>7 DEF more

LEMMA GrossOfNone == GrossOf(<<>>) = 0
<1>1. DOMAIN <<>> = {}
  OBVIOUS
<1>. QED
  BY <1>1, SumOfNone DEF GrossOf, SumFunction

(* What a payment has brought in: nothing before its capture, then its price less what was
   paid back; and every line of its revenue is the teacher's part and the platform's. *)
Kept(row) == IF row.status \in {"PAID", "PARTIALLY_REFUNDED", "REFUNDED"} THEN row.amount - row.refunded ELSE 0

BookedRow(row, lines) ==
  /\ GrossOf(lines) = Kept(row)
  /\ \A i \in DOMAIN lines : lines[i].gross = lines[i].teacher + lines[i].platform
  /\ row.status \in {"NONE", "PENDING", "CANCELLED"} => row.refunded = 0
  /\ row.status # "FAILED"

(* Without a provider: the books of every payment are in order. *)
Booked ==
  /\ \A h \in Hooks : hook[h].at = "idle"
  /\ \A p \in PaymentIds : BookedRow(payment[p], revenue[p])

LEMMA BooksMatch == Booked => RevenueMatchesMoney
BY DEF Booked, BookedRow, Kept, RevenueMatchesMoney, Captured

(* A new line of an amount, split in two, is booked when the row keeps that much more. *)
LEMMA LineBooked ==
  ASSUME NEW lines \in Seq(RevenueLines), NEW row, NEW new, BookedRow(row, lines),
         NEW line \in RevenueLines, line.gross = line.teacher + line.platform,
         Kept(row) \in Int, Kept(new) = Kept(row) + line.gross,
         new.status \in {"PAID", "PARTIALLY_REFUNDED", "REFUNDED"}
  PROVE  BookedRow(new, Append(lines, line))
<1>1. GrossOf(Append(lines, line)) = Kept(new)
  BY GrossAppend DEF BookedRow
<1>2. \A i \in DOMAIN Append(lines, line) : Append(lines, line)[i].gross = Append(lines, line)[i].teacher + Append(lines, line)[i].platform
  BY DEF BookedRow
<1>. QED
  BY <1>1, <1>2 DEF BookedRow

(* A row that is opened, cancelled or grown old brings nothing in. *)
Dormant(row, new) ==
  \/ new = row
  \/ /\ row.status = new.status /\ row.amount = new.amount /\ row.refunded = new.refunded
  \/ /\ row.status \in {"NONE", "PENDING"} /\ new.status \in {"PENDING", "CANCELLED"}
     /\ new.refunded = 0

LEMMA DormantBooked ==
  ASSUME NEW row, NEW new, NEW lines, BookedRow(row, lines), Dormant(row, new)
  PROVE  BookedRow(new, lines)
BY DEF BookedRow, Dormant, Kept

LEMMA DormantKeepsBooks ==
  ASSUME Booked, UNCHANGED <<revenue, hook>>,
         \A p \in PaymentIds : Dormant(payment[p], payment'[p])
  PROVE  Booked'
<1>1. \A p \in PaymentIds : BookedRow(payment'[p], revenue[p])
  BY DormantBooked DEF Booked
<1>. QED
  BY <1>1 DEF Booked

(* One payment has moved money; the others have at most been cancelled. *)
LEMMA OneKeepsBooks ==
  ASSUME Booked, UNCHANGED hook, NEW p \in PaymentIds, BookedRow(payment'[p], revenue'[p]),
         \A q \in PaymentIds : q # p => Dormant(payment[q], payment'[q]) /\ revenue'[q] = revenue[q]
  PROVE  Booked'
<1>1. \A q \in PaymentIds : BookedRow(payment'[q], revenue'[q])
  BY DormantBooked DEF Booked
<1>. QED
  BY <1>1 DEF Booked

(* joinWithPayment opens a checkout. *)
LEMMA JoinKeepsBooks ==
  ASSUME Inv, Booked, NEW r \in Requests, joinWithPayment(r)
  PROVE  Booked'
<1>. DEFINE new == [owner |-> request[r].on, status |-> "PENDING", amount |-> request[r].price,
                    refunded |-> 0, fresh |-> TRUE]
<1>1. \/ payment' = payment
      \/ \E p \in PaymentIds : payment[p].status = "NONE" /\ payment' = [payment EXCEPT ![p] = new]
  BY DEF joinWithPayment, createPendingPayment
<1>2. payment \in [PaymentIds -> PaymentRows] /\ UNCHANGED <<revenue, hook>>
  BY DEF joinWithPayment, Inv, TypeOK, AccessTypeOK
<1>3. new.status = "PENDING" /\ new.refunded = 0
  OBVIOUS
<1>. HIDE DEF new
<1>4. \A p \in PaymentIds : Dormant(payment[p], payment'[p])
  BY <1>1, <1>2, <1>3 DEF Dormant
<1>. QED
  BY <1>2, <1>4, DormantKeepsBooks

(* capture books the price once. *)
LEMMA CaptureKeepsBooks ==
  ASSUME Inv, Booked, NEW p \in PaymentIds, confirm(p)
  PROVE  Booked'
<1>. DEFINE amount == payment[p].amount
            paid == [payment[p] EXCEPT !.status = "PAID"]
<1>1. /\ payment \in [PaymentIds -> PaymentRows] /\ payment[p] \in PaymentRows
      /\ revenue \in [PaymentIds -> Seq(RevenueLines)]
  BY DEF Inv, TypeOK, AccessTypeOK
<1>2. payment[p].status = "PENDING" /\ payment[p].refunded = 0 /\ amount \in Nat
  BY <1>1 DEF confirm, capture, Capturable, Booked, BookedRow
<1>3. payment' = [payment EXCEPT ![p] = paid] /\ hook' = hook
  BY <1>1 DEF confirm, capture
<1>4. paid.status = "PAID" /\ paid.amount = amount /\ paid.refunded = 0
  BY <1>1, <1>2
<1>. HIDE DEF paid
<1>5. PICK share \in Shares, t \in 0..amount :
        revenue' = [revenue EXCEPT ![p] = Append(@,
          [gross |-> amount, teacher |-> t, platform |-> amount - t, share |-> share])]
  BY DEF confirm, capture
<1>. DEFINE line == [gross |-> amount, teacher |-> t, platform |-> amount - t, share |-> share]
<1>6. share \in Nat
  BY PaymentsAssumption DEF IsBasisPoints
<1>7. line \in RevenueLines /\ line.gross = amount /\ line.gross = line.teacher + line.platform
  BY <1>2, <1>6 DEF RevenueLines
<1>8. revenue' = [revenue EXCEPT ![p] = Append(revenue[p], line)]
  BY <1>1, <1>5
<1>. HIDE DEF line, amount
<1>9. BookedRow(paid, Append(revenue[p], line))
  <2>1. Kept(payment[p]) = 0 /\ Kept(paid) = amount
    BY <1>2, <1>4 DEF Kept
  <2>2. revenue[p] \in Seq(RevenueLines) /\ BookedRow(payment[p], revenue[p])
    BY <1>1 DEF Booked
  <2>. QED
    BY <1>2, <1>4, <1>7, <2>1, <2>2, LineBooked
<1>10. /\ BookedRow(payment'[p], revenue'[p])
       /\ \A q \in PaymentIds : q # p => Dormant(payment[q], payment'[q]) /\ revenue'[q] = revenue[q]
  BY <1>1, <1>3, <1>8, <1>9 DEF Dormant
<1>. QED
  BY <1>3, <1>10, OneKeepsBooks

(* The contra line of a refund takes its amount out again. *)
LEMMA RefundBooked ==
  ASSUME Inv, Booked, NEW p \in PaymentIds, Refundable(p), NEW amount \in Nat, NEW key, NEW of,
         applySucceededRefund(p, amount, key, of)
  PROVE  /\ BookedRow(RefundedRow(p, amount)[p], revenue'[p])
         /\ RefundedRow(p, amount) \in [PaymentIds -> PaymentRows]
         /\ RefundedRow(p, amount)[p].status \in {"PARTIALLY_REFUNDED", "REFUNDED"}
         /\ \A q \in PaymentIds : q # p => RefundedRow(p, amount)[q] = payment[q] /\ revenue'[q] = revenue[q]
<1>. DEFINE row == payment[p]
            new == RefundedRow(p, amount)[p]
<1>1. /\ payment \in [PaymentIds -> PaymentRows] /\ \A q \in PaymentIds : RowOK(payment[q])
      /\ revenue \in [PaymentIds -> Seq(RevenueLines)]
  BY InvRows DEF Inv, TypeOK
<1>2. amount > 0 /\ row.refunded + amount <= row.amount
  BY DEF applySucceededRefund
<1>3. /\ RefundedRow(p, amount) \in [PaymentIds -> PaymentRows]
      /\ \A q \in PaymentIds : q # p => RefundedRow(p, amount)[q] = payment[q]
      /\ new.status \in {"REFUNDED", "PARTIALLY_REFUNDED"}
  BY <1>1, <1>2, RefundedRowOK
<1>4. new.amount = row.amount /\ new.refunded = row.refunded + amount
  BY <1>1 DEF RefundedRow
<1>5. PICK t \in 0..amount :
        revenue' = [revenue EXCEPT ![p] = Append(@,
          [gross |-> -amount, teacher |-> -t, platform |-> -(amount - t), share |-> 0])]
  BY DEF applySucceededRefund
<1>. DEFINE line == [gross |-> -amount, teacher |-> -t, platform |-> -(amount - t), share |-> 0]
<1>6. line \in RevenueLines /\ line.gross = -amount /\ line.gross = line.teacher + line.platform
  BY DEF RevenueLines
<1>7. revenue' = [revenue EXCEPT ![p] = Append(revenue[p], line)]
  BY <1>1, <1>5
<1>. HIDE DEF line
<1>8. Kept(row) = row.amount - row.refunded /\ Kept(new) = row.amount - (row.refunded + amount)
      /\ row.amount \in Nat /\ row.refunded \in Nat
  BY <1>1, <1>3, <1>4 DEF Kept, Refundable
<1>. HIDE DEF new
<1>9. BookedRow(new, Append(revenue[p], line))
  <2>1. revenue[p] \in Seq(RevenueLines) /\ BookedRow(row, revenue[p])
    BY <1>1 DEF Booked
  <2>2. Kept(row) \in Int /\ Kept(new) = Kept(row) + line.gross
    BY <1>6, <1>8
  <2>. HIDE DEF row
  <2>. QED
    BY <1>3, <1>6, <2>1, <2>2, LineBooked
<1>. QED
  BY <1>1, <1>3, <1>7, <1>9 DEF new

(* Revoking cancels the open checkouts of the enrollment and moves no money. *)
LEMMA RevokeDormant ==
  ASSUME AccessTypeOK, NEW e \in Enrollments, NEW base \in [PaymentIds -> PaymentRows],
         revokeEnrollmentInTx(e, base), UNCHANGED now
  PROVE  \A q \in PaymentIds :
           \/ payment'[q] = base[q]
           \/ /\ base[q].status = "PENDING" /\ payment'[q].status = "CANCELLED"
              /\ payment'[q].refunded = base[q].refunded
<1>1. \A q \in PaymentIds :
        \/ payment'[q] = base[q]
        \/ /\ base[q].status = "PENDING" /\ base[q].owner = e
           /\ payment'[q] = [base[q] EXCEPT !.status = "CANCELLED"]
  BY RevokeEffect
<1>2. ASSUME NEW q \in PaymentIds, NEW row, row = [base[q] EXCEPT !.status = "CANCELLED"]
      PROVE  row.status = "CANCELLED" /\ row.refunded = base[q].refunded
  <2>1. base[q] \in PaymentRows
    OBVIOUS
  <2>. QED
    BY <1>2, <2>1
<1>. QED
  BY <1>1, <1>2

(* refund, paid out or promised. *)
LEMMA RefundKeepsBooks ==
  ASSUME Inv, Booked, NEW p \in PaymentIds, NEW asked, NEW immediate, NEW key \in RefundKeys,
         refund(p, asked, immediate, key)
  PROVE  Booked'
<1>1. PICK amount \in 1..payment[p].amount :
        IF immediate
        THEN /\ applySucceededRefund(p, amount, key, 0)
             /\ revokeAccess(p, RefundedRow(p, amount))
        ELSE UNCHANGED revenue /\ revokeAccess(p, payment)
  BY DEF refund
<1>2. Refundable(p) /\ UNCHANGED <<now, hook>>
  BY DEF refund
<1>3. payment \in [PaymentIds -> PaymentRows] /\ payment[p].owner \in Enrollments /\ AccessTypeOK
  BY <1>2 DEF Inv, TypeOK, AccessTypeOK, Owned, Refundable
<1>4. amount \in Nat
  BY <1>3
<1>5. \A q \in PaymentIds : payment[q].status = "PENDING" => payment[q].refunded = 0
  BY DEF Booked, BookedRow
<1>6. CASE immediate
  <2>1. applySucceededRefund(p, amount, key, 0) /\ revokeEnrollmentInTx(payment[p].owner, RefundedRow(p, amount))
    BY <1>1, <1>6 DEF revokeAccess
  <2>2. /\ BookedRow(RefundedRow(p, amount)[p], revenue'[p])
        /\ RefundedRow(p, amount) \in [PaymentIds -> PaymentRows]
        /\ RefundedRow(p, amount)[p].status \in {"PARTIALLY_REFUNDED", "REFUNDED"}
        /\ \A q \in PaymentIds : q # p => RefundedRow(p, amount)[q] = payment[q] /\ revenue'[q] = revenue[q]
    BY <1>2, <1>4, <2>1, RefundBooked
  <2>3. \A q \in PaymentIds :
          \/ payment'[q] = RefundedRow(p, amount)[q]
          \/ /\ RefundedRow(p, amount)[q].status = "PENDING" /\ payment'[q].status = "CANCELLED"
             /\ payment'[q].refunded = RefundedRow(p, amount)[q].refunded
    BY <1>2, <1>3, <2>1, <2>2, RevokeDormant
  <2>4. payment'[p] = RefundedRow(p, amount)[p]
    BY <2>2, <2>3
  <2>5. \A q \in PaymentIds : q # p => Dormant(payment[q], payment'[q]) /\ revenue'[q] = revenue[q]
    BY <1>5, <2>2, <2>3 DEF Dormant
  <2>. QED
    BY <1>2, <2>2, <2>4, <2>5, OneKeepsBooks
<1>7. CASE ~immediate
  <2>1. revokeEnrollmentInTx(payment[p].owner, payment) /\ UNCHANGED revenue
    BY <1>1, <1>7 DEF revokeAccess
  <2>2. \A q \in PaymentIds :
          \/ payment'[q] = payment[q]
          \/ /\ payment[q].status = "PENDING" /\ payment'[q].status = "CANCELLED"
             /\ payment'[q].refunded = payment[q].refunded
    BY <1>2, <1>3, <2>1, RevokeDormant
  <2>3. \A q \in PaymentIds : Dormant(payment[q], payment'[q])
    BY <1>5, <2>2 DEF Dormant
  <2>. QED
    BY <1>2, <2>1, <2>3, DormantKeepsBooks
<1>. QED
  BY <1>6, <1>7

(* completeRequest and failRequest. *)
LEMMA ResolveKeepsBooks ==
  ASSUME Inv, Booked, NEW p \in PaymentIds, NEW i, completeRequest(p, i) \/ failRequest(p, i)
  PROVE  Booked'
<1>1. CASE completeRequest(p, i)
  <2>. DEFINE amount == refunds[p][i].amount
  <2>1. amount \in Nat
    BY <1>1, OpenRequest DEF completeRequest, RefundRows
  <2>2. /\ Refundable(p) /\ applySucceededRefund(p, amount, NoRequestKey, i)
        /\ payment' = RefundedRow(p, amount) /\ hook' = hook
    BY <1>1 DEF completeRequest
  <2>. HIDE DEF amount
  <2>3. /\ BookedRow(payment'[p], revenue'[p])
        /\ \A q \in PaymentIds : q # p => payment'[q] = payment[q] /\ revenue'[q] = revenue[q]
    BY <2>1, <2>2, RefundBooked
  <2>. QED
    BY <2>2, <2>3, OneKeepsBooks DEF Dormant
<1>2. CASE failRequest(p, i)
  BY <1>2, DormantKeepsBooks DEF failRequest, Dormant
<1>. QED
  BY <1>1, <1>2

LEMMA NextKeepsBooks ==
  ASSUME ~Online, Inv, Booked, [Next]_vars
  PROVE  Booked'
<1>1. ASSUME UNCHANGED <<payment, revenue, hook>> PROVE Booked'
  BY <1>1, DormantKeepsBooks DEF Dormant
<1>2. ASSUME NEW p \in PaymentIds, CheckoutAges(p) PROVE Booked'
  <2>1. payment \in [PaymentIds -> PaymentRows] /\ UNCHANGED <<revenue, hook>>
    BY <1>2, InvRows DEF CheckoutAges
  <2>2. \A q \in PaymentIds : Dormant(payment[q], payment'[q])
    BY <1>2, <2>1 DEF CheckoutAges, Dormant
  <2>. QED
    BY <2>1, <2>2, DormantKeepsBooks
<1>3. CASE CheckoutStep
  <2>1. ASSUME NEW r \in Requests, NEW e \in Enrollments, NEW price \in Prices,
               JoinChecks(r, e, price)
        PROVE  Booked'
    BY <1>1, <2>1 DEF JoinChecks
  <2>. QED
    BY <1>2, <1>3, <2>1, JoinKeepsBooks, CaptureKeepsBooks DEF CheckoutStep
<1>4. CASE RefundStep
  <2>1. ASSUME pruneIdempotency PROVE Booked'
    BY <1>1, <2>1 DEF pruneIdempotency
  <2>. QED
    BY <1>4, <2>1, RefundKeepsBooks, ResolveKeepsBooks DEF RefundStep
<1>5. ~WebhookStep
  BY DEF WebhookStep, WebhookArrives, WebhookCaptures, FailReads, FailWrites, markProcessed, Booked
<1>6. CASE UNCHANGED vars
  BY <1>1, <1>6 DEF vars
<1>. QED
  BY <1>3, <1>4, <1>5, <1>6 DEF Next

LEMMA InitBooked == Init => Booked
<1>. SUFFICES ASSUME Init PROVE Booked
  OBVIOUS
<1>1. \A p \in PaymentIds : payment[p].status = "NONE" /\ payment[p].refunded = 0 /\ revenue[p] = <<>>
  BY DEF Init, AccessInit, NoPayment
<1>2. \A h \in Hooks : hook[h].at = "idle"
  BY DEF Init
<1>. QED
  BY <1>1, <1>2, GrossOfNone DEF Booked, BookedRow, Kept

(* "Revenue is written once, at capture": as long as payments are confirmed by hand, the
   revenue lines of every payment add up to what was kept of it, to the piastre, whatever
   refunds were promised, paid out, retried or failed (capture, applySucceededRefund). *)
THEOREM RevenueIsMoneyKept == ASSUME ~Online PROVE Spec => []RevenueMatchesMoney
<1>1. Inv /\ Booked /\ [Next]_vars => Booked'
  BY NextKeepsBooks
<1>2. Booked => RevenueMatchesMoney
  BY BooksMatch
<1>. QED
  BY <1>1, <1>2, InitBooked, InvHolds, PTL DEF Spec
-----------------------------------------------------------------------------
\* Enrollments: every other way into and out of a course.
HIDE DEF Enrollments, PaymentIds, PaymentRows, EnrollmentRows, PaymentStatuses, EnrollmentStates

TaskRows ==
  [op : {"idle"}] \cup [op : {"free", "approval", "reject", "play"}, on : Enrollments]
    \cup [op : {"redeem"}, on : Enrollments, card : Codes]
    \cup [op : {"extend"}, on : Enrollments, ends : Nat]
    \cup [op : {"moving", "transfer"}, on : Enrollments, to : Enrollments, part : Parts \cup {NoPart}]

\* The inductive invariant: the payments', rows of tasks and a history of transfers that mean
\* something, and holdings that are covered.
EnrollmentsInv ==
  /\ Inv /\ HookOwned
  /\ task \in [Tasks -> TaskRows] /\ moved \in [Enrollments -> SUBSET Parts]
  /\ \A e \in Enrollments : Covered(e)

\* A step that grants no section and no part, and takes no redemption and no transfer back.
Narrows ==
  /\ redemptions \subseteq redemptions' /\ UNCHANGED moved
  /\ \A e \in Enrollments :
       /\ enrollment'[e].grants \subseteq enrollment[e].grants
       /\ entitlement'[e] \subseteq entitlement[e]

LEMMA NarrowsKeeps ==
  ASSUME \A e \in Enrollments : Covered(e), Narrows
  PROVE  \A e \in Enrollments : Covered(e)'
<1> SUFFICES ASSUME NEW e \in Enrollments PROVE Covered(e)'
  OBVIOUS
<1>1. Used(e) \subseteq Used(e)' /\ MovedSections(e)' = MovedSections(e) /\ UNCHANGED moved
  BY DEF Used, MovedSections, Narrows
<1>2. /\ enrollment'[e].grants \subseteq enrollment[e].grants
      /\ entitlement'[e] \subseteq entitlement[e]
      /\ Covered(e)
  BY DEF Narrows
<1> QED
  BY <1>1, <1>2 DEF Covered, CardSections

\* A row of the enrollments table is replaced, its section grants at most reduced.
LEMMA RowReplaced ==
  ASSUME Inv, NEW e, NEW row, enrollment' = [enrollment EXCEPT ![e] = row],
         row.grants \subseteq enrollment[e].grants
  PROVE  \A f \in Enrollments : enrollment'[f].grants \subseteq enrollment[f].grants
BY DEF Inv, TypeOK, AccessTypeOK

LEMMA RevokeNarrows ==
  ASSUME Inv, UNCHANGED moved, NEW e, NEW base, revokeEnrollmentInTx(e, base), redemptions \subseteq redemptions'
  PROVE  Narrows
<1>1. CASE enrollment[e].state = "REVOKED"
  BY <1>1 DEF revokeEnrollmentInTx, Narrows
<1>2. CASE enrollment[e].state # "REVOKED"
  <2> DEFINE row == [enrollment[e] EXCEPT !.state = "REVOKED", !.covers = FALSE, !.grants = {}]
  <2>1. enrollment' = [enrollment EXCEPT ![e] = row]
    BY <1>2, Zenon DEF revokeEnrollmentInTx, WithdrawnRow
  <2>2. entitlement' = [entitlement EXCEPT ![e] = {}]
    BY <1>2, Zenon DEF revokeEnrollmentInTx
  <2>3. e \in Enrollments => row.grants = {}
    BY DEF Inv, TypeOK, AccessTypeOK, EnrollmentRows
  <2> HIDE DEF row
  <2>4. \A f \in Enrollments : enrollment'[f].grants \subseteq enrollment[f].grants
    BY <2>1, <2>3 DEF Inv, TypeOK, AccessTypeOK
  <2>5. \A f \in Enrollments : entitlement'[f] \subseteq entitlement[f]
    BY <2>2 DEF Inv, TypeOK, AccessTypeOK
  <2> QED
    BY <2>4, <2>5 DEF Narrows
<1> QED
  BY <1>1, <1>2

\* Checkouts, captures, refunds and webhooks grant no section and no part.
LEMMA PaymentNarrows ==
  ASSUME Inv, UNCHANGED moved, [Next]_vars, UNCHANGED redemptions
  PROVE  Narrows
<1>1. ASSUME UNCHANGED <<enrollment, entitlement>> PROVE Narrows
  BY <1>1 DEF Narrows
<1>2. ASSUME NEW r \in Requests, joinWithPayment(r) PROVE Narrows
  <2> DEFINE e == request[r].on
             row == [enrollment[e] EXCEPT !.state = "PENDING_PAYMENT"]
  <2>1. enrollment' = [enrollment EXCEPT ![e] = row] /\ UNCHANGED entitlement
    BY <1>2 DEF joinWithPayment
  <2>2. e \in Enrollments
    BY <1>2 DEF joinWithPayment, Inv, TypeOK
  <2>3. row.grants = enrollment[e].grants
    BY <2>2 DEF Inv, TypeOK, AccessTypeOK, EnrollmentRows
  <2> HIDE DEF row
  <2> QED
    BY <2>1, <2>3, RowReplaced DEF Narrows
<1>3. ASSUME NEW p \in PaymentIds, capture(p) PROVE Narrows
  <2> DEFINE e == payment[p].owner
             ends == computeAccessEnd(CourseTerms[e[2]])
             row == [enrollment[e] EXCEPT !.state = "ACTIVE", !.covers = TRUE, !.ends = ends]
  <2>1. enrollment' = [enrollment EXCEPT ![e] = row] /\ UNCHANGED entitlement
    BY <1>3, Zenon DEF capture
  <2> HIDE DEF ends
  <2>2. e \in Enrollments => row.grants = enrollment[e].grants
    BY DEF Inv, TypeOK, AccessTypeOK, EnrollmentRows
  <2> HIDE DEF row
  <2>3. \A f \in Enrollments : enrollment'[f].grants \subseteq enrollment[f].grants
    BY <2>1, <2>2 DEF Inv, TypeOK, AccessTypeOK
  <2> QED
    BY <2>1, <2>3 DEF Narrows
<1>4. CASE CheckoutStep
  BY <1>1, <1>2, <1>3, <1>4 DEF CheckoutStep, JoinChecks, CheckoutAges, confirm
<1>5. CASE RefundStep
  <2>1. ASSUME NEW p \in PaymentIds, NEW immediate \in BOOLEAN, NEW key \in RefundKeys, NEW asked,
               refund(p, asked, immediate, key)
        PROVE  Narrows
    <3>1. PICK amount : \/ revokeAccess(p, RefundedRow(p, amount))
                        \/ revokeAccess(p, payment)
      BY <2>1, Zenon DEF refund
    <3> QED
      BY <3>1, RevokeNarrows DEF revokeAccess
  <2> QED
    BY <1>1, <1>5, <2>1 DEF RefundStep, completeRequest, failRequest, pruneIdempotency
<1>6. CASE WebhookStep
  <2>1. PICK h \in Hooks :
          \/ \E event \in Events : WebhookArrives(h, event)
          \/ WebhookCaptures(h) \/ FailReads(h) \/ FailWrites(h) \/ markProcessed(h)
    BY <1>6 DEF WebhookStep
  <2>2. CASE WebhookCaptures(h)
    <3>1. hook[h].event.payment \in PaymentIds
      BY <2>2 DEF WebhookCaptures, Inv, TypeOK, Events
    <3>2. capture(hook[h].event.payment) \/ UNCHANGED <<enrollment, entitlement>>
      BY <2>2 DEF WebhookCaptures, accessVars
    <3> QED
      BY <1>1, <1>3, <3>1, <3>2
  <2> QED
    BY <1>1, <2>1, <2>2 DEF WebhookArrives, FailReads, FailWrites, markProcessed, accessVars
<1> QED
  BY <1>1, <1>4, <1>5, <1>6 DEF Next, vars

-----------------------------------------------------------------------------
\* A step on the enrollments alone keeps the payments' invariant.
LEMMA AccessStep ==
  ASSUME Inv, HookOwned, AccessTypeOK', NoPaymentStep
  PROVE  Inv' /\ HookOwned'
<1>1. TypeOK'
  BY DEF Inv, TypeOK, NoPaymentStep
<1>2. Owned' /\ RefundedNeverExceedsPaid' /\ RefundKeyUsedOnce' /\ RequestResolvedOnce'
  BY DEF Inv, Owned, RefundedNeverExceedsPaid, RefundKeyUsedOnce, RequestResolvedOnce, NoPaymentStep
<1> QED
  BY <1>1, <1>2 DEF Inv, HookOwned, NoPaymentStep

LEMMA BeginTypes ==
  ASSUME task \in [Tasks -> TaskRows], NEW t \in Tasks, NEW row \in TaskRows, Begin(t, row)
  PROVE  task' \in [Tasks -> TaskRows]
BY DEF Begin

LEMMA EndTypes ==
  ASSUME task \in [Tasks -> TaskRows], NEW t \in Tasks, End(t)
  PROVE  task' \in [Tasks -> TaskRows]
<1>1. [op |-> "idle"] \in TaskRows
  BY DEF TaskRows
<1> QED
  BY <1>1 DEF End

\* What a task is about.
LEMMA TaskShape ==
  ASSUME EnrollmentsInv, NEW t \in Tasks
  PROVE  /\ task[t].op # "idle" => task[t].on \in Enrollments
         /\ task[t].op = "redeem" => task[t].card \in Codes
         /\ task[t].op = "extend" => task[t].ends \in Nat
BY DEF EnrollmentsInv, TaskRows

\* A request that only reads.
LEMMA ReadKeeps ==
  ASSUME EnrollmentsInv, UNCHANGED moved, NEW t \in Tasks, NEW row \in TaskRows, Begin(t, row), UNCHANGED vars,
         UNCHANGED redemptions
  PROVE  EnrollmentsInv'
<1>1. Inv' /\ HookOwned'
  BY NextKeepsInv, NextKeepsHookOwned DEF EnrollmentsInv
<1>2. Narrows
  BY DEF Narrows, vars
<1> QED
  BY <1>1, <1>2, NarrowsKeeps, BeginTypes DEF EnrollmentsInv

\* An enrollments row is replaced by a well-formed one that grants no more; nothing else moves.
LEMMA RowStepKeeps ==
  ASSUME EnrollmentsInv, UNCHANGED moved, NEW e \in Enrollments, NEW row \in EnrollmentRows,
         enrollment' = [enrollment EXCEPT ![e] = row], row.grants \subseteq enrollment[e].grants,
         NoPaymentStep, UNCHANGED <<entitlement, ticket, studentCount, now, redemptions>>,
         task' \in [Tasks -> TaskRows]
  PROVE  EnrollmentsInv'
<1>1. AccessTypeOK'
  BY DEF EnrollmentsInv, Inv, TypeOK, AccessTypeOK, NoPaymentStep
<1>2. Narrows
  BY RowReplaced DEF Narrows, EnrollmentsInv
<1> QED
  BY <1>1, <1>2, AccessStep, NarrowsKeeps DEF EnrollmentsInv

LEMMA StateRow ==
  ASSUME Inv, NEW e \in Enrollments, NEW state \in EnrollmentStates
  PROVE  /\ [enrollment[e] EXCEPT !.state = state] \in EnrollmentRows
         /\ [enrollment[e] EXCEPT !.state = state].grants = enrollment[e].grants
BY DEF Inv, TypeOK, AccessTypeOK, EnrollmentRows

\* joinWithApproval and rejectRequest, whatever has become of the row meanwhile.
LEMMA StateStepsKeep ==
  ASSUME EnrollmentsInv, UNCHANGED moved, NEW t \in Tasks, joinWithApproval(t) \/ rejectRequest(t)
  PROVE  EnrollmentsInv'
<1>1. PICK e \in Enrollments : e = task[t].on
  BY TaskShape DEF joinWithApproval, rejectRequest
<1>2. PICK state \in EnrollmentStates : enrollment' = [enrollment EXCEPT ![e].state = state]
  BY <1>1 DEF joinWithApproval, rejectRequest, EnrollmentStates
<1>3. /\ NoPaymentStep /\ UNCHANGED <<entitlement, ticket, studentCount, now, redemptions>>
      /\ End(t)
  BY DEF joinWithApproval, rejectRequest
<1>4. task' \in [Tasks -> TaskRows]
  BY <1>3, EndTypes DEF EnrollmentsInv
<1> DEFINE row == [enrollment[e] EXCEPT !.state = state]
<1>5. row \in EnrollmentRows /\ row.grants = enrollment[e].grants /\ enrollment' = [enrollment EXCEPT ![e] = row]
  BY <1>2, StateRow DEF EnrollmentsInv
<1> HIDE DEF row
<1> QED
  BY <1>3, <1>4, <1>5, RowStepKeeps

LEMMA extendKeeps ==
  ASSUME EnrollmentsInv, UNCHANGED moved, NEW t \in Tasks, extend(t)
  PROVE  EnrollmentsInv'
<1>1. PICK e \in Enrollments, ends \in Nat : e = task[t].on /\ ends = task[t].ends
  BY TaskShape DEF extend
<1> DEFINE active == [enrollment[e] EXCEPT !.state = "ACTIVE"]
           row == [active EXCEPT !.ends = ends]
<1>2. active \in EnrollmentRows /\ active.grants = enrollment[e].grants
  BY StateRow DEF EnrollmentsInv, EnrollmentStates
<1>3. enrollment' = [enrollment EXCEPT ![e] = row]
  BY <1>1 DEF extend, EnrollmentsInv, Inv, TypeOK, AccessTypeOK
<1>4. /\ NoPaymentStep /\ UNCHANGED <<entitlement, ticket, studentCount, now, redemptions>>
      /\ End(t)
  BY DEF extend
<1> HIDE DEF active
<1>5. row \in EnrollmentRows /\ row.grants = enrollment[e].grants
  BY <1>2 DEF EnrollmentRows
<1>6. task' \in [Tasks -> TaskRows]
  BY <1>4, EndTypes DEF EnrollmentsInv
<1> HIDE DEF row
<1> QED
  BY <1>3, <1>4, <1>5, <1>6, RowStepKeeps

LEMMA expireKeeps ==
  ASSUME EnrollmentsInv, UNCHANGED moved, expireLapsedEnrollments
  PROVE  EnrollmentsInv'
<1> DEFINE lapsed == {e \in Enrollments : enrollment[e].state = "ACTIVE" /\ Lapsed(enrollment[e])}
<1>1. enrollment' = [e \in Enrollments |->
           IF e \in lapsed THEN [enrollment[e] EXCEPT !.state = "EXPIRED"] ELSE enrollment[e]]
  BY DEF expireLapsedEnrollments
<1>2. NoPaymentStep /\ UNCHANGED <<entitlement, ticket, studentCount, now, redemptions, task>>
  BY DEF expireLapsedEnrollments
<1> HIDE DEF lapsed
<1>3. ASSUME NEW e \in Enrollments
      PROVE  enrollment'[e] \in EnrollmentRows /\ enrollment'[e].grants = enrollment[e].grants
  BY <1>1, StateRow DEF EnrollmentsInv, Inv, TypeOK, AccessTypeOK, EnrollmentStates
<1>4. enrollment' \in [Enrollments -> EnrollmentRows]
  BY <1>1, <1>3
<1>5. AccessTypeOK'
  BY <1>2, <1>4 DEF EnrollmentsInv, Inv, TypeOK, AccessTypeOK, NoPaymentStep
<1>6. Narrows
  BY <1>2, <1>3 DEF Narrows
<1> QED
  BY <1>2, <1>5, <1>6, AccessStep, NarrowsKeeps DEF EnrollmentsInv

\* Playback tickets and the clock.
LEMMA OutsideKeeps ==
  ASSUME EnrollmentsInv, UNCHANGED moved, NoPaymentStep, UNCHANGED <<enrollment, entitlement, studentCount, redemptions>>,
         ticket' \in [Enrollments -> BOOLEAN], now' \in Nat, task' \in [Tasks -> TaskRows]
  PROVE  EnrollmentsInv'
<1>1. AccessTypeOK'
  BY DEF EnrollmentsInv, Inv, TypeOK, AccessTypeOK, NoPaymentStep
<1>2. Narrows
  BY DEF Narrows
<1> QED
  BY <1>1, <1>2, AccessStep, NarrowsKeeps DEF EnrollmentsInv

-----------------------------------------------------------------------------
\* The row a grant writes.
LEMMA GrantedRowType ==
  ASSUME AccessTypeOK, NEW e \in Enrollments, NEW terms \in [Courses -> Terms], NEW scope \in SUBSET Sections
  PROVE  /\ GrantedRow(e, terms, scope) \in EnrollmentRows
         /\ GrantedRow(e, terms, scope).grants = enrollment[e].grants \cup scope
         /\ GrantedRow(e, terms, scope).covers = WholeAfter(e, scope)
<1> DEFINE ends == computeAccessEnd(terms[e[2]])
           whole == WholeAfter(e, scope)
           grants == enrollment[e].grants \cup scope
<1>1. ends \in Nat \cup {Forever}
  <2>1. terms[e[2]] \in Terms /\ now \in Nat
    BY DEF Enrollments, AccessTypeOK
  <2> QED
    BY <2>1, EndType
<1>2. whole \in BOOLEAN
  BY DEF WholeAfter, AccessTypeOK, EnrollmentRows
<1>3. grants \in SUBSET Sections
  BY DEF AccessTypeOK, EnrollmentRows
<1> HIDE DEF ends, whole, grants
<1>4. [state |-> "ACTIVE", ends |-> ends, covers |-> whole, grants |-> grants] \in EnrollmentRows
  BY <1>1, <1>2, <1>3 DEF EnrollmentRows, EnrollmentStates
<1> DEFINE row == GrantedRow(e, terms, scope)
<1>5. row = [state |-> "ACTIVE", ends |-> ends, covers |-> whole, grants |-> grants]
  BY Zenon DEF GrantedRow, ends, whole, grants
<1> HIDE DEF row
<1>6. row \in EnrollmentRows /\ row.grants = grants /\ row.covers = whole
  BY <1>4, <1>5
<1> QED
  BY <1>6 DEF row, grants, whole

\* Grants: grantAccess adds the scope to the rows it is given and to no other.
LEMMA GrantEffect ==
  ASSUME AccessTypeOK, NEW es \in SUBSET Enrollments, NEW terms \in [Courses -> Terms],
         NEW scope \in SUBSET Sections, grantAccess(es, terms, scope),
         entitlement' \in [Enrollments -> SUBSET Parts], UNCHANGED <<ticket, payment, now>>
  PROVE  /\ AccessTypeOK'
         /\ \A e \in es : /\ enrollment'[e].grants = enrollment[e].grants \cup scope
                          /\ enrollment'[e].covers = WholeAfter(e, scope)
         /\ \A e \in Enrollments \ es : enrollment'[e] = enrollment[e]
<1> DEFINE Row(e) == GrantedRow(e, terms, scope)
<1>1. enrollment' = [e \in Enrollments |-> IF e \in es THEN Row(e) ELSE enrollment[e]]
  BY DEF grantAccess
<1>2. \A e \in Enrollments : /\ Row(e) \in EnrollmentRows
                             /\ Row(e).grants = enrollment[e].grants \cup scope
                             /\ Row(e).covers = WholeAfter(e, scope)
  BY GrantedRowType
<1> HIDE DEF Row
<1>3. enrollment' \in [Enrollments -> EnrollmentRows]
  BY <1>1, <1>2 DEF AccessTypeOK
<1>4. studentCount' \in [Courses -> Nat]
  BY RecountType DEF grantAccess, AccessTypeOK
<1>5. AccessTypeOK'
  BY <1>3, <1>4 DEF AccessTypeOK
<1> QED
  BY <1>1, <1>2, <1>5

\* joinFree and grantByAdmin: the whole course, so no section and no part.
LEMMA WholeGrantKeeps ==
  ASSUME EnrollmentsInv, UNCHANGED moved, NEW e \in Enrollments, NEW terms \in [Courses -> Terms],
         grantAccess({e}, terms, {}), NoPaymentStep,
         UNCHANGED <<entitlement, ticket, now, redemptions>>, task' \in [Tasks -> TaskRows]
  PROVE  EnrollmentsInv'
<1>1. {e} \in SUBSET Enrollments /\ {} \in SUBSET Sections /\ UNCHANGED payment /\ AccessTypeOK
  BY DEF NoPaymentStep, EnrollmentsInv, Inv, TypeOK
<1>2. /\ AccessTypeOK'
      /\ \A f \in {e} : enrollment'[f].grants = enrollment[f].grants \cup {}
      /\ \A f \in Enrollments \ {e} : enrollment'[f] = enrollment[f]
  <2>1. entitlement' \in [Enrollments -> SUBSET Parts]
    BY <1>1 DEF AccessTypeOK
  <2> QED
    BY <1>1, <2>1, GrantEffect
<1>3. Narrows
  BY <1>2 DEF Narrows
<1> QED
  BY <1>2, <1>3, AccessStep, NarrowsKeeps DEF EnrollmentsInv

LEMMA grantByAdminKeeps ==
  ASSUME EnrollmentsInv, UNCHANGED moved, NEW e \in Enrollments, NEW days \in {0} \cup ExtendDays, grantByAdmin(e, days)
  PROVE  EnrollmentsInv'
<1> DEFINE terms == IF days = 0 THEN CourseTerms
                    ELSE [k \in Courses |-> [type |-> "FIXED_DAYS", days |-> days, until |-> 0]]
<1>1. terms \in [Courses -> Terms]
  <2>1. days \in Nat
    BY EnrollmentsAssumption
  <2>2. [type |-> "FIXED_DAYS", days |-> days, until |-> 0] \in Terms
    BY <2>1 DEF Terms
  <2> QED
    BY <2>2, AccessAssumption
<1>2. grantAccess({e}, terms, {})
  BY Zenon DEF grantByAdmin
<1>3. NoPaymentStep /\ UNCHANGED <<entitlement, ticket, now, redemptions, task>>
  BY DEF grantByAdmin
<1> HIDE DEF terms
<1> QED
  BY <1>1, <1>2, <1>3, WholeGrantKeeps DEF EnrollmentsInv

LEMMA joinFreeKeeps ==
  ASSUME EnrollmentsInv, UNCHANGED moved, NEW t \in Tasks, joinFree(t)
  PROVE  EnrollmentsInv'
<1>1. PICK e \in Enrollments : e = task[t].on
  BY TaskShape DEF joinFree
<1>2. /\ grantAccess({e}, CourseTerms, {}) /\ NoPaymentStep
      /\ UNCHANGED <<entitlement, ticket, now, redemptions>> /\ End(t)
  BY <1>1 DEF joinFree
<1>3. task' \in [Tasks -> TaskRows]
  BY <1>2, EndTypes DEF EnrollmentsInv
<1> QED
  BY <1>2, <1>3, WholeGrantKeeps, AccessAssumption

\* redeemCode: what the card gives is covered by the redemption written with it.
LEMMA redeemCodeKeeps ==
  ASSUME EnrollmentsInv, UNCHANGED moved, NEW t \in Tasks, redeemCode(t)
  PROVE  EnrollmentsInv'
<1>1. PICK e \in Enrollments, c \in Codes : e = task[t].on /\ c = task[t].card
  BY TaskShape DEF redeemCode
<1> DEFINE all == {<<e[1], k>> : k \in Cards[c].courses}
<1>2. /\ e \in all /\ UseCode(c, e[1]) /\ grantAccess(all, Cards[c].terms, Cards[c].scope)
      /\ grantPartFromCode(e, c) /\ End(t) /\ NoPaymentStep /\ UNCHANGED <<ticket, now>>
  BY <1>1 DEF redeemCode
<1>3. Cards[c] \in CardRecords
  BY EnrollmentsAssumption
<1>4. /\ Cards[c].courses \in SUBSET Courses /\ Cards[c].terms \in [Courses -> Terms]
      /\ Cards[c].scope \in SUBSET Sections /\ Cards[c].part \in Parts \cup {NoPart}
  BY <1>3 DEF CardRecords
<1>5. all \in SUBSET Enrollments /\ \A f \in all : f[1] = e[1] /\ f[2] \in Cards[c].courses
  BY <1>4 DEF Enrollments
<1> HIDE DEF all
<1> DEFINE part == {Cards[c].part} \ {NoPart}
<1>6. /\ entitlement' = [entitlement EXCEPT ![e] = entitlement[e] \cup part]
      /\ entitlement \in [Enrollments -> SUBSET Parts] /\ AccessTypeOK
  BY <1>2 DEF grantPartFromCode, EnrollmentsInv, Inv, TypeOK, AccessTypeOK
<1>7. entitlement' \in [Enrollments -> SUBSET Parts]
  BY <1>4, <1>6
<1>8. /\ AccessTypeOK'
      /\ \A f \in all : enrollment'[f].grants = enrollment[f].grants \cup Cards[c].scope
      /\ \A f \in Enrollments \ all : enrollment'[f] = enrollment[f]
  <2> DEFINE terms == Cards[c].terms
             scope == Cards[c].scope
  <2>1. /\ all \in SUBSET Enrollments /\ terms \in [Courses -> Terms] /\ scope \in SUBSET Sections
        /\ grantAccess(all, terms, scope) /\ UNCHANGED <<ticket, payment, now>>
    BY <1>2, <1>4, <1>5 DEF NoPaymentStep
  <2> HIDE DEF terms, scope
  <2>2. /\ AccessTypeOK'
        /\ \A f \in all : enrollment'[f].grants = enrollment[f].grants \cup scope
        /\ \A f \in Enrollments \ all : enrollment'[f] = enrollment[f]
    BY <1>6, <1>7, <2>1, GrantEffect
  <2> QED
    BY <2>2 DEF scope
<1>9. redemptions' = redemptions \cup {<<c, e[1]>>}
  BY <1>2 DEF UseCode
<1>10. ASSUME NEW f \in Enrollments PROVE Covered(f)'
  <2>1. Used(f) \subseteq Used(f)' /\ Covered(f) /\ MovedSections(f)' = MovedSections(f)
    BY <1>9 DEF Used, MovedSections, EnrollmentsInv
  <2>2. f \in all => c \in Used(f)'
    BY <1>5, <1>9 DEF Used
  <2>3. enrollment'[f].grants \subseteq CardSections(f)' \cup MovedSections(f)
    <3>1. CardSections(f) \subseteq CardSections(f)' /\ (f \in all => Cards[c].scope \subseteq CardSections(f)')
      BY <2>1, <2>2 DEF CardSections
    <3>2. enrollment[f].grants \subseteq CardSections(f) \cup MovedSections(f)
      BY <2>1 DEF Covered
    <3>3. CASE f \in all
      BY <1>8, <3>1, <3>2, <3>3
    <3>4. CASE f \notin all
      BY <1>8, <3>1, <3>2, <3>4
    <3> QED
      BY <3>3, <3>4
  <2>4. entitlement'[f] \subseteq {Cards[d].part : d \in Used(f)'} \cup moved[f]
    <3>1. entitlement[f] \subseteq {Cards[d].part : d \in Used(f)'} \cup moved[f]
      BY <2>1 DEF Covered, CardSections
    <3>2. CASE f = e
      BY <1>2, <1>6, <2>2, <3>1, <3>2
    <3>3. CASE f # e
      BY <1>6, <3>1, <3>3
    <3> QED
      BY <3>2, <3>3
  <2> QED
    BY <1>2, <2>1, <2>3, <2>4 DEF Covered
<1> QED
  BY <1>2, <1>8, <1>10, AccessStep, EndTypes DEF EnrollmentsInv

\* revoke: the row, its checkouts, its parts and its tickets, under the payments' invariant.
LEMMA revokeFromCourseKeeps ==
  ASSUME EnrollmentsInv, UNCHANGED moved, NEW e \in Enrollments, revokeFromCourse(e)
  PROVE  EnrollmentsInv'
<1>1. /\ revokeEnrollmentInTx(e, payment)
      /\ UNCHANGED <<now, refunds, revenue, recorded, request, hook, processed, redemptions, task>>
  BY DEF revokeFromCourse
<1>2. /\ payment \in [PaymentIds -> PaymentRows] /\ AccessTypeOK
      /\ \A q \in PaymentIds : RowOK(payment[q])
  BY InvRows DEF EnrollmentsInv, Inv, TypeOK
<1>3. /\ AccessTypeOK'
      /\ \A q \in PaymentIds :
           \/ payment'[q] = payment[q]
           \/ /\ payment[q].status = "PENDING" /\ payment[q].owner = e
              /\ payment'[q] = [payment[q] EXCEPT !.status = "CANCELLED"]
  BY <1>1, <1>2, RevokeEffect
<1>4. ASSUME NEW q \in PaymentIds PROVE RowOK(payment'[q]) /\ payment'[q].owner = payment[q].owner
  <2>1. CASE payment'[q] = payment[q]
    BY <1>2, <2>1
  <2>2. CASE payment[q].status = "PENDING" /\ payment'[q] = [payment[q] EXCEPT !.status = "CANCELLED"]
    BY <1>2, <2>2, CancelledRowOK DEF PaymentRows
  <2> QED
    BY <1>3, <2>1, <2>2
<1>5. Owned' /\ RefundedNeverExceedsPaid'
  BY <1>4 DEF RowOK, Owned, RefundedNeverExceedsPaid
<1>6. TypeOK' /\ RefundKeyUsedOnce' /\ RequestResolvedOnce'
  BY <1>1, <1>3 DEF EnrollmentsInv, Inv, TypeOK, RefundKeyUsedOnce, RequestResolvedOnce
<1>7. HookOwned'
  BY <1>1, <1>4 DEF EnrollmentsInv, Inv, TypeOK, HookOwned, Events
<1>8. Narrows
  BY <1>1, RevokeNarrows DEF EnrollmentsInv
<1> QED
  BY <1>1, <1>5, <1>6, <1>7, <1>8, NarrowsKeeps DEF EnrollmentsInv, Inv

\* The open checkouts of an enrollment are closed: no money moves, and no row changes hands.
LEMMA ClosedKeeps ==
  ASSUME Inv, HookOwned, NEW e \in Enrollments, payment' = CheckoutsClosed(e, payment), AccessTypeOK',
         UNCHANGED <<refunds, revenue, recorded, request, hook, processed>>
  PROVE  /\ Inv' /\ HookOwned'
         /\ \A q \in PaymentIds :
              \/ payment'[q] = payment[q]
              \/ /\ payment[q].status = "PENDING" /\ payment'[q].status = "CANCELLED"
                 /\ payment'[q].refunded = payment[q].refunded
<1>1. payment \in [PaymentIds -> PaymentRows] /\ \A q \in PaymentIds : RowOK(payment[q])
  BY InvRows DEF Inv, TypeOK
<1>2. \A q \in PaymentIds :
        \/ payment'[q] = payment[q]
        \/ /\ payment[q].status = "PENDING"
           /\ payment'[q] = [payment[q] EXCEPT !.status = "CANCELLED"]
  BY DEF CheckoutsClosed
<1>3. ASSUME NEW q \in PaymentIds
      PROVE  /\ RowOK(payment'[q]) /\ payment'[q].owner = payment[q].owner
             /\ \/ payment'[q] = payment[q]
                \/ /\ payment[q].status = "PENDING" /\ payment'[q].status = "CANCELLED"
                   /\ payment'[q].refunded = payment[q].refunded
  <2>1. CASE payment'[q] = payment[q]
    BY <1>1, <2>1
  <2>2. CASE payment[q].status = "PENDING" /\ payment'[q] = [payment[q] EXCEPT !.status = "CANCELLED"]
    BY <1>1, <2>2, CancelledRowOK DEF PaymentRows
  <2> QED
    BY <1>2, <2>1, <2>2
<1>4. Owned' /\ RefundedNeverExceedsPaid'
  BY <1>3 DEF RowOK, Owned, RefundedNeverExceedsPaid
<1>5. TypeOK' /\ RefundKeyUsedOnce' /\ RequestResolvedOnce'
  BY DEF Inv, TypeOK, RefundKeyUsedOnce, RequestResolvedOnce
<1>6. HookOwned'
  BY <1>3 DEF Inv, TypeOK, HookOwned, Events
<1> QED
  BY <1>3, <1>4, <1>5, <1>6 DEF Inv

\* The part named in a transfer and its sections.
LEMMA MovedTypes ==
  ASSUME NEW part \in Parts \cup {NoPart}
  PROVE  MovedPart(part) \in SUBSET Parts /\ MovedScope(part) \in SUBSET Sections
<1>1. MovedPart(part) \in SUBSET Parts
  BY DEF MovedPart
<1>2. ASSUME NEW q \in MovedPart(part) PROVE PartSections[q] \in SUBSET Sections
  BY <1>1, EnrollmentsAssumption
<1> QED
  BY <1>1, <1>2 DEF MovedScope

\* The transaction of a transfer: what it grants is what it records as moved.
LEMMA MoveKeeps ==
  ASSUME EnrollmentsInv, NEW from \in Enrollments, NEW to \in Enrollments,
         NEW part \in Parts \cup {NoPart}, MovePlace(from, to, part), task' \in [Tasks -> TaskRows]
  PROVE  EnrollmentsInv'
<1> DEFINE given == GrantedRow(to, CourseTerms, MovedScope(part))
           left == WithdrawnRow(from)
           parts == MovedPart(part)
           scope == MovedScope(part)
<1>1. /\ enrollment' = [enrollment EXCEPT ![to] = given, ![from] = left]
      /\ payment' = CheckoutsClosed(from, payment)
      /\ entitlement' = [entitlement EXCEPT ![to] = @ \cup parts, ![from] = {}]
      /\ ticket' = [ticket EXCEPT ![from] = FALSE]
      /\ studentCount' = Recount({from[2], to[2]})
      /\ moved' = [moved EXCEPT ![to] = @ \cup parts]
      /\ UNCHANGED <<now, refunds, revenue, recorded, request, hook, processed, code, redemptions>>
  BY Zenon DEF MovePlace
<1>2. AccessTypeOK /\ moved \in [Enrollments -> SUBSET Parts] /\ parts \in SUBSET Parts
  BY MovedTypes DEF EnrollmentsInv, Inv, TypeOK
<1>3. given \in EnrollmentRows /\ given.grants = enrollment[to].grants \cup scope
  BY <1>2, MovedTypes, GrantedRowType, AccessAssumption
<1>4. left \in EnrollmentRows /\ left.grants = {}
  BY <1>2 DEF WithdrawnRow, AccessTypeOK, EnrollmentRows, EnrollmentStates
<1>5. \A q \in parts : PartSections[q] \subseteq scope
  BY DEF MovedScope
<1>6. scope \subseteq UNION {PartSections[q] : q \in parts}
  BY DEF MovedScope
<1> HIDE DEF given, left, parts, scope
<1>7. AccessTypeOK'
  <2>1. enrollment' \in [Enrollments -> EnrollmentRows]
    BY <1>1, <1>2, <1>3, <1>4 DEF AccessTypeOK
  <2>2. payment' \in [PaymentIds -> PaymentRows]
    <3>1. ASSUME NEW q \in PaymentIds PROVE [payment[q] EXCEPT !.status = "CANCELLED"] \in PaymentRows
      BY <1>2 DEF AccessTypeOK, PaymentRows, PaymentStatuses
    <3> QED
      BY <1>1, <1>2, <3>1 DEF AccessTypeOK, CheckoutsClosed
  <2>3. studentCount' \in [Courses -> Nat]
    BY <1>1, <1>2, RecountType DEF AccessTypeOK
  <2>4. entitlement' \in [Enrollments -> SUBSET Parts] /\ ticket' \in [Enrollments -> BOOLEAN]
    BY <1>1, <1>2 DEF AccessTypeOK
  <2> QED
    BY <1>1, <1>2, <2>1, <2>2, <2>3, <2>4 DEF AccessTypeOK
<1>8. Inv' /\ HookOwned'
  BY <1>1, <1>7, ClosedKeeps DEF EnrollmentsInv
<1>9. ASSUME NEW f \in Enrollments PROVE Covered(f)'
  <2>1. Used(f)' = Used(f) /\ Covered(f)
    BY <1>1 DEF Used, EnrollmentsInv
  <2>2. /\ moved[f] \subseteq moved'[f]
        /\ f = to => moved'[f] = moved[f] \cup parts
    BY <1>1, <1>2
  <2>3. /\ MovedSections(f) \subseteq MovedSections(f)'
        /\ f = to => scope \subseteq MovedSections(f)'
    BY <1>6, <2>2 DEF MovedSections
  <2>4. \/ enrollment'[f].grants \subseteq enrollment[f].grants
        \/ f = to /\ enrollment'[f].grants = enrollment[f].grants \cup scope
    BY <1>1, <1>2, <1>3, <1>4 DEF AccessTypeOK
  <2>5. \/ entitlement'[f] \subseteq entitlement[f]
        \/ f = to /\ entitlement'[f] = entitlement[f] \cup parts
    BY <1>1, <1>2 DEF AccessTypeOK
  <2>6. enrollment'[f].grants \subseteq CardSections(f)' \cup MovedSections(f)'
    <3>1. CardSections(f)' = CardSections(f)
      BY <1>1 DEF CardSections, Used
    <3>2. enrollment[f].grants \subseteq CardSections(f) \cup MovedSections(f)
      BY <2>1 DEF Covered
    <3> QED
      BY <2>3, <2>4, <3>1, <3>2
  <2>7. entitlement'[f] \subseteq {Cards[c].part : c \in Used(f)'} \cup moved'[f]
    BY <2>1, <2>2, <2>5 DEF Covered, CardSections
  <2> QED
    BY <2>6, <2>7 DEF Covered
<1>10. moved' \in [Enrollments -> SUBSET Parts]
  BY <1>1, <1>2
<1> QED
  BY <1>8, <1>9, <1>10 DEF EnrollmentsInv

\* What a transfer in flight is about.
LEMMA MoveShape ==
  ASSUME EnrollmentsInv, NEW t \in Tasks, task[t].op \in {"moving", "transfer"}
  PROVE  /\ task[t].on \in Enrollments /\ task[t].to \in Enrollments
         /\ task[t].part \in Parts \cup {NoPart}
         /\ [task[t] EXCEPT !.op = "transfer"] \in TaskRows
<1>1. task[t] \in [op : {"moving", "transfer"}, on : Enrollments, to : Enrollments, part : Parts \cup {NoPart}]
  BY DEF EnrollmentsInv, TaskRows
<1> QED
  BY <1>1 DEF TaskRows

LEMMA TransferStepKeeps ==
  ASSUME EnrollmentsInv, TransferStep
  PROVE  EnrollmentsInv'
<1>1. PICK t \in Tasks :
        \/ /\ \/ \E from, to \in Enrollments, part \in Parts \cup {NoPart} : BeginTransfer(t, from, to, part)
              \/ TransferChecks(t) \/ TransferConflicts(t)
           /\ UNCHANGED moved
        \/ transfer(t)
  BY DEF TransferStep
<1>2. ASSUME NEW from \in Enrollments, NEW to \in Enrollments, NEW part \in Parts \cup {NoPart},
             BeginTransfer(t, from, to, part), UNCHANGED moved
      PROVE  EnrollmentsInv'
  <2> DEFINE op == IF part = NoPart THEN "transfer" ELSE "moving"
             row == [op |-> op, on |-> from, to |-> to, part |-> part]
  <2>1. Begin(t, row) /\ UNCHANGED <<vars, code, redemptions>>
    BY <1>2 DEF BeginTransfer
  <2>2. op \in {"moving", "transfer"}
    OBVIOUS
  <2> HIDE DEF op
  <2>3. row \in TaskRows
    BY <2>2 DEF TaskRows
  <2> HIDE DEF row
  <2> QED
    BY <1>2, <2>1, <2>3, ReadKeeps
<1>3. ASSUME TransferChecks(t) \/ TransferConflicts(t), UNCHANGED moved
      PROVE  EnrollmentsInv'
  <2>1. UNCHANGED vars /\ UNCHANGED redemptions
    BY <1>3 DEF TransferChecks, TransferConflicts
  <2>2. [op |-> "idle"] \in TaskRows
    BY DEF TaskRows
  <2>3. task' \in [Tasks -> TaskRows]
    <3>1. CASE TransferChecks(t)
      BY <2>2, <3>1, MoveShape DEF TransferChecks, EnrollmentsInv
    <3>2. CASE TransferConflicts(t)
      BY <3>2, EndTypes DEF TransferConflicts, EnrollmentsInv
    <3> QED
      BY <1>3, <3>1, <3>2
  <2>4. Inv' /\ HookOwned'
    BY <2>1, NextKeepsInv, NextKeepsHookOwned DEF EnrollmentsInv
  <2>5. Narrows
    BY <1>3, <2>1 DEF Narrows, vars
  <2> QED
    BY <1>3, <2>3, <2>4, <2>5, NarrowsKeeps DEF EnrollmentsInv
<1>4. CASE transfer(t)
  <2>1. /\ MovePlace(task[t].on, task[t].to, task[t].part) /\ End(t)
        /\ task[t].op \in {"moving", "transfer"}
    BY <1>4 DEF transfer
  <2>2. task' \in [Tasks -> TaskRows]
    BY <2>1, EndTypes DEF EnrollmentsInv
  <2> QED
    BY <2>1, <2>2, MoveShape, MoveKeeps
<1> QED
  BY <1>1, <1>2, <1>3, <1>4

-----------------------------------------------------------------------------
LEMMA StudentStepKeeps == ASSUME EnrollmentsInv, UNCHANGED moved, StudentStep PROVE EnrollmentsInv'
<1>1. PICK t \in Tasks :
        \/ \E e \in Enrollments, method \in {"free", "approval"} : join(t, e, method)
        \/ \E e \in Enrollments, c \in Codes : RedeemChecks(t, e, c)
        \/ \E e \in Enrollments : issueTicket(t, e)
        \/ joinFree(t) \/ joinWithApproval(t) \/ redeemCode(t) \/ RedeemRefused(t) \/ mintTicket(t)
  BY DEF StudentStep
<1>2. ASSUME NEW e \in Enrollments, NEW method \in {"free", "approval"}, join(t, e, method)
      PROVE  EnrollmentsInv'
  <2>1. [op |-> method, on |-> e] \in TaskRows /\ Begin(t, [op |-> method, on |-> e])
    BY <1>2 DEF join, TaskRows
  <2>2. UNCHANGED vars /\ UNCHANGED redemptions
    BY <1>2 DEF join, vars, accessVars
  <2> QED
    BY <2>1, <2>2, ReadKeeps
<1>3. ASSUME NEW e \in Enrollments, NEW c \in Codes, RedeemChecks(t, e, c) PROVE EnrollmentsInv'
  <2>1. /\ [op |-> "redeem", on |-> e, card |-> c] \in TaskRows
        /\ Begin(t, [op |-> "redeem", on |-> e, card |-> c])
    BY <1>3 DEF RedeemChecks, TaskRows
  <2>2. UNCHANGED vars /\ UNCHANGED redemptions
    BY <1>3 DEF RedeemChecks, vars, accessVars
  <2> QED
    BY <2>1, <2>2, ReadKeeps
<1>4. ASSUME NEW e \in Enrollments, issueTicket(t, e) PROVE EnrollmentsInv'
  <2>1. [op |-> "play", on |-> e] \in TaskRows /\ Begin(t, [op |-> "play", on |-> e])
    BY <1>4 DEF issueTicket, TaskRows
  <2> QED
    BY <1>4, <2>1, ReadKeeps DEF issueTicket
<1>5. CASE RedeemRefused(t)
  <2>1. Inv' /\ HookOwned'
    BY <1>5, NextKeepsInv, NextKeepsHookOwned DEF EnrollmentsInv, RedeemRefused
  <2>2. Narrows
    BY <1>5 DEF RedeemRefused, Narrows, vars
  <2> QED
    BY <1>5, <2>1, <2>2, NarrowsKeeps, EndTypes DEF EnrollmentsInv, RedeemRefused
<1>6. CASE mintTicket(t)
  <2>1. ticket' \in [Enrollments -> BOOLEAN] /\ now' \in Nat
    BY <1>6 DEF mintTicket, EnrollmentsInv, Inv, TypeOK, AccessTypeOK
  <2> QED
    BY <1>6, <2>1, OutsideKeeps, EndTypes DEF mintTicket, EnrollmentsInv
<1> QED
  BY <1>1, <1>2, <1>3, <1>4, <1>5, <1>6, joinFreeKeeps, StateStepsKeep, redeemCodeKeeps

LEMMA AdminStepKeeps == ASSUME EnrollmentsInv, UNCHANGED moved, AdminStep PROVE EnrollmentsInv'
<1>1. ASSUME NEW e \in Enrollments, TicketEnds(e) PROVE EnrollmentsInv'
  <2>1. ticket' \in [Enrollments -> BOOLEAN] /\ now' \in Nat
    BY <1>1 DEF TicketEnds, EnrollmentsInv, Inv, TypeOK, AccessTypeOK
  <2> QED
    BY <1>1, <2>1, OutsideKeeps DEF TicketEnds, EnrollmentsInv
<1>2. ASSUME NEW t \in Tasks, NEW e \in Enrollments, RejectReads(t, e) PROVE EnrollmentsInv'
  <2>1. [op |-> "reject", on |-> e] \in TaskRows /\ Begin(t, [op |-> "reject", on |-> e])
    BY <1>2 DEF RejectReads, TaskRows
  <2> QED
    BY <1>2, <2>1, ReadKeeps DEF RejectReads
<1>3. ASSUME NEW t \in Tasks, NEW e \in Enrollments, NEW days \in ExtendDays, ExtendReads(t, e, days)
      PROVE  EnrollmentsInv'
  <2> DEFINE base == IF enrollment[e].ends # Forever /\ enrollment[e].ends > now
                     THEN enrollment[e].ends ELSE now
             row == [op |-> "extend", on |-> e, ends |-> base + days]
  <2>1. Begin(t, row) /\ UNCHANGED <<vars, code, redemptions>>
    BY <1>3, Zenon DEF ExtendReads
  <2>2. base \in Nat /\ days \in Nat
    BY EnrollmentsAssumption DEF EnrollmentsInv, Inv, TypeOK, AccessTypeOK, EnrollmentRows
  <2> HIDE DEF base
  <2>3. row \in TaskRows
    BY <2>2 DEF TaskRows
  <2> HIDE DEF row
  <2> QED
    BY <2>1, <2>3, ReadKeeps
<1> QED
  BY <1>1, <1>2, <1>3, grantByAdminKeeps, revokeFromCourseKeeps, StateStepsKeep, extendKeeps, expireKeeps
  DEF AdminStep

LEMMA EnrollmentsNextKeeps ==
  ASSUME EnrollmentsInv, [EnrollmentsNext]_allVars
  PROVE  EnrollmentsInv'
<1>a. SUFFICES ASSUME ~TransferStep PROVE EnrollmentsInv'
  BY TransferStepKeeps
<1>b. /\ UNCHANGED moved
      /\ PaymentStep \/ DayPasses \/ CardStep \/ StudentStep \/ AdminStep \/ UNCHANGED allVars
  BY <1>a DEF EnrollmentsNext, allVars
<1>1. CASE PaymentStep
  <2>1. Inv' /\ HookOwned' /\ UNCHANGED <<redemptions, task>>
    BY <1>1, NextKeepsInv, NextKeepsHookOwned DEF PaymentStep, EnrollmentsInv
  <2>2. Narrows
    BY <1>1, <1>b, PaymentNarrows DEF PaymentStep, EnrollmentsInv
  <2> QED
    BY <1>b, <2>1, <2>2, NarrowsKeeps DEF EnrollmentsInv
<1>2. CASE DayPasses
  <2>1. NoPaymentStep /\ UNCHANGED <<enrollment, entitlement, ticket, studentCount, redemptions, task>>
        /\ now' \in Nat /\ ticket' \in [Enrollments -> BOOLEAN]
    BY <1>2 DEF DayPasses, Tick, NoPaymentStep, EnrollmentsInv, Inv, TypeOK, AccessTypeOK
  <2> QED
    BY <1>b, <2>1, OutsideKeeps DEF EnrollmentsInv
<1>3. CASE CardStep \/ UNCHANGED allVars
  <2>1. UNCHANGED <<vars, redemptions, task>>
    BY <1>3 DEF CardStep, allVars, generateBatch, IssueBatch, revoke, revokeBatch
  <2>2. Inv' /\ HookOwned'
    BY <2>1, NextKeepsInv, NextKeepsHookOwned DEF EnrollmentsInv
  <2>3. Narrows
    BY <1>b, <2>1 DEF Narrows, vars
  <2> QED
    BY <1>b, <2>1, <2>2, <2>3, NarrowsKeeps DEF EnrollmentsInv
<1> QED
  BY <1>b, <1>1, <1>2, <1>3, StudentStepKeeps, AdminStepKeeps

LEMMA EnrollmentsInvHolds == EnrollmentsSpec => []EnrollmentsInv
<1>1. EnrollmentsInit => EnrollmentsInv
  <2> SUFFICES ASSUME EnrollmentsInit PROVE EnrollmentsInv
    OBVIOUS
  <2>1. Inv /\ HookOwned
    BY InitInv DEF EnrollmentsInit, Init, HookOwned
  <2>2. [op |-> "idle"] \in TaskRows
    BY DEF TaskRows
  <2>3. task \in [Tasks -> TaskRows]
    BY <2>2 DEF EnrollmentsInit
  <2>4. \A e \in Enrollments : Covered(e)
    BY DEF EnrollmentsInit, Init, AccessInit, NoEnrollment, Covered, CardSections
  <2>5. moved \in [Enrollments -> SUBSET Parts]
    BY DEF EnrollmentsInit
  <2> QED
    BY <2>1, <2>3, <2>4, <2>5 DEF EnrollmentsInv
<1>2. EnrollmentsInv /\ [EnrollmentsNext]_allVars => EnrollmentsInv'
  BY EnrollmentsNextKeeps
<1> QED
  BY <1>1, <1>2, PTL DEF EnrollmentsSpec

\* Only a redemption and the codes service write the cards.
LEMMA CardsElsewhere ==
  ASSUME [EnrollmentsNext]_allVars, ~UNCHANGED <<code, redemptions>>
  PROVE  CardStep \/ \E t \in Tasks : redeemCode(t)
<1>1. ~PaymentStep /\ ~DayPasses /\ ~UNCHANGED allVars
  BY DEF PaymentStep, DayPasses, allVars
<1>2. ~AdminStep
  BY DEF AdminStep, grantByAdmin, revokeFromCourse, TicketEnds, RejectReads, ExtendReads, rejectRequest,
         extend, expireLapsedEnrollments
<1>3. ~TransferStep
  BY DEF TransferStep, BeginTransfer, TransferChecks, TransferConflicts, transfer, MovePlace
<1>4. ASSUME StudentStep PROVE \E t \in Tasks : redeemCode(t)
  BY <1>4 DEF StudentStep, join, RedeemChecks, issueTicket, joinFree, joinWithApproval, RedeemRefused,
              mintTicket
<1> QED
  BY <1>1, <1>2, <1>3, <1>4 DEF EnrollmentsNext

\* Only redeemCode redeems, and one card for one student at a time.
LEMMA OnlyRedeemRedeems ==
  ASSUME [EnrollmentsNext]_allVars, redemptions' # redemptions
  PROVE  \E t \in Tasks : redeemCode(t)
BY CardsElsewhere DEF CardStep, generateBatch, IssueBatch, revoke, revokeBatch

-----------------------------------------------------------------------------
\* The students who have redeemed a card.
Redeemers(c) == {u \in Students : <<c, u>> \in redemptions}

\* The counter of a card is the number of its redemptions, and within what it was printed for.
CardCounted(c) ==
  /\ Cardinality(Redeemers(c)) = code[c].count /\ code[c].count <= code[c].max
  /\ code[c].status = "UNISSUED" => Redeemers(c) = {}

CardsInv == CodesTypeOK /\ \A c \in Codes : CardCounted(c)

LEMMA RedeemersFinite ==
  ASSUME NEW c
  PROVE  IsFiniteSet(Redeemers(c)) /\ IsFiniteSet(Redeemers(c)')
BY AccessAssumption, FS_Subset DEF Redeemers

\* A card whose row keeps its counter and bound, and is not put back on the press.
LEMMA CardStands ==
  ASSUME NEW c, CardCounted(c), UNCHANGED redemptions,
         code'[c].count = code[c].count, code'[c].max = code[c].max,
         code'[c].status = "UNISSUED" => code[c].status = "UNISSUED"
  PROVE  CardCounted(c)'
BY DEF CardCounted, Redeemers

LEMMA PrintKeepsCards ==
  ASSUME CardsInv, NEW b \in Batches, NEW uses \in Nat, NEW who \in Reserved,
         generateBatch(b, uses, who, FALSE)
  PROVE  CardsInv'
<1> DEFINE terms == [UnissuedRow EXCEPT !.status = "ACTIVE", !.max = uses,
                                        !.reserved = who, !.expires = FALSE]
<1>1. /\ \A c \in b : code[c].status = "UNISSUED"
      /\ code' = [c \in Codes |-> IF c \in b THEN terms ELSE code[c]]
      /\ UNCHANGED redemptions
  BY Zenon DEF generateBatch, IssueBatch
<1>2. terms \in CodeRows /\ terms.count = 0 /\ terms.max = uses /\ terms.status = "ACTIVE"
  <2>1. who \in Students \cup {NoOne}
    BY EnrollmentsAssumption
  <2> QED
    BY <2>1 DEF UnissuedRow, CodeRows, CodeStatuses, CodeKinds
<1> HIDE DEF terms
<1>3. CodesTypeOK'
  BY <1>1, <1>2 DEF CardsInv, CodesTypeOK
<1>4. ASSUME NEW c \in Codes PROVE CardCounted(c)'
  <2>1. CASE c \in b
    <3>1. Redeemers(c)' = {} /\ Cardinality({}) = 0
      BY <1>1, <2>1, FS_EmptySet DEF CardsInv, CardCounted, Redeemers
    <3>2. code'[c] = terms
      BY <1>1, <2>1
    <3> QED
      BY <1>2, <3>1, <3>2 DEF CardCounted
  <2>2. CASE c \notin b
    BY <1>1, <2>2, CardStands DEF CardsInv
  <2> QED
    BY <2>1, <2>2
<1> QED
  BY <1>3, <1>4 DEF CardsInv

LEMMA WithdrawKeepsCards ==
  ASSUME CardsInv, UNCHANGED redemptions,
         NEW S \in SUBSET Codes,
         code' = [c \in Codes |-> IF c \in S THEN [code[c] EXCEPT !.status = "REVOKED"] ELSE code[c]]
  PROVE  CardsInv'
<1>1. ASSUME NEW c \in Codes
      PROVE  /\ [code[c] EXCEPT !.status = "REVOKED"] \in CodeRows
             /\ [code[c] EXCEPT !.status = "REVOKED"].count = code[c].count
             /\ [code[c] EXCEPT !.status = "REVOKED"].max = code[c].max
             /\ [code[c] EXCEPT !.status = "REVOKED"].status = "REVOKED"
  BY DEF CardsInv, CodesTypeOK, CodeRows, CodeStatuses
<1>2. CodesTypeOK'
  BY <1>1 DEF CardsInv, CodesTypeOK
<1>3. ASSUME NEW c \in Codes PROVE CardCounted(c)'
  <2>1. CardCounted(c)
    BY DEF CardsInv
  <2>2. CASE c \in S
    BY <1>1, <2>1, <2>2, CardStands
  <2>3. CASE c \notin S
    BY <2>1, <2>3, CardStands
  <2> QED
    BY <2>2, <2>3
<1> QED
  BY <1>2, <1>3 DEF CardsInv

LEMMA CardStepKeepsCards ==
  ASSUME CardsInv, CardStep
  PROVE  CardsInv'
<1>1. ASSUME NEW b \in Batches, NEW uses \in 1..Cardinality(Students), NEW who \in Reserved,
             generateBatch(b, uses, who, FALSE)
      PROVE  CardsInv'
  <2>1. uses \in Nat
    OBVIOUS
  <2> QED
    BY <1>1, <2>1, PrintKeepsCards
<1>2. ASSUME NEW c \in Codes, revoke(c) PROVE CardsInv'
  <2>1. code' = [d \in Codes |-> IF d \in {c} THEN [code[d] EXCEPT !.status = "REVOKED"] ELSE code[d]]
    BY <1>2 DEF revoke, CardsInv, CodesTypeOK
  <2>2. UNCHANGED redemptions /\ {c} \in SUBSET Codes
    BY <1>2 DEF revoke
  <2> QED
    BY <2>1, <2>2, WithdrawKeepsCards
<1>3. ASSUME NEW b \in Batches, revokeBatch(b) PROVE CardsInv'
  <2> DEFINE S == {c \in Codes : c \in b /\ code[c].status = "ACTIVE"}
  <2>1. code' = [c \in Codes |-> IF c \in S THEN [code[c] EXCEPT !.status = "REVOKED"] ELSE code[c]]
    BY <1>3 DEF revokeBatch
  <2>2. UNCHANGED redemptions /\ S \in SUBSET Codes
    BY <1>3 DEF revokeBatch
  <2> HIDE DEF S
  <2> QED
    BY <2>1, <2>2, WithdrawKeepsCards
<1> QED
  BY <1>1, <1>2, <1>3 DEF CardStep

\* The closure of a redemption looks at the counter and at the pair it is about to write.
LEMMA RedeemKeepsCards ==
  ASSUME CardsInv, NEW c \in Codes, NEW u \in Students, CodeHonoured(c, u, "ACCESS"), UseCode(c, u)
  PROVE  CardsInv'
<1> DEFINE next == code[c].count + 1
           status == IF next >= code[c].max THEN "EXHAUSTED" ELSE code[c].status
           row == [code[c] EXCEPT !.count = next, !.status = status]
<1>1. /\ redemptions' = redemptions \cup {<<c, u>>} /\ <<c, u>> \notin redemptions
      /\ code' = [code EXCEPT ![c] = row]
  BY DEF UseCode, CodeHonoured, CardsInv, CodesTypeOK
<1>2. /\ code[c] \in CodeRows /\ code \in [Codes -> CodeRows] /\ code[c].count < code[c].max
      /\ code[c].status # "UNISSUED" /\ redemptions \subseteq Codes \X Students
  BY DEF CodeHonoured, CardsInv, CodesTypeOK
<1>3. next \in Nat /\ next <= code[c].max /\ status \in CodeStatuses /\ status # "UNISSUED"
  BY <1>2 DEF CodeRows, CodeStatuses
<1> HIDE DEF next, status
<1>4. row \in CodeRows /\ row.count = next /\ row.max = code[c].max /\ row.status = status
  BY <1>2, <1>3 DEF CodeRows
<1> HIDE DEF row
<1>5. CodesTypeOK'
  BY <1>1, <1>2, <1>4 DEF CodesTypeOK
<1>6. CardCounted(c)'
  <2>1. Redeemers(c)' = Redeemers(c) \cup {u} /\ u \notin Redeemers(c)
    BY <1>1 DEF Redeemers
  <2>2. Cardinality(Redeemers(c)') = Cardinality(Redeemers(c)) + 1
    BY <2>1, RedeemersFinite, FS_AddElement
  <2>3. code'[c] = row /\ Cardinality(Redeemers(c)) = code[c].count
    BY <1>1, <1>2 DEF CardsInv, CardCounted
  <2> QED
    BY <1>3, <1>4, <2>2, <2>3 DEF CardCounted, next
<1>7. ASSUME NEW d \in Codes, d # c PROVE CardCounted(d)'
  <2>1. Redeemers(d)' = Redeemers(d) /\ code'[d] = code[d] /\ CardCounted(d)
    BY <1>1, <1>2, <1>7 DEF Redeemers, CardsInv
  <2> QED
    BY <2>1 DEF CardCounted
<1> QED
  BY <1>5, <1>6, <1>7 DEF CardsInv

LEMMA EnrollmentsNextKeepsCards ==
  ASSUME EnrollmentsInv, CardsInv, [EnrollmentsNext]_allVars
  PROVE  CardsInv'
<1>1. CASE UNCHANGED <<code, redemptions>>
  <2>1. \A c \in Codes : CardCounted(c)'
    BY <1>1, CardStands DEF CardsInv
  <2>2. CodesTypeOK'
    BY <1>1 DEF CardsInv, CodesTypeOK
  <2> QED
    BY <2>1, <2>2 DEF CardsInv
<1>2. ASSUME NEW t \in Tasks, redeemCode(t) PROVE CardsInv'
  <2>1. task[t].op = "redeem" /\ task[t].on \in Enrollments /\ task[t].card \in Codes
    BY <1>2, TaskShape DEF redeemCode
  <2>2. CodeHonoured(task[t].card, task[t].on[1], "ACCESS") /\ UseCode(task[t].card, task[t].on[1])
    BY <1>2 DEF redeemCode
  <2>3. task[t].on[1] \in Students
    BY <2>1 DEF Enrollments
  <2> QED
    BY <2>1, <2>2, <2>3, RedeemKeepsCards
<1> QED
  BY <1>1, <1>2, CardStepKeepsCards, CardsElsewhere

\* Whatever joins, redemptions, transfers, captures, refunds, rejections, extensions, removals
\* and expiries overlap, every section grant and every part a student holds is on a card they
\* redeemed for that course or in a part of it they were transferred into, and no card opened a
\* course to more students than it was printed for (redeemCode, grantPartFromCode, transfer).
THEOREM GrantsAreRedeemed == EnrollmentsSpec => []HoldingsAreRedeemed
<1>1. EnrollmentsInit => CardsInv
  <2> SUFFICES ASSUME EnrollmentsInit PROVE CardsInv
    OBVIOUS
  <2>1. code = [c \in Codes |-> UnissuedRow] /\ redemptions = {}
    BY DEF EnrollmentsInit, CodesInit
  <2>2. UnissuedRow \in CodeRows /\ UnissuedRow.count = 0 /\ UnissuedRow.max = 1
    BY DEF UnissuedRow, CodeRows, CodeStatuses, CodeKinds
  <2>3. \A c \in Codes : Redeemers(c) = {} /\ Cardinality({}) = 0
    BY <2>1, FS_EmptySet DEF Redeemers
  <2> QED
    BY <2>1, <2>2, <2>3 DEF CardsInv, CardCounted, CodesTypeOK
<1>2. EnrollmentsInv /\ CardsInv /\ [EnrollmentsNext]_allVars => CardsInv'
  BY EnrollmentsNextKeepsCards
<1>3. EnrollmentsInv /\ CardsInv => HoldingsAreRedeemed
  <2> SUFFICES ASSUME EnrollmentsInv, CardsInv PROVE HoldingsAreRedeemed
    OBVIOUS
  <2>1. ASSUME NEW c \in Codes PROVE Cardinality({u \in Students : <<c, u>> \in redemptions}) <= code[c].max
    BY DEF CardsInv, CardCounted, Redeemers
  <2> QED
    BY <2>1 DEF HoldingsAreRedeemed, CardsKeepTheirUses, EnrollmentsInv
<1> QED
  BY <1>1, <1>2, <1>3, EnrollmentsInvHolds, PTL DEF EnrollmentsSpec

\* The refund bounds and keys of Payments survive every other way into and out of a course:
\* rows written by joins, cards and administrators never let a payment return more than it took.
THEOREM EnrollmentsKeepPayments ==
  EnrollmentsSpec => [](TypeOK /\ RefundedNeverExceedsPaid /\ RefundKeyUsedOnce /\ RequestResolvedOnce)
<1>1. EnrollmentsInv => TypeOK /\ RefundedNeverExceedsPaid /\ RefundKeyUsedOnce /\ RequestResolvedOnce
  BY DEF EnrollmentsInv, Inv
<1> QED
  BY <1>1, EnrollmentsInvHolds, PTL

\* Access that is live and whole is exactly what a section card leaves whole.
LEMMA OpenIsLive ==
  ASSUME AccessTypeOK, NEW e \in Enrollments
  PROVE  WholeCourseOpen(e) <=>
           enrollment[e].state = "ACTIVE" /\ ~Lapsed(enrollment[e]) /\ enrollment[e].covers
<1>1. enrollment[e].state \in EnrollmentStates
  BY DEF AccessTypeOK, EnrollmentRows
<1>2. CASE enrollment[e].state = "NONE"
  BY <1>2 DEF WholeCourseOpen, HoldsWholeCourse
<1>3. CASE enrollment[e].state = "REVOKED"
  <2>1. decide(e) = "REVOKED"
    BY <1>3 DEF decide
  <2> QED
    BY <1>3, <2>1 DEF WholeCourseOpen, CanAccessContent
<1>4. CASE enrollment[e].state \notin {"NONE", "REVOKED"} /\ Lapsed(enrollment[e])
  <2>1. decide(e) = "EXPIRED"
    BY <1>4 DEF decide
  <2> QED
    BY <1>4, <2>1 DEF WholeCourseOpen, CanAccessContent
<1>5. CASE enrollment[e].state \notin {"NONE", "REVOKED"} /\ ~Lapsed(enrollment[e])
  <2>1. decide(e) = enrollment[e].state
    BY <1>5 DEF decide
  <2> QED
    BY <1>5, <2>1 DEF WholeCourseOpen, CanAccessContent, HoldsWholeCourse
<1> QED
  BY <1>2, <1>3, <1>4, <1>5

LEMMA SectionCardStep ==
  ASSUME EnrollmentsInv, EnrollmentsInv', [EnrollmentsNext]_allVars,
         NEW c \in Codes, NEW e \in Enrollments, <<c, e[1]>> \in redemptions' \ redemptions,
         Cards[c].scope # {}, ~WholeCourseOpen(e)
  PROVE  ~WholeCourseOpen(e)'
<1>1. PICK t \in Tasks : redeemCode(t)
  BY OnlyRedeemRedeems
<1>2. PICK f \in Enrollments, d \in Codes : f = task[t].on /\ d = task[t].card
  BY <1>1, TaskShape DEF redeemCode
<1> DEFINE all == {<<f[1], k>> : k \in Cards[d].courses}
           terms == Cards[d].terms
           scope == Cards[d].scope
<1>3. /\ redemptions' = redemptions \cup {<<d, f[1]>>} /\ grantAccess(all, terms, scope)
      /\ NoPaymentStep /\ UNCHANGED <<ticket, now>>
  BY <1>1, <1>2 DEF redeemCode, UseCode
<1>4. d = c
  BY <1>3
<1>5. /\ terms \in [Courses -> Terms] /\ scope \in SUBSET Sections /\ all \in SUBSET Enrollments
      /\ scope # {}
  <2>1. Cards[d] \in CardRecords
    BY EnrollmentsAssumption
  <2> QED
    BY <1>4, <2>1 DEF CardRecords, Enrollments
<1>6. AccessTypeOK /\ AccessTypeOK'
  BY DEF EnrollmentsInv, Inv, TypeOK
<1> HIDE DEF all, terms, scope
<1>7. /\ e \in all => enrollment'[e].covers = WholeAfter(e, scope)
      /\ e \notin all => enrollment'[e] = enrollment[e]
  <2>1. entitlement' \in [Enrollments -> SUBSET Parts] /\ UNCHANGED <<ticket, payment, now>>
    BY <1>3, <1>6 DEF AccessTypeOK, NoPaymentStep
  <2> QED
    BY <1>3, <1>5, <1>6, <2>1, GrantEffect
<1>8. CASE e \in all
  <2>1. ~WholeAfter(e, scope)
    BY <1>5, <1>6, OpenIsLive DEF WholeAfter
  <2>2. ~enrollment'[e].covers
    BY <1>7, <1>8, <2>1
  <2> QED
    BY <2>2 DEF WholeCourseOpen, HoldsWholeCourse
<1>9. CASE e \notin all
  <2>1. enrollment'[e] = enrollment[e] /\ now' = now
    BY <1>3, <1>7, <1>9
  <2> QED
    BY <2>1 DEF WholeCourseOpen, HoldsWholeCourse, CanAccessContent, decide, Lapsed
<1> QED
  BY <1>8, <1>9

\* A card for sections never opens a whole course, on any row it lands on, pending, lapsed or
\* revoked, of the course it was redeemed for or of another (grantAccess).
THEOREM SectionCardsStaySections == EnrollmentsSpec => SectionCardNeverOpensCourse
<1>1. EnrollmentsInv /\ EnrollmentsInv' /\ [EnrollmentsNext]_allVars =>
        [\A c \in Codes, e \in Enrollments :
           (/\ <<c, e[1]>> \in redemptions' \ redemptions
            /\ Cards[c].scope # {}
            /\ ~WholeCourseOpen(e)) => ~WholeCourseOpen(e)']_allVars
  BY SectionCardStep
<1> QED
  BY <1>1, EnrollmentsInvHolds, PTL DEF EnrollmentsSpec, SectionCardNeverOpensCourse

\* The books are kept across every other way into and out of a course as well: none of them
\* moves money, and what they cancel was not captured.
LEMMA EnrollmentsNextKeepsBooks ==
  ASSUME ~Online, EnrollmentsInv, Booked, [EnrollmentsNext]_allVars
  PROVE  Booked'
<1>1. ASSUME UNCHANGED <<payment, revenue, hook>> PROVE Booked'
  BY <1>1, DormantKeepsBooks DEF Dormant
<1>2. CASE PaymentStep
  BY <1>2, NextKeepsBooks DEF PaymentStep, EnrollmentsInv
<1>3. CASE DayPasses \/ CardStep \/ UNCHANGED allVars
  <2>1. CASE DayPasses
    BY <1>1, <2>1 DEF DayPasses, Tick
  <2>2. CASE CardStep \/ UNCHANGED allVars
    <3>1. UNCHANGED vars
      BY <2>2 DEF CardStep, allVars
    <3> QED
      BY <1>1, <3>1 DEF vars
  <2> QED
    BY <1>3, <2>1, <2>2
<1>4. CASE StudentStep
  <2> SUFFICES ASSUME NEW t \in Tasks,
                      \/ \E e \in Enrollments, method \in {"free", "approval"} : join(t, e, method)
                      \/ \E e \in Enrollments, c \in Codes : RedeemChecks(t, e, c)
                      \/ \E e \in Enrollments : issueTicket(t, e)
                      \/ joinFree(t) \/ joinWithApproval(t) \/ redeemCode(t) \/ RedeemRefused(t)
                      \/ mintTicket(t)
               PROVE  Booked'
    BY <1>4 DEF StudentStep
  <2>1. CASE \E e \in Enrollments, method \in {"free", "approval"} : join(t, e, method)
    BY <1>1, <2>1 DEF join, accessVars
  <2>2. CASE \E e \in Enrollments, c \in Codes : RedeemChecks(t, e, c)
    BY <1>1, <2>2 DEF RedeemChecks, accessVars
  <2>3. CASE \E e \in Enrollments : issueTicket(t, e)
    BY <1>1, <2>3 DEF issueTicket, vars
  <2>4. CASE joinFree(t) \/ joinWithApproval(t) \/ redeemCode(t) \/ mintTicket(t)
    BY <1>1, <2>4 DEF joinFree, joinWithApproval, redeemCode, mintTicket, NoPaymentStep
  <2>5. CASE RedeemRefused(t)
    BY <1>1, <2>5 DEF RedeemRefused, vars
  <2> QED
    BY <2>1, <2>2, <2>3, <2>4, <2>5
<1>5. CASE AdminStep
  <2>1. ASSUME NEW e \in Enrollments, revokeFromCourse(e) PROVE Booked'
    <3>1. /\ revokeEnrollmentInTx(e, payment) /\ payment \in [PaymentIds -> PaymentRows] /\ AccessTypeOK
          /\ UNCHANGED <<now, revenue, hook>>
      BY <2>1, InvRows DEF revokeFromCourse, EnrollmentsInv, Inv, TypeOK
    <3>2. \A q \in PaymentIds :
            \/ payment'[q] = payment[q]
            \/ /\ payment[q].status = "PENDING" /\ payment'[q].status = "CANCELLED"
               /\ payment'[q].refunded = payment[q].refunded
      BY <3>1, RevokeDormant
    <3>3. \A q \in PaymentIds : Dormant(payment[q], payment'[q])
      BY <3>2 DEF Dormant, Booked, BookedRow
    <3> QED
      BY <3>1, <3>3, DormantKeepsBooks
  <2>2. CASE \E e \in Enrollments, days \in {0} \cup ExtendDays : grantByAdmin(e, days)
    BY <1>1, <2>2 DEF grantByAdmin, NoPaymentStep
  <2>3. CASE \E e \in Enrollments : revokeFromCourse(e) \/ TicketEnds(e)
    BY <1>1, <2>1, <2>3 DEF TicketEnds, NoPaymentStep
  <2>4. CASE \E t \in Tasks, e \in Enrollments : RejectReads(t, e)
    BY <1>1, <2>4 DEF RejectReads, vars
  <2>5. CASE \E t \in Tasks, e \in Enrollments, days \in ExtendDays : ExtendReads(t, e, days)
    BY <1>1, <2>5 DEF ExtendReads, vars
  <2>6. CASE \E t \in Tasks : rejectRequest(t) \/ extend(t)
    BY <1>1, <2>6 DEF rejectRequest, extend, NoPaymentStep
  <2>7. CASE expireLapsedEnrollments
    BY <1>1, <2>7 DEF expireLapsedEnrollments, NoPaymentStep
  <2> QED
    BY <1>5, <2>2, <2>3, <2>4, <2>5, <2>6, <2>7 DEF AdminStep
<1>6. CASE TransferStep
  <2> SUFFICES ASSUME NEW t \in Tasks,
                      \/ \E from, to \in Enrollments, part \in Parts \cup {NoPart} : BeginTransfer(t, from, to, part)
                      \/ TransferChecks(t) \/ TransferConflicts(t) \/ transfer(t)
               PROVE  Booked'
    BY <1>6 DEF TransferStep
  <2>1. CASE \E from, to \in Enrollments, part \in Parts \cup {NoPart} : BeginTransfer(t, from, to, part)
    BY <1>1, <2>1 DEF BeginTransfer, vars
  <2>2. CASE TransferChecks(t) \/ TransferConflicts(t)
    BY <1>1, <2>2 DEF TransferChecks, TransferConflicts, vars
  <2>3. CASE transfer(t)
    <3>1. PICK e \in Enrollments : e = task[t].on
      BY <2>3, MoveShape DEF transfer
    <3>2. /\ payment' = CheckoutsClosed(e, payment)
          /\ UNCHANGED <<refunds, revenue, recorded, request, hook, processed>>
      BY <2>3, <3>1 DEF transfer, MovePlace
    <3>3. Inv /\ HookOwned /\ AccessTypeOK'
      BY EnrollmentsNextKeeps DEF EnrollmentsInv, Inv, TypeOK
    <3>4. \A q \in PaymentIds :
            \/ payment'[q] = payment[q]
            \/ /\ payment[q].status = "PENDING" /\ payment'[q].status = "CANCELLED"
               /\ payment'[q].refunded = payment[q].refunded
      BY <3>2, <3>3, ClosedKeeps
    <3>5. \A q \in PaymentIds : Dormant(payment[q], payment'[q])
      BY <3>4 DEF Dormant, Booked, BookedRow
    <3> QED
      BY <3>2, <3>5, DormantKeepsBooks
  <2> QED
    BY <2>1, <2>2, <2>3
<1> QED
  BY <1>2, <1>3, <1>4, <1>5, <1>6 DEF EnrollmentsNext

\* Whatever cards, approvals, removals and expiries do to the same enrollments in between, the
\* revenue of every payment is what was kept of it (capture, refund, revokeEnrollmentInTx).
THEOREM EnrollmentsKeepBooks == ASSUME ~Online PROVE EnrollmentsSpec => []RevenueMatchesMoney
<1>1. EnrollmentsInit => Booked
  BY InitBooked DEF EnrollmentsInit
<1>2. EnrollmentsInv /\ Booked /\ [EnrollmentsNext]_allVars => Booked'
  BY EnrollmentsNextKeepsBooks
<1>3. Booked => RevenueMatchesMoney
  BY BooksMatch
<1> QED
  BY <1>1, <1>2, <1>3, EnrollmentsInvHolds, PTL DEF EnrollmentsSpec
=============================================================================
