------------------------------ MODULE Payments ------------------------------
(***************************************************************************)
(* Course payments: checkout, capture, provider webhooks, refunds and the  *)
(* revenue ledger (src/modules/payments and the payment path of            *)
(* EnrollmentsService.join).                                               *)
(*                                                                         *)
(* Every withSerializableRetry closure is one action.  What runs outside   *)
(* one (the access check before a checkout, the status check of fail, the  *)
(* three steps of a webhook) is a step of its own and may be stale when it *)
(* is used.  Online is the PAYMENT_PROVIDER switch: the deployed           *)
(* configuration accepts only 'none', so webhooks exist when it is TRUE.   *)
(***************************************************************************)
EXTENDS Access, SequencesExt

CONSTANTS
  Requests,       \* join requests in flight at once
  Hooks,          \* webhook deliveries in flight at once
  Prices,         \* the prices a course may have, piastres
  Shares,         \* the teacher's shares, basis points
  RefundKeys,     \* idempotency keys of the refund dialog
  MaxRows,        \* bound on the refund rows and the recaptures of a payment
  Online          \* a payment provider is configured

ASSUME PaymentsAssumption ==
  /\ Prices \subseteq Nat \ {0}
  /\ \A s \in Shares : IsBasisPoints(s)
  /\ MaxRows \in Nat
  /\ Online \in BOOLEAN

VARIABLES
  refunds,    \* refunds[p]: payment_transactions of the three refund types
  revenue,    \* revenue[p]: revenue_ledger lines
  recorded,   \* idempotency_records of refunds, as <<payment, key>>
  request,    \* request[r]: what an in-flight join has read
  hook,       \* hook[h]: where a webhook delivery is
  processed   \* idempotency_records of webhooks

paymentVars == <<refunds, revenue, recorded>>
vars == <<enrollment, entitlement, ticket, payment, studentCount, now,
          refunds, revenue, recorded, request, hook, processed>>

NoRequestKey == "none"
\* A refund row: a direct refund or a pending request carries the dialog's key;
\* a row that resolves a request names its position and carries no key.
RefundRows ==
  [type : {"refund", "refund_request", "refund_failed"}, amount : Nat,
   key : RefundKeys \cup {NoRequestKey}, request : Nat]
RevenueLines == [gross : Int, teacher : Int, platform : Int, share : Nat]
Events == [payment : PaymentIds, success : BOOLEAN]

\* Every table and every request slot holds well-formed rows.
TypeOK ==
  /\ AccessTypeOK
  /\ refunds \in [PaymentIds -> Seq(RefundRows)]
  /\ revenue \in [PaymentIds -> Seq(RevenueLines)]
  /\ recorded \subseteq PaymentIds \X RefundKeys
  /\ request \in [Requests -> [op : {"idle"}]
                    \cup [op : {"checkout"}, on : Enrollments, price : Prices]]
  /\ hook \in [Hooks -> [at : {"idle"}]
                 \cup [at : {"apply", "fail", "mark"}, event : Events]]
  /\ processed \subseteq Events

Init ==
  /\ AccessInit
  /\ refunds = [p \in PaymentIds |-> <<>>]
  /\ revenue = [p \in PaymentIds |-> <<>>]
  /\ recorded = {}
  /\ request = [r \in Requests |-> [op |-> "idle"]]
  /\ hook = [h \in Hooks |-> [at |-> "idle"]]
  /\ processed = {}

-----------------------------------------------------------------------------
\* Checkout.

\* createPendingPayment: the newest checkout of the last hour is handed back;
\* otherwise the next row of the table is inserted.
createPendingPayment(e, price) ==
  IF \E p \in PaymentIds : payment[p].owner = e /\ payment[p].status = "PENDING"
                           /\ payment[p].fresh
  THEN UNCHANGED payment
  ELSE \E p \in PaymentIds :
         /\ payment[p].status = "NONE"
         /\ \A q \in 1..(p - 1) : payment[q].status # "NONE"
         /\ payment' = [payment EXCEPT ![p] =
              [owner |-> e, status |-> "PENDING", amount |-> price,
               refunded |-> 0, fresh |-> TRUE]]

\* join with method PAYMENT: the access check and the price, read first.
JoinChecks(r, e, price) ==
  /\ request[r].op = "idle"
  /\ decide(e) # "ACTIVE"
  /\ request' = [request EXCEPT ![r] = [op |-> "checkout", on |-> e, price |-> price]]
  /\ UNCHANGED <<enrollment, entitlement, ticket, payment, studentCount, now,
                 refunds, revenue, recorded, hook, processed>>

\* joinWithPayment: the upsert and the checkout, on the stale answer.
joinWithPayment(r) ==
  LET e == request[r].on
  IN  /\ request[r].op = "checkout"
      /\ enrollment' = [enrollment EXCEPT ![e].state = "PENDING_PAYMENT"]
      /\ createPendingPayment(e, request[r].price)
      /\ request' = [request EXCEPT ![r] = [op |-> "idle"]]
      /\ UNCHANGED <<entitlement, ticket, studentCount, now,
                     refunds, revenue, recorded, hook, processed>>

\* An hour passes since the checkout was created.
CheckoutAges(p) ==
  /\ payment[p].fresh
  /\ payment' = [payment EXCEPT ![p].fresh = FALSE]
  /\ UNCHANGED <<enrollment, entitlement, ticket, studentCount, now,
                 refunds, revenue, recorded, request, hook, processed>>

-----------------------------------------------------------------------------
\* Capture.

\* The teacher's part of a captured amount: rounded to the piastre in floating
\* point, so an exact half may fall either way.
TeacherShare(amount, share) ==
  {t \in 0..amount : /\ 2 * amount * share - FullBasisPoints <= 2 * FullBasisPoints * t
                     /\ 2 * FullBasisPoints * t <= 2 * amount * share + FullBasisPoints}

\* Mutant: a payment that is PAID already is captured again.
Capturable_Again(p) == payment[p].status \in {"PENDING", "FAILED", "PAID"}

\* capture() returns early on PAID and throws on a cancelled or refunded one.
Capturable(p) == payment[p].status \in {"PENDING", "FAILED"}

\* capture: the status, the enrollment, the revenue line and the recount.
capture(p) ==
  LET e == payment[p].owner
      amount == payment[p].amount
  IN  /\ Capturable(p)
      /\ Len(revenue[p]) <= MaxRows
      /\ payment' = [payment EXCEPT ![p].status = "PAID"]
      /\ enrollment' = [enrollment EXCEPT ![e] =
           [@ EXCEPT !.state = "ACTIVE", !.covers = TRUE,
                     !.ends = computeAccessEnd(CourseTerms[e[2]])]]
      /\ \E share \in Shares, t \in 0..amount :
           /\ t \in TeacherShare(amount, share)
           /\ revenue' = [revenue EXCEPT ![p] = Append(@,
                [gross |-> amount, teacher |-> t, platform |-> amount - t, share |-> share])]
      /\ studentCount' = Recount({e[2]})
      /\ UNCHANGED <<entitlement, ticket, now, refunds, recorded>>

\* confirm: an administrator confirms cash or a bank transfer.
confirm(p) == capture(p) /\ UNCHANGED <<request, hook, processed>>

-----------------------------------------------------------------------------
\* Refunds.

\* resolutionOf / requestState: row i of p has been completed or failed.
Resolved(p, i) == \E j \in DOMAIN refunds[p] : refunds[p][j].request = i

\* pendingRequests, pendingRefundPiastres.
Pending(p) ==
  {i \in DOMAIN refunds[p] : refunds[p][i].type = "refund_request" /\ ~Resolved(p, i)}
pendingRefundPiastres(p) ==
  FoldSet(LAMBDA i, sum : sum + refunds[p][i].amount, 0, Pending(p))

\* balanceOf().refundablePiastres.
refundablePiastres(p) ==
  LET left == payment[p].amount - payment[p].refunded - pendingRefundPiastres(p)
  IN  IF left > 0 THEN left ELSE 0

\* assertRefundable.
Refundable(p) == payment[p].status \in {"PAID", "PARTIALLY_REFUNDED"}

\* Mutant: the key is only looked up in idempotency_records.
KeyUsed_RecordOnly(p, key) == <<p, key>> \in recorded

\* replay / rowForKey: the key is known from its record, or, once that has been
\* pruned, from the refund row itself.
KeyUsed(p, key) ==
  \/ <<p, key>> \in recorded
  \/ \E i \in DOMAIN refunds[p] : refunds[p][i].key = key

\* contraLine: the share of the first positive line, the exact remainder when
\* the refund empties the payment, clamped to the amount.
ContraTeacher(p, amount, full) ==
  LET lines == revenue[p]
      original == SelectSeq(lines, LAMBDA line : line.gross > 0)
      owed == CASE original = <<>> -> 0
                [] original # <<>> /\ full ->
                     FoldSeq(LAMBDA line, sum : sum + line.teacher, 0, lines)
                [] OTHER -> percentOf(amount, original[1].share)
  IN  IF owed < 0 THEN 0 ELSE IF owed > amount THEN amount ELSE owed

\* applySucceededRefund: refunded and status, the refund row, the contra line;
\* it throws, and everything rolls back, when the total would exceed the price.
applySucceededRefund(p, amount, key, of) ==
  LET total == payment[p].refunded + amount
      full == total = payment[p].amount
  IN  /\ amount > 0 /\ total <= payment[p].amount
      /\ refunds' = [refunds EXCEPT ![p] = Append(@,
           [type |-> "refund", amount |-> amount, key |-> key, request |-> of])]
      /\ \E t \in 0..amount :
           /\ t = ContraTeacher(p, amount, full)
           /\ revenue' = [revenue EXCEPT ![p] = Append(@,
                [gross |-> -amount, teacher |-> -t, platform |-> -(amount - t), share |-> 0])]

\* Mutant: the payment counts as refunded as soon as nothing is left to ask for.
RefundedRow_NothingLeft(p, amount) ==
  [payment EXCEPT ![p].refunded = @ + amount,
                  ![p].status = IF amount >= refundablePiastres(p)
                                THEN "REFUNDED" ELSE "PARTIALLY_REFUNDED"]

\* The payments table after applySucceededRefund.
RefundedRow(p, amount) ==
  LET total == payment[p].refunded + amount
  IN  [payment EXCEPT ![p] =
         [@ EXCEPT !.refunded = total,
                   !.status = IF total = payment[p].amount
                              THEN "REFUNDED" ELSE "PARTIALLY_REFUNDED"]]

\* Mutant: a pending refund leaves the student's access alone.
revokeAccess_OnlyPaidOut(p, table) ==
  IF table = payment
  THEN payment' = table /\ UNCHANGED <<enrollment, entitlement, ticket, studentCount>>
  ELSE revokeEnrollmentInTx(payment[p].owner, table)

\* revokeAccess: every refund, paid out or only promised, ends the enrollment.
revokeAccess(p, table) == revokeEnrollmentInTx(payment[p].owner, table)

\* refund: asked = 0 is a FULL refund, of whatever is left.
refund(p, asked, immediate, key) ==
  /\ ~KeyUsed(p, key)
  /\ Refundable(p)
  /\ Len(refunds[p]) < MaxRows
  /\ \E amount \in 1..payment[p].amount :
       /\ amount = (IF asked = 0 THEN refundablePiastres(p) ELSE asked)
       /\ amount <= refundablePiastres(p)
       /\ IF immediate
          THEN /\ applySucceededRefund(p, amount, key, 0)
               /\ revokeAccess(p, RefundedRow(p, amount))
          ELSE /\ refunds' = [refunds EXCEPT ![p] = Append(@,
                    [type |-> "refund_request", amount |-> amount,
                     key |-> key, request |-> 0])]
               /\ UNCHANGED revenue
               /\ revokeAccess(p, payment)
  /\ recorded' = recorded \cup {<<p, key>>}
  /\ UNCHANGED <<now, request, hook, processed>>

\* requireRequest, and requestState = PENDING.
RequestOpen(p, i) ==
  /\ i \in DOMAIN refunds[p] /\ refunds[p][i].type = "refund_request"
  /\ ~Resolved(p, i)

\* completeRequest: the money of a pending request has been returned.
completeRequest(p, i) ==
  /\ RequestOpen(p, i)
  /\ Refundable(p)
  /\ Len(refunds[p]) < MaxRows
  /\ applySucceededRefund(p, refunds[p][i].amount, NoRequestKey, i)
  /\ payment' = RefundedRow(p, refunds[p][i].amount)
  /\ UNCHANGED <<enrollment, entitlement, ticket, studentCount, now,
                 recorded, request, hook, processed>>

\* failRequest: the reservation is released, access stays revoked.
failRequest(p, i) ==
  /\ RequestOpen(p, i)
  /\ Len(refunds[p]) < MaxRows
  /\ refunds' = [refunds EXCEPT ![p] = Append(@,
       [type |-> "refund_failed", amount |-> 0, key |-> NoRequestKey, request |-> i])]
  /\ UNCHANGED <<enrollment, entitlement, ticket, payment, studentCount, now,
                 revenue, recorded, request, hook, processed>>

\* pruneIdempotency: the records past their expiry go, 30 days after a refund
\* and 7 days after a webhook.
pruneIdempotency ==
  \E old \in SUBSET recorded, oldEvents \in SUBSET processed :
    /\ old # {} \/ oldEvents # {}
    /\ recorded' = recorded \ old
    /\ processed' = processed \ oldEvents
    /\ UNCHANGED <<enrollment, entitlement, ticket, payment, studentCount, now,
                   refunds, revenue, request, hook>>

-----------------------------------------------------------------------------
\* Webhooks (only when a provider is configured).

\* handlePaymob / handleStripe: the signature holds, alreadyProcessed says no.
WebhookArrives(h, event) ==
  /\ Online /\ hook[h].at = "idle"
  /\ payment[event.payment].status # "NONE"
  /\ event \notin processed
  /\ hook' = [hook EXCEPT ![h] = [at |-> "apply", event |-> event]]
  /\ UNCHANGED <<enrollment, entitlement, ticket, payment, studentCount, now,
                 refunds, revenue, recorded, request, processed>>

HookAt(h, at) == hook' = [hook EXCEPT ![h].at = at]

\* A success event: capture, or nothing when it returns early or throws (the
\* handler swallows the error).
WebhookCaptures(h) ==
  LET p == hook[h].event.payment
  IN  /\ hook[h].at = "apply" /\ hook[h].event.success
      /\ \/ capture(p)
         \/ ~Capturable(p) /\ UNCHANGED <<accessVars, paymentVars>>
      /\ HookAt(h, "mark")
      /\ UNCHANGED <<request, processed>>

\* A failure event: fail() reads the status and leaves a captured payment alone.
FailReads(h) ==
  LET p == hook[h].event.payment
  IN  /\ hook[h].at = "apply" /\ ~hook[h].event.success
      /\ HookAt(h, IF payment[p].status \in {"PAID", "PARTIALLY_REFUNDED", "REFUNDED"}
                   THEN "mark" ELSE "fail")
      /\ UNCHANGED <<accessVars, paymentVars, request, processed>>

\* fail(): the write, whatever the status is by now.
FailWrites(h) ==
  /\ hook[h].at = "fail"
  /\ payment' = [payment EXCEPT ![hook[h].event.payment].status = "FAILED"]
  /\ HookAt(h, "mark")
  /\ UNCHANGED <<enrollment, entitlement, ticket, studentCount, now,
                 paymentVars, request, processed>>

\* markProcessed, whatever the handler did; a delivery that is retried before
\* this point runs again.
markProcessed(h) ==
  /\ hook[h].at = "mark"
  /\ processed' = processed \cup {hook[h].event}
  /\ hook' = [hook EXCEPT ![h] = [at |-> "idle"]]
  /\ UNCHANGED <<accessVars, paymentVars, request>>

-----------------------------------------------------------------------------
CheckoutStep ==
  \/ \E r \in Requests, e \in Enrollments, price \in Prices : JoinChecks(r, e, price)
  \/ \E r \in Requests : joinWithPayment(r)
  \/ \E p \in PaymentIds : CheckoutAges(p) \/ confirm(p)

RefundStep ==
  \/ \E p \in PaymentIds, immediate \in BOOLEAN, key \in RefundKeys :
       \E asked \in 0..payment[p].amount : refund(p, asked, immediate, key)
  \/ \E p \in PaymentIds, i \in 1..MaxRows : completeRequest(p, i) \/ failRequest(p, i)
  \/ pruneIdempotency

WebhookStep ==
  \E h \in Hooks :
    \/ \E event \in Events : WebhookArrives(h, event)
    \/ WebhookCaptures(h) \/ FailReads(h) \/ FailWrites(h) \/ markProcessed(h)

Next == CheckoutStep \/ RefundStep \/ WebhookStep

Spec == Init /\ [][Next]_vars

-----------------------------------------------------------------------------
Captured(p) == payment[p].status \in {"PAID", "PARTIALLY_REFUNDED", "REFUNDED"}
GrossOf(lines) == SumFunction([i \in DOMAIN lines |-> lines[i].gross])

\* The bound alone, with the status that goes with it: what applySucceededRefund
\* guarantees on its own, whatever the reservations say.
RefundedNeverExceedsPaid ==
  \A p \in PaymentIds :
    /\ payment[p].refunded <= payment[p].amount
    /\ payment[p].status = "REFUNDED" => payment[p].refunded = payment[p].amount

\* "Revenue is written once, at capture", and each completed refund takes exactly
\* its amount out: a captured payment nets to what was kept, one that was not
\* captured has no revenue, and every line splits into its two parts.
RevenueMatchesMoney ==
  \A p \in PaymentIds :
    /\ GrossOf(revenue[p]) =
         IF Captured(p) THEN payment[p].amount - payment[p].refunded ELSE 0
    /\ \A i \in DOMAIN revenue[p] :
         revenue[p][i].gross = revenue[p][i].teacher + revenue[p][i].platform

\* "A retry still finds it after the 30-day entry has been purged": one key of
\* the refund dialog produces at most one refund of the payment.
RefundKeyUsedOnce ==
  \A p \in PaymentIds : \A i, j \in 1..Len(refunds[p]) :
    (refunds[p][i].key = refunds[p][j].key /\ refunds[p][i].key # NoRequestKey) => i = j

\* A pending request is completed or failed once, never both, and only an
\* earlier row of the payment is resolved.
RequestResolvedOnce ==
  \A p \in PaymentIds : \A i, j \in 1..Len(refunds[p]) :
    /\ refunds[p][i].request < i
    /\ (refunds[p][i].request = refunds[p][j].request /\ refunds[p][i].request > 0) => i = j

\* "EVERY refund request revokes the student's enrollment": while payments are
\* the only way in, a student who can open the course has a payment that is paid
\* and on which no refund was ever asked.
AccessIsPaidFor ==
  \A e \in Enrollments :
    enrollment[e].state = "ACTIVE" =>
      \E p \in PaymentIds : /\ payment[p].owner = e /\ payment[p].status = "PAID"
                            /\ refunds[p] = <<>>

\* "Leaving one open would let a late confirmation silently undo the revocation":
\* a revoked enrollment comes back only through a new checkout.
RevocationHolds ==
  [][\A e \in Enrollments :
       enrollment[e].state = "REVOKED" => enrollment'[e].state # "ACTIVE"]_vars
=============================================================================
