------------------------------- MODULE Access -------------------------------
(***************************************************************************)
(* Who may open a course: the enrollments table with its section grants,   *)
(* part entitlements and playback tickets, the payments table (revoking an *)
(* enrollment cancels its checkouts), and the operators every component    *)
(* that grants or removes access goes through: CourseAccessService.decide, *)
(* EnrollmentsService.grantAccess and revokeEnrollmentInTx.                *)
(*                                                                         *)
(* An enrollment is identified by its unique key (userId, courseId).       *)
(* Deadlines are days on the clock now; Forever is accessEndsAt = null.    *)
(***************************************************************************)
EXTENDS Platform, Integers, FiniteSets, Sequences

CONSTANTS
  Courses,
  Sections,     \* the sections of a course
  Parts,        \* the course parts a card can sell
  CourseTerms,  \* CourseTerms[k]: how long access to course k lasts
  Forever,      \* accessEndsAt = null
  Nobody,       \* a payment row that does not exist yet has no owner
  MaxPayments,  \* bound on the payments table
  MaxTime       \* bound on the clock

Terms == [type : {"LIFETIME", "FIXED_DAYS", "UNTIL_DATE"}, days : Nat, until : Nat]
Enrollments == Students \X Courses
PaymentIds == 1..MaxPayments

ASSUME AccessAssumption ==
  /\ IsFiniteSet(Students)
  /\ CourseTerms \in [Courses -> Terms]
  /\ Forever \notin Nat
  /\ Nobody \notin Enrollments
  /\ MaxPayments \in Nat /\ MaxTime \in Nat

VARIABLES
  enrollment,    \* enrollment[e]: the enrollments row, with its section grants
  entitlement,   \* entitlement[e]: parts held live (revokedAt = null)
  ticket,        \* ticket[e]: some playback ticket of e is ACTIVE
  payment,       \* payment[p]: the payments row, ids in order of creation
  studentCount,  \* studentCount[k]: courses.studentCount, a cached count
  now

accessVars == <<enrollment, entitlement, ticket, payment, studentCount, now>>

EnrollmentStates ==
  {"NONE", "ACTIVE", "PENDING_PAYMENT", "PENDING_APPROVAL", "EXPIRED", "REVOKED"}
PaymentStatuses ==
  {"NONE", "PENDING", "PAID", "FAILED", "CANCELLED", "PARTIALLY_REFUNDED", "REFUNDED"}

EnrollmentRows ==
  [state : EnrollmentStates, covers : BOOLEAN, ends : Nat \cup {Forever},
   grants : SUBSET Sections]
PaymentRows ==
  [owner : Enrollments \cup {Nobody}, status : PaymentStatuses, amount : Nat,
   refunded : Nat, fresh : BOOLEAN]

\* No row yet; an insert starts from the schema's defaults (coversAllSections TRUE).
NoEnrollment ==
  [state |-> "NONE", covers |-> TRUE, ends |-> Forever, grants |-> {}]
NoPayment ==
  [owner |-> Nobody, status |-> "NONE", amount |-> 0, refunded |-> 0, fresh |-> FALSE]

AccessTypeOK ==
  /\ enrollment \in [Enrollments -> EnrollmentRows]
  /\ entitlement \in [Enrollments -> SUBSET Parts]
  /\ ticket \in [Enrollments -> BOOLEAN]
  /\ payment \in [PaymentIds -> PaymentRows]
  /\ studentCount \in [Courses -> Nat]
  /\ now \in Nat

AccessInit ==
  /\ enrollment = [e \in Enrollments |-> NoEnrollment]
  /\ entitlement = [e \in Enrollments |-> {}]
  /\ ticket = [e \in Enrollments |-> FALSE]
  /\ payment = [p \in PaymentIds |-> NoPayment]
  /\ studentCount = [k \in Courses |-> 0]
  /\ now = 0

-----------------------------------------------------------------------------
Lapsed(row) == row.ends # Forever /\ row.ends <= now

\* decide: the state shown to the student, from the enrollment alone (a course
\* that is archived or suspended only ever takes access away).
decide(e) ==
  LET row == enrollment[e]
  IN  CASE row.state = "NONE" -> "NOT_ENROLLED"
        [] row.state = "REVOKED" -> "REVOKED"
        [] row.state \notin {"NONE", "REVOKED"} /\ Lapsed(row) -> "EXPIRED"
        [] OTHER -> row.state

\* decide().canAccessContent.
CanAccessContent(e) == decide(e) = "ACTIVE"

\* allowedSectionIds: every section, or the ones granted.  (Sections reached
\* through a live part entitlement are granted with it, see grantPartFromCode.)
HoldsWholeCourse(e) == enrollment[e].state # "NONE" /\ enrollment[e].covers

\* computeAccessEnd of the payments and of the enrollments service: the course's
\* terms unless the card or the administrator carries others.
computeAccessEnd(terms) ==
  CASE terms.type = "FIXED_DAYS" -> IF terms.days > 0 THEN now + terms.days ELSE Forever
    [] terms.type = "UNTIL_DATE" -> terms.until
    [] OTHER -> Forever

\* The recount every one of these transactions ends with, for the courses in ks.
Recount(ks) ==
  [k \in Courses |->
     IF k \in ks THEN Cardinality({u \in Students : enrollment'[<<u, k>>].state = "ACTIVE"})
                 ELSE studentCount[k]]

\* Mutant: the flag is inherited from any row, live or not.
WholeAfter_AnyRow(e, scope) == scope = {} \/ enrollment[e].covers

\* coversAllSections after a grant; scope = {} is the whole course.  A row that
\* is live and whole stays whole; a pending, lapsed or revoked one does not.
WholeAfter(e, scope) ==
  \/ scope = {}
  \/ enrollment[e].covers /\ enrollment[e].state = "ACTIVE" /\ ~Lapsed(enrollment[e])

\* What grantAccess writes on one row: access on the terms of its course or of the card.
GrantedRow(e, terms, scope) ==
  [state |-> "ACTIVE", ends |-> computeAccessEnd(terms[e[2]]),
   covers |-> WholeAfter(e, scope), grants |-> enrollment[e].grants \cup scope]

\* grantAccess, for the enrollments es of one transaction.
grantAccess(es, terms, scope) ==
  /\ enrollment' = [e \in Enrollments |->
       IF e \in es THEN GrantedRow(e, terms, scope) ELSE enrollment[e]]
  /\ studentCount' = Recount({e[2] : e \in es})

\* What revokeEnrollmentInTx leaves of a row.
WithdrawnRow(e) == [enrollment[e] EXCEPT !.state = "REVOKED", !.covers = FALSE, !.grants = {}]

\* The payments table base with the open checkouts of e cancelled.
CheckoutsClosed(e, base) ==
  [p \in PaymentIds |->
     IF base[p].owner = e /\ base[p].status = "PENDING"
     THEN [base[p] EXCEPT !.status = "CANCELLED"] ELSE base[p]]

\* Mutant: the checkouts of a revoked enrollment stay open.
revokeEnrollmentInTx_KeepsCheckouts(e, base) ==
  IF enrollment[e].state = "REVOKED"
  THEN payment' = base /\ UNCHANGED <<enrollment, entitlement, ticket, studentCount>>
  ELSE /\ enrollment' = [enrollment EXCEPT ![e] = WithdrawnRow(e)]
       /\ payment' = base
       /\ entitlement' = [entitlement EXCEPT ![e] = {}]
       /\ ticket' = [ticket EXCEPT ![e] = FALSE]
       /\ studentCount' = Recount({e[2]})

\* revokeEnrollmentInTx: state, flag, grants, open checkouts, parts, tickets and
\* the recount; nothing if the row is REVOKED already.  base is the payments
\* table as the surrounding transaction has left it (a refund writes it first).
revokeEnrollmentInTx(e, base) ==
  IF enrollment[e].state = "REVOKED"
  THEN payment' = base /\ UNCHANGED <<enrollment, entitlement, ticket, studentCount>>
  ELSE /\ enrollment' = [enrollment EXCEPT ![e] = WithdrawnRow(e)]
       /\ payment' = CheckoutsClosed(e, base)
       /\ entitlement' = [entitlement EXCEPT ![e] = {}]
       /\ ticket' = [ticket EXCEPT ![e] = FALSE]
       /\ studentCount' = Recount({e[2]})

\* A day passes.
Tick ==
  /\ now < MaxTime
  /\ now' = now + 1
  /\ UNCHANGED <<enrollment, entitlement, ticket, payment, studentCount>>
=============================================================================
