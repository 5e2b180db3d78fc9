---------------------------- MODULE Enrollments ----------------------------
(***************************************************************************)
(* Every way into and out of a course: free and approved joins, access     *)
(* cards, administrative grants, transfers from another course,            *)
(* rejections, extensions, removals, expiry, and the checkouts, captures   *)
(* and refunds of Payments (src/modules/enrollments/enrollments.service.ts).*)
(*                                                                         *)
(* What a request reads before its write is a step of its own: the access  *)
(* check of join and redeemCode, the row rejectRequest and extend work on, *)
(* the two courses of a transfer, the access check of a playback ticket.   *)
(* Of a transfer the student's academic profile is left to Transfers.      *)
(***************************************************************************)
EXTENDS Payments, Codes

CONSTANTS
  Tasks,        \* requests of this module in flight at once
  Cards,        \* Cards[c]: the target and terms access card c is printed with
  FreeCourses,  \* courses with isFree
  ExtendDays,   \* the days an administrator may extend or grant by
  Reserved,     \* for whom a print run may be reserved, NoOne included
  NoPart,       \* the card, or the transfer, names no course part
  PartSections  \* PartSections[p]: the sections of a part, frozen where it is granted

CardRecords ==
  [courses : SUBSET Courses,   \* grantedCourseIds, or the one course
   scope : SUBSET Sections,    \* {} for a whole-course or teacher card
   part : Parts \cup {NoPart},
   terms : [Courses -> Terms]]

ASSUME EnrollmentsAssumption ==
  /\ Cards \in [Codes -> CardRecords]
  /\ FreeCourses \subseteq Courses /\ Reserved \subseteq Students \cup {NoOne}
  /\ ExtendDays \subseteq Nat \ {0}
  /\ NoPart \notin Parts /\ PartSections \in [Parts -> SUBSET Sections \ {{}}]

VARIABLES
  task,    \* task[t]: what an in-flight request has read
  moved    \* history: moved[e], the parts the student was transferred into

allVars == <<vars, code, redemptions, task, moved>>
NoPaymentStep == UNCHANGED <<payment, refunds, revenue, recorded, request, hook, processed>>

EnrollmentsInit ==
  /\ Init /\ CodesInit
  /\ task = [t \in Tasks |-> [op |-> "idle"]]
  /\ moved = [e \in Enrollments |-> {}]

Begin(t, row) == task[t].op = "idle" /\ task' = [task EXCEPT ![t] = row]
End(t) == task' = [task EXCEPT ![t] = [op |-> "idle"]]

-----------------------------------------------------------------------------
\* Joining.

\* join: the access decision is read before the method's own write.  A request
\* that is under review already is answered at once.
join(t, e, method) ==
  /\ decide(e) # "ACTIVE"
  /\ method = "free" => e[2] \in FreeCourses
  /\ method = "approval" => decide(e) # "PENDING_APPROVAL"
  /\ Begin(t, [op |-> method, on |-> e])
  /\ UNCHANGED <<accessVars, refunds, revenue, recorded, request, hook, processed,
                 code, redemptions>>

\* joinFree.
joinFree(t) ==
  /\ task[t].op = "free"
  /\ grantAccess({task[t].on}, CourseTerms, {})
  /\ End(t)
  /\ NoPaymentStep
  /\ UNCHANGED <<entitlement, ticket, now, code, redemptions>>

\* joinWithApproval: a plain upsert of whatever row is there by now.
joinWithApproval(t) ==
  /\ task[t].op = "approval"
  /\ enrollment' = [enrollment EXCEPT ![task[t].on].state = "PENDING_APPROVAL"]
  /\ End(t)
  /\ NoPaymentStep
  /\ UNCHANGED <<entitlement, ticket, studentCount, now, code, redemptions>>

-----------------------------------------------------------------------------
\* Access cards.

\* redeemCode: refused for a student whose live access is the whole course.
RedeemChecks(t, e, c) ==
  /\ ~(decide(e) = "ACTIVE" /\ HoldsWholeCourse(e))
  /\ Begin(t, [op |-> "redeem", on |-> e, card |-> c])
  /\ UNCHANGED <<accessVars, refunds, revenue, recorded, request, hook, processed,
                 code, redemptions>>

\* Mutant: any card of a course with parts grants the parts.
grantPartFromCode_Any(e, c) ==
  entitlement' = [entitlement EXCEPT ![e] = @ \cup Parts]

\* grantPartFromCode: the part the card names is held from now on.
grantPartFromCode(e, c) ==
  entitlement' = [entitlement EXCEPT ![e] = @ \cup ({Cards[c].part} \ {NoPart})]

\* redeemCode's transaction: redeemInTransaction, grantAccess on the course
\* asked for with the card's scope and, for a teacher card, on the others.
redeemCode(t) ==
  LET e == task[t].on
      c == task[t].card
      all == {<<e[1], k>> : k \in Cards[c].courses}
  IN  /\ task[t].op = "redeem"
      /\ CodeHonoured(c, e[1], "ACCESS")
      /\ e \in all
      /\ UseCode(c, e[1])
      /\ grantAccess(all, Cards[c].terms, Cards[c].scope)
      /\ grantPartFromCode(e, c)
      /\ End(t)
      /\ NoPaymentStep
      /\ UNCHANGED <<ticket, now>>

\* The closure of a redemption throws: the card stays as it was.
RedeemRefused(t) ==
  /\ task[t].op = "redeem"
  /\ \/ ~CodeHonoured(task[t].card, task[t].on[1], "ACCESS")
     \/ task[t].on[2] \notin Cards[task[t].card].courses
  /\ End(t)
  /\ UNCHANGED <<vars, code, redemptions>>

-----------------------------------------------------------------------------
\* The administrator.

\* grantByAdmin: the course's terms, or a number of days.
grantByAdmin(e, days) ==
  /\ grantAccess({e}, IF days = 0 THEN CourseTerms
                      ELSE [k \in Courses |-> [type |-> "FIXED_DAYS", days |-> days, until |-> 0]],
                 {})
  /\ NoPaymentStep
  /\ UNCHANGED <<entitlement, ticket, now, code, redemptions, task>>

\* rejectRequest: the state is checked on one read and written by a second,
\* unconditional statement that sets nothing but the state.
RejectReads(t, e) ==
  /\ enrollment[e].state = "PENDING_APPROVAL"
  /\ Begin(t, [op |-> "reject", on |-> e])
  /\ UNCHANGED <<vars, code, redemptions>>

\* rejectRequest: the write.
rejectRequest(t) ==
  /\ task[t].op = "reject"
  /\ enrollment' = [enrollment EXCEPT ![task[t].on].state = "REVOKED"]
  /\ End(t)
  /\ NoPaymentStep
  /\ UNCHANGED <<entitlement, ticket, studentCount, now, code, redemptions>>

\* revoke: "Remove from course".
revokeFromCourse(e) ==
  /\ enrollment[e].state # "NONE"
  /\ revokeEnrollmentInTx(e, payment)
  /\ UNCHANGED <<now, refunds, revenue, recorded, request, hook, processed,
                 code, redemptions, task>>

\* extend: the new end is computed on one read, from the later of the old end
\* and now.
ExtendReads(t, e, days) ==
  LET row == enrollment[e]
      base == IF row.ends # Forever /\ row.ends > now THEN row.ends ELSE now
  IN  /\ row.state # "NONE"
      /\ base + days <= MaxTime + 1
      /\ Begin(t, [op |-> "extend", on |-> e, ends |-> base + days])
      /\ UNCHANGED <<vars, code, redemptions>>

\* extend: the write, which makes any row ACTIVE.
extend(t) ==
  /\ task[t].op = "extend"
  /\ enrollment' = [enrollment EXCEPT ![task[t].on].state = "ACTIVE",
                                      ![task[t].on].ends = task[t].ends]
  /\ End(t)
  /\ NoPaymentStep
  /\ UNCHANGED <<entitlement, ticket, studentCount, now, code, redemptions>>

\* expireLapsedEnrollments: the nightly sweep.
expireLapsedEnrollments ==
  LET lapsed == {e \in Enrollments : enrollment[e].state = "ACTIVE" /\ Lapsed(enrollment[e])}
  IN  /\ lapsed # {}
      /\ enrollment' = [e \in Enrollments |->
           IF e \in lapsed THEN [enrollment[e] EXCEPT !.state = "EXPIRED"] ELSE enrollment[e]]
      /\ NoPaymentStep
      /\ UNCHANGED <<entitlement, ticket, studentCount, now, code, redemptions, task>>

-----------------------------------------------------------------------------
\* Transfers from one course to another.

\* transfer reads the source.  For a REVOKED one it only answers that the student has been
\* transferred, or refuses; one that covers the whole course may go to the whole destination,
\* any other needs a part of it named.
BeginTransfer(t, from, to, part) ==
  /\ from[1] = to[1] /\ from # to
  /\ enrollment[from].state \notin {"NONE", "REVOKED"}
  /\ part = NoPart => enrollment[from].covers
  /\ Begin(t, [op |-> IF part = NoPart THEN "transfer" ELSE "moving", on |-> from, to |-> to, part |-> part])
  /\ UNCHANGED <<vars, code, redemptions>>

\* Into a part, it is refused for a student whose live destination is the whole course.
TransferChecks(t) ==
  /\ task[t].op = "moving"
  /\ task' = [task EXCEPT ![t] =
       IF CanAccessContent(task[t].to) /\ HoldsWholeCourse(task[t].to)
       THEN [op |-> "idle"] ELSE [task[t] EXCEPT !.op = "transfer"]]
  /\ UNCHANGED <<vars, code, redemptions>>

MovedPart(part) == {part} \ {NoPart}
MovedScope(part) == UNION {PartSections[p] : p \in MovedPart(part)}

\* Its transaction: a source that is still ACTIVE is exchanged for the destination, granted on
\* its own terms and for the part named, and then revoked.
MovePlace(from, to, part) ==
  /\ enrollment' = [enrollment EXCEPT ![to] = GrantedRow(to, CourseTerms, MovedScope(part)),
                                      ![from] = WithdrawnRow(from)]
  /\ payment' = CheckoutsClosed(from, payment)
  /\ entitlement' = [entitlement EXCEPT ![to] = @ \cup MovedPart(part), ![from] = {}]
  /\ ticket' = [ticket EXCEPT ![from] = FALSE]
  /\ studentCount' = Recount({from[2], to[2]})
  /\ moved' = [moved EXCEPT ![to] = @ \cup MovedPart(part)]
  /\ UNCHANGED <<now, refunds, revenue, recorded, request, hook, processed, code, redemptions>>

transfer(t) ==
  /\ task[t].op = "transfer"
  /\ enrollment[task[t].on].state = "ACTIVE"
  /\ MovePlace(task[t].on, task[t].to, task[t].part)
  /\ End(t)

\* The transaction finds the source no longer ACTIVE and rolls back.
TransferConflicts(t) ==
  /\ task[t].op = "transfer"
  /\ enrollment[task[t].on].state # "ACTIVE"
  /\ End(t)
  /\ UNCHANGED <<vars, code, redemptions>>

-----------------------------------------------------------------------------
\* Playback tickets, as far as a revocation reaches them.

\* issueTicket: the access check.
issueTicket(t, e) ==
  /\ CanAccessContent(e)
  /\ Begin(t, [op |-> "play", on |-> e])
  /\ UNCHANGED <<vars, code, redemptions>>

\* mintTicket: the insert.
mintTicket(t) ==
  /\ task[t].op = "play"
  /\ ticket' = [ticket EXCEPT ![task[t].on] = TRUE]
  /\ End(t)
  /\ NoPaymentStep
  /\ UNCHANGED <<enrollment, entitlement, studentCount, now, code, redemptions>>

\* expireLapsedTickets / release: the ticket ends.
TicketEnds(e) ==
  /\ ticket[e]
  /\ ticket' = [ticket EXCEPT ![e] = FALSE]
  /\ NoPaymentStep
  /\ UNCHANGED <<enrollment, entitlement, studentCount, now, code, redemptions, task>>

-----------------------------------------------------------------------------
PaymentStep == Next /\ UNCHANGED <<code, redemptions, task>>

DayPasses ==
  /\ Tick
  /\ UNCHANGED <<refunds, revenue, recorded, request, hook, processed, code, redemptions, task>>

CardStep ==
  /\ \/ \E b \in Batches, uses \in 1..Cardinality(Students), who \in Reserved :
          generateBatch(b, uses, who, FALSE)
     \/ \E c \in Codes : revoke(c)
     \/ \E b \in Batches : revokeBatch(b)
  /\ UNCHANGED <<vars, task>>

StudentStep ==
  \E t \in Tasks :
    \/ \E e \in Enrollments, method \in {"free", "approval"} : join(t, e, method)
    \/ \E e \in Enrollments, c \in Codes : RedeemChecks(t, e, c)
    \/ \E e \in Enrollments : issueTicket(t, e)
    \/ joinFree(t) \/ joinWithApproval(t) \/ redeemCode(t) \/ RedeemRefused(t) \/ mintTicket(t)

AdminStep ==
  \/ \E e \in Enrollments, days \in {0} \cup ExtendDays : grantByAdmin(e, days)
  \/ \E e \in Enrollments : revokeFromCourse(e) \/ TicketEnds(e)
  \/ \E t \in Tasks, e \in Enrollments : RejectReads(t, e)
  \/ \E t \in Tasks, e \in Enrollments, days \in ExtendDays : ExtendReads(t, e, days)
  \/ \E t \in Tasks : rejectRequest(t) \/ extend(t)
  \/ expireLapsedEnrollments

TransferStep ==
  \E t \in Tasks :
    \/ /\ \/ \E from, to \in Enrollments, part \in Parts \cup {NoPart} : BeginTransfer(t, from, to, part)
          \/ TransferChecks(t) \/ TransferConflicts(t)
       /\ UNCHANGED moved
    \/ transfer(t)

EnrollmentsNext ==
  \/ (PaymentStep \/ DayPasses \/ CardStep \/ StudentStep \/ AdminStep) /\ UNCHANGED moved
  \/ TransferStep

EnrollmentsSpec == EnrollmentsInit /\ [][EnrollmentsNext]_allVars

-----------------------------------------------------------------------------
WholeCourseOpen(e) == CanAccessContent(e) /\ HoldsWholeCourse(e)

\* grantAccess: no section card ever opens the whole course, whatever pending,
\* lapsed or revoked row it lands on; a step that redeems one leaves a course
\* that was not open as a whole not open as a whole.
SectionCardNeverOpensCourse ==
  [][\A c \in Codes, e \in Enrollments :
       (/\ <<c, e[1]>> \in redemptions' \ redemptions
        /\ Cards[c].scope # {}
        /\ ~WholeCourseOpen(e)) => ~WholeCourseOpen(e)']_allVars

\* No card opens a course to more students than it was printed for, two of whom may redeem its
\* last use at once (redeemInTransaction).
CardsKeepTheirUses ==
  \A c \in Codes : Cardinality({u \in Students : <<c, u>> \in redemptions}) <= code[c].max

\* The cards of a course that its student has redeemed, the sections on them, and the sections
\* of the parts of the course the student was transferred into.
Used(e) == {c \in Codes : <<c, e[1]>> \in redemptions /\ e[2] \in Cards[c].courses}
CardSections(e) == UNION {Cards[c].scope : c \in Used(e)}
MovedSections(e) == UNION {PartSections[p] : p \in moved[e]}

Covered(e) ==
  /\ enrollment[e].grants \subseteq CardSections(e) \cup MovedSections(e)
  /\ entitlement[e] \subseteq {Cards[c].part : c \in Used(e)} \cup moved[e]

\* Every section grant and every part a student holds is on a card they redeemed for that course
\* or in a part of it they were transferred into, on any interleaving of joins, redemptions,
\* transfers, refunds and removals, two students racing for the last use of a card included
\* (redeemCode, grantPartFromCode, transfer, revokeEnrollmentInTx).
HoldingsAreRedeemed == CardsKeepTheirUses /\ \A e \in Enrollments : Covered(e)
=============================================================================
