--------------------------- MODULE MCEnrollments ---------------------------
(***************************************************************************)
(* Finite instances of Enrollments.  Each behaviour is one of three,       *)
(* chosen in the initial state: one student at one course, in every way    *)
(* there is (seat); two students with two cards of one or two uses (race); *)
(* one student moved between two courses by two administrators, with a     *)
(* card for a part, a checkout and an administrator's grant (move).        *)
(***************************************************************************)
EXTENDS Enrollments

CONSTANTS s1, s2, k1, k2, c1, c2, r1, t1, t2, key1, x, y, part1

VARIABLE scene   \* what this behaviour is about

TwoStudents == {s1, s2}
TwoCourses == {k1, k2}
TwoSections == {x, y}
OnePart == {part1}
TwoCards == {c1, c2}
TwoBatches == {{c1}, {c2}}
OneRequest == {r1}
TwoTasks == {t1, t2}
OneKey == {key1}
None == {}
Unreserved == {NoOne}
OnePrice == {1}
OneShare == {5000}
OneDay == {1}

Lifetime == [type |-> "LIFETIME", days |-> 0, until |-> 0]
OneDayOnly == [type |-> "FIXED_DAYS", days |-> 1, until |-> 0]
DayTwo == [type |-> "UNTIL_DATE", days |-> 0, until |-> 2]
CourseLifetime == [k \in TwoCourses |-> Lifetime]
CourseUntil == [k \in TwoCourses |-> DayTwo]
BothSections == [p \in OnePart |-> TwoSections]

\* A one-day card for a section, and a lifetime card for a part of two sections.
SectionAndPart ==
  [c \in TwoCards |->
     IF c = c1
     THEN [courses |-> {k1}, scope |-> {x}, part |-> NoPart,
           terms |-> [k \in TwoCourses |-> OneDayOnly]]
     ELSE [courses |-> {k1}, scope |-> {x, y}, part |-> part1,
           terms |-> CourseLifetime]]

-----------------------------------------------------------------------------
Seat == <<s1, k1>>
Places == {<<s1, k1>>, <<s1, k2>>}
Asking == {<<s1, k1>>, <<s2, k1>>}

MCInit == EnrollmentsInit /\ scene \in {"seat", "race", "move"}

\* One student, one course, one request in flight beside the payments'.
SeatNext ==
  /\ \/ PaymentStep \/ DayPasses
     \/ /\ \E c \in Codes : generateBatch({c}, 1, NoOne, FALSE) \/ revoke(c)
        /\ UNCHANGED <<vars, task>>
     \/ \E method \in {"free", "approval"} : join(t1, Seat, method)
     \/ \E c \in Codes : RedeemChecks(t1, Seat, c)
     \/ joinFree(t1) \/ joinWithApproval(t1) \/ redeemCode(t1) \/ RedeemRefused(t1)
     \/ \E days \in {0} \cup ExtendDays : grantByAdmin(Seat, days)
     \/ revokeFromCourse(Seat) \/ RejectReads(t1, Seat) \/ rejectRequest(t1)
     \/ \E days \in ExtendDays : ExtendReads(t1, Seat, days)
     \/ extend(t1) \/ expireLapsedEnrollments
  /\ UNCHANGED moved
  /\ \A r \in Requests, e \in Enrollments \ {Seat} : request'[r] # [op |-> "checkout", on |-> e, price |-> 1]

\* Two students, two requests in flight: cards, removals and the players' tickets.
RaceNext ==
  /\ \/ CardStep
     \/ \E t \in Tasks :
          \/ \E e \in Asking : issueTicket(t, e) \/ \E c \in Codes : RedeemChecks(t, e, c)
          \/ redeemCode(t) \/ RedeemRefused(t) \/ mintTicket(t)
     \/ \E e \in Asking : revokeFromCourse(e) \/ TicketEnds(e)
  /\ UNCHANGED moved

MoveNext ==
  \/ /\ \/ generateBatch({c2}, 1, NoOne, FALSE) /\ UNCHANGED <<vars, task>>
        \/ \E t \in Tasks : RedeemChecks(t, Seat, c2) \/ redeemCode(t) \/ RedeemRefused(t)
        \/ \E e \in Places : grantByAdmin(e, 0) \/ revokeFromCourse(e)
        \/ expireLapsedEnrollments \/ DayPasses
        \/ /\ JoinChecks(r1, Seat, 1) \/ joinWithPayment(r1)
           /\ UNCHANGED <<code, redemptions, task>>
     /\ UNCHANGED moved
  \/ TransferStep

MCNext ==
  /\ \/ scene = "seat" /\ SeatNext
     \/ scene = "race" /\ RaceNext
     \/ scene = "move" /\ MoveNext
  /\ UNCHANGED scene

MCSpec == MCInit /\ [][MCNext]_<<allVars, scene>>
=============================================================================
