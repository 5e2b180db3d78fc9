---------------------------- MODULE CourseAdmin ----------------------------
(***************************************************************************)
(* The life of a course (src/modules/courses/courses.admin.service.ts):    *)
(* drafting, staffing, pricing, publishing, archiving, restoring and       *)
(* deleting it, raced by the students who ask to join.                     *)
(*                                                                         *)
(* A handler reads the course and writes it in a second step; what it has  *)
(* read is in call[p].  Roles are checked before anything else, and every  *)
(* caller here has passed them.                                            *)
(***************************************************************************)
EXTENDS Handlers, Naturals, Sequences, FiniteSets

CONSTANTS
  Students, Teachers,
  MaxArchives    \* bound on the archive records that wait for a restore

ASSUME CourseAssumption == MaxArchives \in Nat

VARIABLES
  course,    \* the courses row
  staff,     \* staff[t]: the course_teachers row
  enr,       \* enr[u]: the enrollments row
  tickets,   \* the students who hold an active ticket for the course
  cards,     \* the status of the cards printed for the course
  records    \* the archive records not yet restored, oldest first

courseVars == <<course, staff, enr, tickets, cards, records>>

\* letIn is history: staff approved the student, or extended their access.
Outsider == [state |-> "NONE", method |-> "NONE", approved |-> FALSE, ended |-> FALSE, letIn |-> FALSE]

CourseInit ==
  /\ course = [status |-> "NONE", deleted |-> FALSE, methods |-> TRUE]
  /\ staff = [t \in Teachers |-> "none"]
  /\ enr = [u \in Students |-> Outsider]
  /\ tickets = {} /\ cards = "NONE" /\ records = <<>>

Found == course.status # "NONE" /\ ~course.deleted
Assigned == {t \in Teachers : staff[t] # "none"}

-----------------------------------------------------------------------------
\* create: a draft with its teachers, one of them leading, (its first price: PartPrices).
createCourse(team, lead) ==
  /\ course.status = "NONE"
  /\ team # {} /\ lead \in team
  /\ course' = [course EXCEPT !.status = "DRAFT"]
  /\ staff' = [t \in Teachers |-> IF t = lead THEN "lead" ELSE IF t \in team THEN "member" ELSE "none"]
  /\ cards' = "ACTIVE"
  /\ UNCHANGED <<enr, tickets, records, call>>

\* update never touches the status; here it decides whether anyone can join.
BeginUpdateCourse(p) ==
  /\ call[p] = Idle /\ Found /\ course.status # "ARCHIVED"
  /\ Go(p, "update", "none", "none")
  /\ UNCHANGED <<course, staff, enr, tickets, cards, records>>

updateCourse(p) ==
  /\ At(p, "update")
  /\ \E m \in BOOLEAN : course' = [course EXCEPT !.methods = m]
  /\ End(p)
  /\ UNCHANGED <<staff, enr, tickets, cards, records>>

\* assignTeacher: a new lead replaces the others.
assignTeacher(t, lead) ==
  /\ course.status # "NONE"
  /\ staff' = [v \in Teachers |->
                 IF v = t /\ lead THEN "lead"
                 ELSE IF IF v = t THEN staff[v] = "none" ELSE lead /\ staff[v] = "lead" THEN "member"
                 ELSE staff[v]]
  /\ UNCHANGED <<course, enr, tickets, cards, records, call>>

\* removeTeacher counts, then deletes.
BeginRemoveTeacher(p, t) ==
  /\ call[p] = Idle /\ course.status # "NONE" /\ Cardinality(Assigned) > 1
  /\ Go(p, "removeTeacher", "none", t)
  /\ UNCHANGED <<course, staff, enr, tickets, cards, records>>

removeTeacher(p) ==
  /\ At(p, "removeTeacher")
  /\ staff' = [staff EXCEPT ![call[p].who] = "none"]
  /\ End(p)
  /\ UNCHANGED <<course, enr, tickets, cards, records>>

-----------------------------------------------------------------------------
\* publish: not an archived course, and only one with a teacher, a price and a way in.
BeginPublish(p) ==
  /\ call[p] = Idle /\ Found /\ course.status # "ARCHIVED"
  /\ Assigned # {} /\ course.methods
  /\ Go(p, "publish", "none", "none")
  /\ UNCHANGED <<course, staff, enr, tickets, cards, records>>

\* The status is written whatever it has become.
publish(p) ==
  /\ At(p, "publish")
  /\ course' = [course EXCEPT !.status = "PUBLISHED"]
  /\ End(p)
  /\ UNCHANGED <<staff, enr, tickets, cards, records>>

BeginUnpublish(p) ==
  /\ call[p] = Idle /\ Found /\ course.status # "ARCHIVED"
  /\ Go(p, "unpublish", "none", "none")
  /\ UNCHANGED <<course, staff, enr, tickets, cards, records>>

unpublish(p) ==
  /\ At(p, "unpublish")
  /\ \E s \in {"DRAFT", "HIDDEN", "SUSPENDED"} : course' = [course EXCEPT !.status = s]
  /\ End(p)
  /\ UNCHANGED <<staff, enr, tickets, cards, records>>

\* Archiving and deleting put away everyone who is in or waiting.
PutAway ==
  [u \in Students |->
     IF enr[u].state \in {"ACTIVE", "PENDING_APPROVAL"} THEN [enr[u] EXCEPT !.state = "ARCHIVED"] ELSE enr[u]]

Waiting == {u \in Students : enr[u].state = "PENDING_APPROVAL"}

BeginArchive(p) ==
  /\ call[p] = Idle /\ Found /\ course.status # "ARCHIVED"
  /\ Go(p, "archive", "none", "none")
  /\ UNCHANGED <<course, staff, enr, tickets, cards, records>>

\* archive's transaction records who was still waiting for an approval.
archive(p) ==
  /\ At(p, "archive") /\ Len(records) < MaxArchives
  /\ course' = [course EXCEPT !.status = "ARCHIVED"]
  /\ records' = Append(records, Waiting)
  /\ enr' = PutAway
  /\ tickets' = {}
  /\ End(p)
  /\ UNCHANGED <<staff, cards>>

\* Mutant: only the record says who was waiting.
Unapproved_Recorded == IF records = <<>> THEN {} ELSE records[Len(records)]

\* pendingApprovalIdsFrom the latest record, and rows that were never approved.
Unapproved ==
  (IF records = <<>> THEN {} ELSE records[Len(records)])
    \cup {u \in Students : enr[u].method = "ADMIN_APPROVAL" /\ ~enr[u].approved}

\* restore finds deleted courses too.
BeginRestore(p) ==
  /\ call[p] = Idle /\ course.status = "ARCHIVED"
  /\ Go(p, "restore", "none", "none")
  /\ UNCHANGED <<course, staff, enr, tickets, cards, records>>

restore(p) ==
  /\ At(p, "restore")
  /\ course' = [course EXCEPT !.status = "DRAFT"]
  /\ enr' = [u \in Students |->
               IF enr[u].state # "ARCHIVED" THEN enr[u]
               ELSE [enr[u] EXCEPT !.state = IF u \in Unapproved THEN "PENDING_APPROVAL"
                                             ELSE IF enr[u].ended THEN "EXPIRED" ELSE "ACTIVE"]]
  /\ records' = <<>>
  /\ End(p)
  /\ UNCHANGED <<staff, tickets, cards>>

\* remove: not a published course, and nobody may be in it unless it is archived.
BeginRemoveCourse(p) ==
  /\ call[p] = Idle /\ Found /\ course.status # "PUBLISHED"
  /\ course.status = "ARCHIVED" \/ \A u \in Students : enr[u].state \notin {"ACTIVE", "PENDING_APPROVAL"}
  /\ Go(p, "remove", "none", "none")
  /\ UNCHANGED <<course, staff, enr, tickets, cards, records>>

removeCourse(p) ==
  /\ At(p, "remove")
  /\ course' = [course EXCEPT !.status = "ARCHIVED", !.deleted = TRUE]
  /\ enr' = PutAway
  /\ tickets' = {}
  /\ cards' = "REVOKED"
  /\ End(p)
  /\ UNCHANGED <<staff, records>>

-----------------------------------------------------------------------------
\* The students' side, as EnrollmentsService has it.

\* joinWithApproval: the course was published when it was read.
BeginJoin(p, u) ==
  /\ call[p] = Idle /\ Found /\ course.status = "PUBLISHED" /\ course.methods
  /\ enr[u].state # "PENDING_APPROVAL" /\ (enr[u].state = "ACTIVE" => enr[u].ended)
  /\ Go(p, "join", "none", u)
  /\ UNCHANGED <<course, staff, enr, tickets, cards, records>>

joinWithApproval(p) ==
  /\ At(p, "join")
  /\ enr' = [enr EXCEPT ![call[p].who].state = "PENDING_APPROVAL", ![call[p].who].method = "ADMIN_APPROVAL"]
  /\ End(p)
  /\ UNCHANGED <<course, staff, tickets, cards, records>>

\* grantByAdmin stamps the approval; extend lets a student in without the stamp.
LetIn(u, stamped) ==
  /\ enr[u].state # "NONE"
  /\ enr' = [enr EXCEPT ![u].state = "ACTIVE", ![u].ended = FALSE, ![u].letIn = TRUE,
                        ![u].approved = @ \/ stamped]
  /\ UNCHANGED <<course, staff, tickets, cards, records, call>>

\* rejectRequest and revoke.
TurnAway(u) ==
  /\ enr[u].state \in {"PENDING_APPROVAL", "ACTIVE"}
  /\ enr' = [enr EXCEPT ![u].state = "REVOKED"]
  /\ tickets' = tickets \ {u}
  /\ UNCHANGED <<course, staff, cards, records, call>>

\* The access window of a student ends.
WindowEnds(u) ==
  /\ enr[u].state \in {"ACTIVE", "ARCHIVED"} /\ ~enr[u].ended
  /\ enr' = [enr EXCEPT ![u].ended = TRUE]
  /\ UNCHANGED <<course, staff, tickets, cards, records, call>>

IssueTicket(u) ==
  /\ Found /\ course.status = "PUBLISHED" /\ enr[u].state = "ACTIVE" /\ ~enr[u].ended
  /\ tickets' = tickets \cup {u}
  /\ UNCHANGED <<course, staff, enr, cards, records, call>>

-----------------------------------------------------------------------------
StaffingStep ==
  \/ \E team \in SUBSET Teachers, lead \in Teachers : createCourse(team, lead)
  \/ \E t \in Teachers, b \in BOOLEAN : assignTeacher(t, b)
  \/ \E p \in Calls : (\E t \in Teachers : BeginRemoveTeacher(p, t)) \/ removeTeacher(p)

StatusBegins(p) ==
  \/ BeginUpdateCourse(p) \/ BeginPublish(p) \/ BeginUnpublish(p)
  \/ BeginArchive(p) \/ BeginRestore(p) \/ BeginRemoveCourse(p)

StatusWrites(p) ==
  updateCourse(p) \/ publish(p) \/ unpublish(p) \/ archive(p) \/ restore(p) \/ removeCourse(p)

StudentStep ==
  \/ \E p \in Calls : (\E u \in Students : BeginJoin(p, u)) \/ joinWithApproval(p)
  \/ \E u \in Students : (\E b \in BOOLEAN : LetIn(u, b)) \/ TurnAway(u) \/ WindowEnds(u) \/ IssueTicket(u)

StatusStep ==
  \/ \E t \in Teachers : createCourse({t}, t)
  \/ \E p \in Calls : StatusBegins(p) \/ StatusWrites(p)
  \/ StudentStep

CourseSpec == HandlersInit /\ CourseInit /\ [][StaffingStep \/ StatusStep]_<<call, courseVars>>

-----------------------------------------------------------------------------
\* "Restoring a course must never approve anyone": nobody is in the course whom no staff
\* member ever let in, however often the course was archived, half-published by a stale
\* write, deleted and restored while requests were waiting (archive, remove, restore).
NobodyApprovedByRestore == \A u \in Students : enr[u].state = "ACTIVE" => enr[u].letIn
=============================================================================
