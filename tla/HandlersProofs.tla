--------------------------- MODULE HandlersProofs ---------------------------
(***************************************************************************)
(* Proofs about the components whose requests read in one step and write   *)
(* in a later one: uploads, support, accounts, transfers, the life of a    *)
(* course, announcements, the catalogue and notices, for any number of     *)
(* requests in flight; and about links to documents and the pages beside   *)
(* them.                                                                   *)
(***************************************************************************)
EXTENDS Uploads, Support, Accounts, Transfers, CourseAdmin, Announcements, Catalog, Pages, Notices,
        FiniteSetTheorems, WellFoundedInduction, TLAPS

\* The table of requests.
CallTable == call = [p \in Calls |-> call[p]]

\* A request that answers moves alone.
LEMMA EndMoves ==
  ASSUME CallTable, NEW p \in Calls, End(p)
  PROVE  /\ CallTable'
         /\ call'[p] = Idle
         /\ \A q \in Calls \ {p} : call'[q] = call[q]
BY DEF CallTable, End, Idle

\* The least of some numbers is one of them.
LEMMA LeastIsMember == ASSUME NEW S \in SUBSET Nat, S # {} PROVE Min(S) \in S /\ \A y \in S : Min(S) <= y
<1> DEFINE Less == {ss \in Nat \X Nat : ss[1] < ss[2]}
<1>1. IsWellFoundedOn(Less, Nat)
  BY NatLessThanWellFounded DEF OpToRel
<1>2. PICK x \in S : \A y \in S : <<y, x>> \notin Less
  <2> HIDE DEF Less
  <2> QED
    BY <1>1, WFMin
<1>3. ASSUME NEW y \in S PROVE x <= y
  <2>1. <<y, x>> \in Nat \X Nat /\ <<y, x>> \notin Less
    BY <1>2
  <2> QED
    BY <2>1
<1> QED
  BY <1>3 DEF Min

-----------------------------------------------------------------------------
\* The life of a course.

EnrollmentRows ==
  [state : {"NONE", "PENDING_APPROVAL", "ACTIVE", "ARCHIVED", "EXPIRED", "REVOKED"},
   method : {"NONE", "ADMIN_APPROVAL"}, approved : BOOLEAN, ended : BOOLEAN, letIn : BOOLEAN]

\* Nobody carries an approval who was not let in, and whoever is waiting, or was put away while
\* waiting, asked for an approval.
NeverLetIn(row) ==
  ~row.letIn => /\ row.state # "ACTIVE"
                /\ ~row.approved
                /\ row.state \in {"PENDING_APPROVAL", "ARCHIVED"} => row.method = "ADMIN_APPROVAL"

CourseInv ==
  /\ CallTable
  /\ \A p \in Calls : At(p, "join") => call[p].who \in Students
  /\ enr \in [Students -> EnrollmentRows]
  /\ \A u \in Students : NeverLetIn(enr[u])

LEMMA CourseInitHolds == HandlersInit /\ CourseInit => CourseInv
BY DEF HandlersInit, Idle, CourseInit, Outsider, CourseInv, CallTable, At, EnrollmentRows, NeverLetIn

\* Archiving and deleting keep rows whole.
LEMMA PutAwayKeeps ==
  ASSUME CourseInv, NEW u \in Students
  PROVE  PutAway[u] \in EnrollmentRows /\ NeverLetIn(PutAway[u])
BY DEF CourseInv, PutAway, EnrollmentRows, NeverLetIn

\* Steps that leave the enrollments alone, and hold a student when they begin to join.
LEMMA CourseFrame ==
  ASSUME CourseInv, UNCHANGED enr, CallTable',
         \A q \in Calls : call'[q] = call[q] \/ call'[q].op # "join" \/ call'[q].who \in Students
  PROVE  CourseInv'
BY DEF CourseInv, At

\* So do the steps that write one row.
LEMMA CourseRow ==
  ASSUME CourseInv, NEW u \in Students, NEW row \in EnrollmentRows, NeverLetIn(row),
         enr' = [enr EXCEPT ![u] = row], CallTable',
         \A q \in Calls : call'[q] = call[q] \/ call'[q].op # "join"
  PROVE  CourseInv'
<1>1. enr' \in [Students -> EnrollmentRows]
  BY DEF CourseInv
<1>2. \A v \in Students : NeverLetIn(enr'[v])
  BY DEF CourseInv
<1> QED
  BY <1>1, <1>2 DEF CourseInv, At, NeverLetIn

LEMMA CourseNextKeeps == CourseInv /\ [StaffingStep \/ StatusStep]_<<call, courseVars>> => CourseInv'
<1> SUFFICES ASSUME CourseInv, [StaffingStep \/ StatusStep]_<<call, courseVars>> PROVE CourseInv'
  OBVIOUS
<1>0. CallTable
  BY DEF CourseInv
<1>1. CASE \E p \in Calls : \/ \E t \in Teachers : BeginRemoveTeacher(p, t)
                            \/ removeTeacher(p) \/ updateCourse(p) \/ publish(p) \/ unpublish(p)
                            \/ StatusBegins(p)
  <2> PICK p \in Calls : \/ \E t \in Teachers : BeginRemoveTeacher(p, t)
                         \/ removeTeacher(p) \/ updateCourse(p) \/ publish(p) \/ unpublish(p)
                         \/ StatusBegins(p)
    BY <1>1
  <2>1. /\ UNCHANGED enr
        /\ \/ End(p)
           \/ \E op \in {"update", "removeTeacher", "publish", "unpublish", "archive", "restore", "remove"} :
                \E who : Go(p, op, "none", who)
    BY DEF BeginRemoveTeacher, removeTeacher, updateCourse, publish, unpublish, StatusBegins, BeginUpdateCourse,
           BeginPublish, BeginUnpublish, BeginArchive, BeginRestore, BeginRemoveCourse
  <2>2. CASE End(p)
    BY <1>0, <2>1, <2>2, EndMoves, CourseFrame DEF Idle
  <2>3. CASE ~End(p)
    <3> PICK op, who :
          /\ op \in {"update", "removeTeacher", "publish", "unpublish", "archive", "restore", "remove"}
          /\ Go(p, op, "none", who)
      BY <2>1, <2>3
    <3>1. CallTable' /\ \A q \in Calls : call'[q] = call[q] \/ call'[q].op # "join"
      BY <1>0 DEF CallTable, Go
    <3> QED
      BY <2>1, <3>1, CourseFrame
  <2> QED
    BY <2>2, <2>3
<1>2. CASE \/ \E team \in SUBSET Teachers, lead \in Teachers : createCourse(team, lead)
           \/ \E t \in Teachers, b \in BOOLEAN : assignTeacher(t, b)
           \/ \E t \in Teachers : createCourse({t}, t)
           \/ \E u \in Students : IssueTicket(u)
           \/ UNCHANGED <<call, courseVars>>
  <2>1. UNCHANGED <<enr, call>>
    BY <1>2 DEF createCourse, assignTeacher, IssueTicket, courseVars
  <2> QED
    BY <2>1, <1>0, CourseFrame DEF CallTable
<1>3. CASE \E p \in Calls : archive(p) \/ removeCourse(p)
  <2> PICK p \in Calls : archive(p) \/ removeCourse(p)
    BY <1>3
  <2>1. enr' = PutAway /\ End(p)
    BY DEF archive, removeCourse
  <2>2. enr' \in [Students -> EnrollmentRows] /\ \A u \in Students : NeverLetIn(enr'[u])
    BY <2>1, PutAwayKeeps DEF PutAway
  <2> QED
    BY <1>0, <2>1, <2>2, EndMoves DEF CourseInv, At, Idle, NeverLetIn
<1>4. CASE \E p \in Calls : restore(p)
  <2> PICK p \in Calls : restore(p)
    BY <1>4
  <2>1. \A u \in Students : enr[u].method = "ADMIN_APPROVAL" /\ ~enr[u].approved => u \in Unapproved
    BY DEF Unapproved
  <2>2. ASSUME NEW u \in Students PROVE enr'[u] \in EnrollmentRows /\ NeverLetIn(enr'[u])
    <3>1. enr[u] \in EnrollmentRows /\ NeverLetIn(enr[u])
      BY DEF CourseInv
    <3>2. \/ enr'[u] = enr[u]
          \/ /\ enr[u].state = "ARCHIVED"
             /\ \E s \in {"PENDING_APPROVAL", "EXPIRED", "ACTIVE"} :
                  enr'[u] = [enr[u] EXCEPT !.state = s] /\ (s = "ACTIVE" => u \notin Unapproved)
      BY DEF restore
    <3> QED
      BY <2>1, <3>1, <3>2 DEF EnrollmentRows, NeverLetIn
  <2>3. enr' = [u \in Students |-> enr'[u]] /\ End(p)
    BY DEF restore
  <2>4. enr' \in [Students -> EnrollmentRows]
    BY <2>2, <2>3
  <2> QED
    BY <1>0, <2>2, <2>3, <2>4, EndMoves DEF CourseInv, At, Idle, NeverLetIn
<1>5. CASE \E p \in Calls, u \in Students : BeginJoin(p, u)
  <2> PICK p \in Calls, u \in Students : BeginJoin(p, u)
    BY <1>5
  <2>1. UNCHANGED enr /\ Go(p, "join", "none", u)
    BY DEF BeginJoin
  <2>2. CallTable' /\ \A q \in Calls : call'[q] = call[q] \/ call'[q].who \in Students
    BY <1>0, <2>1 DEF CallTable, Go
  <2> QED
    BY <2>1, <2>2, CourseFrame
<1>6. CASE \E p \in Calls : joinWithApproval(p)
  <2> PICK p \in Calls : joinWithApproval(p)
    BY <1>6
  <2> DEFINE u == call[p].who
             row == [enr[u] EXCEPT !.state = "PENDING_APPROVAL", !.method = "ADMIN_APPROVAL"]
  <2>1. u \in Students /\ enr[u] \in EnrollmentRows /\ NeverLetIn(enr[u])
    BY DEF CourseInv, joinWithApproval
  <2>2. row \in EnrollmentRows /\ NeverLetIn(row)
    BY <2>1 DEF EnrollmentRows, NeverLetIn
  <2>3. enr' = [enr EXCEPT ![u] = row]
    BY <2>1 DEF joinWithApproval, CourseInv
  <2>4. CallTable' /\ \A q \in Calls : call'[q] = call[q] \/ call'[q].op # "join"
    BY <1>0, EndMoves DEF joinWithApproval, Idle
  <2> HIDE DEF u, row
  <2> QED
    BY <2>1, <2>2, <2>3, <2>4, CourseRow
<1>7. CASE \E u \in Students, b \in BOOLEAN : LetIn(u, b)
  <2> PICK u \in Students, b \in BOOLEAN : LetIn(u, b)
    BY <1>7
  <2> DEFINE row == [enr[u] EXCEPT !.state = "ACTIVE", !.ended = FALSE, !.letIn = TRUE, !.approved = @ \/ b]
  <2>1. enr[u] \in EnrollmentRows
    BY DEF CourseInv
  <2>2. row \in EnrollmentRows /\ NeverLetIn(row)
    BY <2>1 DEF EnrollmentRows, NeverLetIn
  <2>3. enr' = [enr EXCEPT ![u] = row] /\ UNCHANGED call
    BY <2>1 DEF LetIn, CourseInv
  <2> HIDE DEF row
  <2> QED
    BY <1>0, <2>2, <2>3, CourseRow DEF CallTable
<1>8. CASE \E u \in Students : TurnAway(u) \/ WindowEnds(u)
  <2> PICK u \in Students : TurnAway(u) \/ WindowEnds(u)
    BY <1>8
  <2>1. PICK row \in {[enr[u] EXCEPT !.state = "REVOKED"], [enr[u] EXCEPT !.ended = TRUE]} :
          enr' = [enr EXCEPT ![u] = row] /\ UNCHANGED call
    BY DEF TurnAway, WindowEnds, CourseInv
  <2>2. enr[u] \in EnrollmentRows /\ NeverLetIn(enr[u])
    BY DEF CourseInv
  <2>3. row \in EnrollmentRows /\ NeverLetIn(row)
    BY <2>1, <2>2 DEF EnrollmentRows, NeverLetIn
  <2> QED
    BY <1>0, <2>1, <2>3, CourseRow DEF CallTable
<1> QED
  BY <1>1, <1>2, <1>3, <1>4, <1>5, <1>6, <1>7, <1>8 DEF StaffingStep, StatusStep, StatusWrites, StudentStep

\* Restoring a course approves nobody, however often it was archived, deleted, half-published
\* and restored while students were waiting, let in and turned away (restore, Unapproved).
THEOREM RestoreApprovesNobody == CourseSpec => []NobodyApprovedByRestore
<1>1. CourseInv => NobodyApprovedByRestore
  BY DEF CourseInv, NeverLetIn, NobodyApprovedByRestore
<1> QED
  BY <1>1, CourseInitHolds, CourseNextKeeps, PTL DEF CourseSpec

-----------------------------------------------------------------------------
\* Uploads.

FileKinds == {"none", "document", "image", "invented"}
Kind(k) == minted[k][2]
Pictorial(k) == Kind(k) \in {"image", "invented"}

UploadTypes ==
  /\ CallTable
  /\ minted \in [Keys -> (Owners \cup {"none"}) \X FileKinds]
  /\ object \in [Keys -> {"absent", "file", "oversize"}]
  /\ picture \in [Owners -> Keys \cup {NoKey}]
  /\ document \in [Rows -> Keys \cup {NoKey}]

\* What a request in flight is about: a file on its way into a row, one that has left its row,
\* and an image that is about to be, or has been, replaced.
Registering(p) ==
  At(p, "register") =>
    /\ call[p].saw \in Keys /\ call[p].who \in Rows /\ Kind(call[p].saw) = "document"
    /\ call[p].saw \notin used => object[call[p].saw] # "absent"
    /\ call[p].saw \notin rewritten => object[call[p].saw] # "oversize"

Deleting(p) ==
  At(p, "delete") =>
    /\ call[p].saw \in Keys /\ Kind(call[p].saw) = "document" /\ call[p].saw \in used
    /\ ~reused => \A i \in Rows : document[i] # call[p].saw

Replacing(p) ==
  call[p].op \in {"setPicture", "discard"} =>
    /\ call[p].who \in Owners \X (Keys \cup {NoKey})
    /\ call[p].who[2] # NoKey => Pictorial(call[p].who[2])
    /\ call[p].saw # NoKey => call[p].saw \in Keys /\ Pictorial(call[p].saw) /\ call[p].saw \in used

\* The image a request replaces is nobody else's; once it has been replaced it is nobody's.
Left(p) ==
  call[p].saw # NoKey =>
    /\ At(p, "setPicture") => \A d \in Owners : picture[d] = call[p].saw => d = call[p].who[1]
    /\ At(p, "discard") /\ call[p].saw # call[p].who[2] => \A d \in Owners : picture[d] # call[p].saw

\* What a row names was registered, as what it is; an image that was never registered is there.
Shown(c) == picture[c] # NoKey => picture[c] \in used /\ Pictorial(picture[c])
ArrivedAs(i) == document[i] # NoKey => document[i] \in used /\ Kind(document[i]) = "document"
Stored(k) == Kind(k) = "image" /\ k \notin used => object[k] # "absent"

\* As long as no key was registered twice, no two rows name one file.
Single ==
  /\ \A c, d \in Owners : picture[c] = picture[d] /\ picture[c] # NoKey => c = d
  /\ \A i, j \in Rows : document[i] = document[j] /\ document[i] # NoKey => i = j

UploadInv ==
  /\ UploadTypes
  /\ \A p \in Calls : Registering(p) /\ Deleting(p) /\ Replacing(p)
  /\ \A c \in Owners : Shown(c)
  /\ \A i \in Rows : ArrivedAs(i)
  /\ \A k \in Keys : Stored(k)
  /\ ~reused => Single /\ \A p \in Calls : Left(p)
  /\ RegisteredFileIsThere

LEMMA UploadInitHolds == HandlersInit /\ UploadInit => UploadInv
<1> SUFFICES ASSUME HandlersInit, UploadInit PROVE UploadInv
  OBVIOUS
<1>1. UploadTypes
  BY DEF HandlersInit, UploadInit, UploadTypes, CallTable, FileKinds
<1>2. \A p \in Calls : call[p].op = "idle"
  BY DEF HandlersInit, Idle
<1>3. \A p \in Calls : Registering(p) /\ Deleting(p) /\ Replacing(p) /\ Left(p)
  BY <1>2 DEF Registering, Deleting, Replacing, Left, At
<1>4. /\ \A c \in Owners : Shown(c)
      /\ \A i \in Rows : ArrivedAs(i)
      /\ Single /\ RegisteredFileIsThere
  BY DEF UploadInit, Shown, ArrivedAs, Single, RegisteredFileIsThere
<1>5. \A k \in Keys : Stored(k)
  BY DEF UploadInit, Stored, Kind
<1> QED
  BY <1>1, <1>3, <1>4, <1>5 DEF UploadInv

\* Naming a picture makes up a key at most: no key changes its kind otherwise.
LEMMA NamingKeeps ==
  ASSUME UploadTypes, NEW k \in Keys \cup {NoKey}, assertCourseThumbnailKey(k), minted' = Named(k)
  PROVE  /\ minted' \in [Keys -> (Owners \cup {"none"}) \X FileKinds]
         /\ k # NoKey => minted'[k][2] \in {"image", "invented"}
         /\ \A j \in Keys : minted[j][2] # "none" => minted'[j][2] = minted[j][2]
         /\ \A j \in Keys : minted'[j][2] = "image" => minted[j][2] = "image"
<1> USE UploadAssumption DEF UploadTypes, FileKinds, Named, assertCourseThumbnailKey
<1>1. CASE k # NoKey /\ minted[k][2] = "none"
  BY <1>1
<1>2. CASE ~(k # NoKey /\ minted[k][2] = "none")
  <2>1. minted' = minted
    BY <1>2
  <2>2. k # NoKey => minted[k] \in (Owners \cup {"none"}) \X FileKinds
    OBVIOUS
  <2> QED
    BY <1>2, <2>1, <2>2
<1> QED
  BY <1>1, <1>2

\* A course that shows another picture disturbs nothing that has to do with rows and files.
LEMMA ShowingKeeps ==
  ASSUME UploadInv, CallTable', NEW c \in Owners, NEW k \in Keys \cup {NoKey},
         picture' = [picture EXCEPT ![c] = k],
         reused' = (reused \/ (k \in used /\ picture[c] # k)), used' = used \cup ({k} \ {NoKey}),
         UNCHANGED <<object, document, rewritten>>,
         minted' \in [Keys -> (Owners \cup {"none"}) \X FileKinds],
         k # NoKey => Pictorial(k)',
         \A j \in Keys : Kind(j) # "none" => Kind(j)' = Kind(j),
         \A j \in Keys : Kind(j)' = "image" => Kind(j) = "image"
  PROVE  /\ UploadTypes'
         /\ \A d \in Owners : Shown(d)'
         /\ \A j \in Rows : ArrivedAs(j)'
         /\ \A j \in Keys : Stored(j)'
         /\ ~reused' => Single'
         /\ RegisteredFileIsThere'
<1> USE UploadAssumption DEF UploadInv, UploadTypes
<1>1. UploadTypes'
  OBVIOUS
<1>2. /\ \A d \in Owners : Shown(d)'
      /\ \A j \in Rows : ArrivedAs(j)'
      /\ \A j \in Keys : Stored(j)'
  BY DEF Shown, Pictorial, ArrivedAs, Stored
<1>3. ~reused' => ~reused /\ (k \in used => picture[c] = k)
  OBVIOUS
<1>4. ~reused' /\ k # NoKey => \A d \in Owners : picture[d] = k => d = c
  BY <1>3 DEF Single, Shown
<1>5. ~reused' => Single'
  BY <1>3, <1>4 DEF Single
<1>6. RegisteredFileIsThere'
  <2>1. ~reused' /\ k # NoKey /\ Kind(k)' = "image" => object[k] # "absent"
    BY <1>3 DEF Stored, RegisteredFileIsThere, Kind
  <2>2. \A d \in Owners : picture'[d] = picture[d] \/ (d = c /\ picture'[d] = k)
    OBVIOUS
  <2> QED
    BY <1>3, <2>1, <2>2 DEF RegisteredFileIsThere, Kind
<1> QED
  BY <1>1, <1>2, <1>5, <1>6

LEMMA UploadNextKeeps == UploadInv /\ [UploadNext]_<<call, uploadVars>> => UploadInv'
<1> SUFFICES ASSUME UploadInv, [UploadNext]_<<call, uploadVars>> PROVE UploadInv'
  OBVIOUS
<1> USE UploadAssumption DEF UploadInv, UploadTypes
<1>1. CASE \E k \in Keys, c \in Owners : presignUpload(k, c)
  <2> PICK k \in Keys, c \in Owners : presignUpload(k, c)
    BY <1>1
  <2> USE DEF presignUpload
  <2>1. UploadTypes'
    BY DEF CallTable, FileKinds
  <2>2. \A j \in Keys : Kind(j) # "none" => Kind(j)' = Kind(j)
    BY DEF Kind
  <2>3. Kind(k)' = "document"
    BY DEF Kind
  <2>4. \A p \in Calls : Registering(p)' /\ Deleting(p)' /\ Replacing(p)'
    BY <2>2 DEF Registering, Deleting, Replacing, Pictorial, At
  <2>5. \A d \in Owners : Shown(d)'
    BY <2>2 DEF Shown, Pictorial
  <2>6. \A i \in Rows : ArrivedAs(i)'
    BY <2>2 DEF ArrivedAs
  <2>7. \A j \in Keys : Stored(j)'
    BY <2>2, <2>3 DEF Stored, Kind
  <2>8. ~reused' => Single' /\ \A p \in Calls : Left(p)'
    BY DEF Single, Left, At
  <2>9. RegisteredFileIsThere'
    BY DEF RegisteredFileIsThere
  <2> QED
    BY <2>1, <2>4, <2>5, <2>6, <2>7, <2>8, <2>9
<1>2. CASE \E k \in Keys, c \in Owners, kind \in {"document", "image"} : putStream(k, c, kind)
  <2> PICK k \in Keys, c \in Owners, kind \in {"document", "image"} : putStream(k, c, kind)
    BY <1>2
  <2> USE DEF putStream
  <2>1. UploadTypes'
    BY DEF CallTable, FileKinds
  <2>2. \A j \in Keys : Kind(j) # "none" => Kind(j)' = Kind(j) /\ object'[j] = object[j]
    BY DEF Kind
  <2>3. object'[k] = "file" /\ \A j \in Keys \ {k} : object'[j] = object[j] /\ Kind(j)' = Kind(j)
    BY DEF Kind
  <2>4. \A p \in Calls : Registering(p)' /\ Deleting(p)' /\ Replacing(p)'
    BY <2>2 DEF Registering, Deleting, Replacing, Pictorial, At
  <2>5. \A d \in Owners : Shown(d)'
    BY <2>2 DEF Shown, Pictorial
  <2>6. \A i \in Rows : ArrivedAs(i)'
    BY <2>2 DEF ArrivedAs
  <2>7. \A j \in Keys : Stored(j)'
    BY <2>2, <2>3 DEF Stored
  <2>8. ~reused' => Single' /\ \A p \in Calls : Left(p)'
    BY DEF Single, Left, At
  <2>9. RegisteredFileIsThere'
    BY <2>3 DEF RegisteredFileIsThere
  <2> QED
    BY <2>1, <2>4, <2>5, <2>6, <2>7, <2>8, <2>9
<1>3. CASE \E k \in Keys, size \in {"file", "oversize"} : PutThroughLink(k, size)
  <2> PICK k \in Keys, size \in {"file", "oversize"} : PutThroughLink(k, size)
    BY <1>3
  <2> USE DEF PutThroughLink
  <2>1. UploadTypes'
    BY DEF CallTable
  <2>2. object'[k] # "absent" /\ \A j \in Keys \ {k} : object'[j] = object[j]
    OBVIOUS
  <2>3. rewritten \subseteq rewritten' /\ (k \in used => k \in rewritten')
    OBVIOUS
  <2>4. \A p \in Calls : Registering(p)'
    BY <2>2, <2>3 DEF Registering, At, Kind
  <2>5. \A p \in Calls : Deleting(p)' /\ Replacing(p)'
    BY DEF Deleting, Replacing, Pictorial, At, Kind
  <2>6. /\ \A d \in Owners : Shown(d)'
        /\ \A i \in Rows : ArrivedAs(i)'
    BY DEF Shown, Pictorial, ArrivedAs, Kind
  <2>7. \A j \in Keys : Stored(j)'
    BY <2>2 DEF Stored, Kind
  <2>8. ~reused' => Single' /\ \A p \in Calls : Left(p)'
    BY DEF Single, Left, At
  <2>9. RegisteredFileIsThere'
    BY <2>2, <2>3 DEF RegisteredFileIsThere, ArrivedAs
  <2> QED
    BY <2>1, <2>4, <2>5, <2>6, <2>7, <2>8, <2>9
<1>4. CASE \/ \E k \in Keys : LinkExpires(k)
           \/ UNCHANGED <<call, uploadVars>>
  <2>1. UNCHANGED <<call, minted, object, picture, document, used, rewritten, reused>>
    BY <1>4 DEF LinkExpires, uploadVars
  <2>2. UploadTypes'
    BY <2>1 DEF CallTable
  <2>3. \A p \in Calls : Registering(p)' /\ Deleting(p)' /\ Replacing(p)'
    BY <2>1 DEF Registering, Deleting, Replacing, Pictorial, At, Kind
  <2>4. /\ \A c \in Owners : Shown(c)'
        /\ \A i \in Rows : ArrivedAs(i)'
        /\ \A k \in Keys : Stored(k)'
    BY <2>1 DEF Shown, Pictorial, ArrivedAs, Stored, Kind
  <2>5. ~reused' => Single' /\ \A p \in Calls : Left(p)'
    BY <2>1 DEF Single, Left, At
  <2>6. RegisteredFileIsThere'
    BY <2>1 DEF RegisteredFileIsThere
  <2> QED
    BY <2>2, <2>3, <2>4, <2>5, <2>6
<1>5. CASE \E p \in Calls, i \in Rows, c \in Owners, k \in Keys : BeginRegisterDocument(p, i, c, k)
  <2> PICK p \in Calls, i \in Rows, c \in Owners, k \in Keys : BeginRegisterDocument(p, i, c, k)
    BY <1>5
  <2>1. /\ call' = [call EXCEPT ![p] = [op |-> "register", saw |-> k, who |-> i]]
        /\ UNCHANGED uploadVars /\ object[k] = "file" /\ Kind(k) = "document"
    BY DEF BeginRegisterDocument, Go, InNamespace, assertUploadWithinLimit, Kind
  <2> USE DEF uploadVars
  <2>2. UploadTypes'
    BY <2>1 DEF CallTable
  <2>3. \A q \in Calls : Registering(q)' /\ Deleting(q)' /\ Replacing(q)'
    BY <2>1 DEF Registering, Deleting, Replacing, Pictorial, At, Kind, CallTable
  <2>4. ~reused' => Single' /\ \A q \in Calls : Left(q)'
    BY <2>1 DEF Single, Left, At, CallTable
  <2>5. /\ \A d \in Owners : Shown(d)'
        /\ \A j \in Rows : ArrivedAs(j)'
        /\ \A j \in Keys : Stored(j)'
        /\ RegisteredFileIsThere'
    BY <2>1 DEF Shown, Pictorial, ArrivedAs, Stored, Kind, RegisteredFileIsThere
  <2> QED
    BY <2>2, <2>3, <2>4, <2>5
<1>6. CASE \E p \in Calls : registerDocument(p)
  <2> PICK p \in Calls : registerDocument(p)
    BY <1>6
  <2> DEFINE k == call[p].saw
             i == call[p].who
  <2>1. /\ k \in Keys /\ i \in Rows /\ Kind(k) = "document"
        /\ k \notin used => object[k] # "absent"
        /\ k \notin rewritten => object[k] # "oversize"
    BY DEF registerDocument, Registering
  <2>2. /\ document' = [document EXCEPT ![i] = k]
        /\ reused' = (reused \/ k \in used) /\ used' = used \cup {k}
        /\ call' = [call EXCEPT ![p] = Idle]
        /\ UNCHANGED <<minted, object, picture, rewritten>>
    BY DEF registerDocument, End
  <2> HIDE DEF k, i
  <2>3. UploadTypes'
    BY <2>1, <2>2 DEF CallTable
  <2>4. \A q \in Calls : Registering(q)' /\ Replacing(q)'
    BY <2>2 DEF Registering, Replacing, Pictorial, At, Kind, CallTable, Idle
  <2>5. \A q \in Calls : Deleting(q)'
    BY <2>1, <2>2 DEF Deleting, At, Kind, CallTable, Idle
  <2>6. /\ \A d \in Owners : Shown(d)'
        /\ \A j \in Rows : ArrivedAs(j)'
        /\ \A j \in Keys : Stored(j)'
    BY <2>1, <2>2 DEF Shown, Pictorial, ArrivedAs, Stored, Kind
  <2>7. ~reused' => Single'
    BY <2>1, <2>2 DEF Single, ArrivedAs
  <2>8. ~reused' => \A q \in Calls : Left(q)'
    BY <2>2 DEF Left, At, CallTable, Idle
  <2>9. RegisteredFileIsThere'
    BY <2>1, <2>2 DEF RegisteredFileIsThere
  <2> QED
    BY <2>3, <2>4, <2>5, <2>6, <2>7, <2>8, <2>9
<1>7. CASE \E p \in Calls, i \in Rows : BeginRemoveDocument(p, i)
  <2> PICK p \in Calls, i \in Rows : BeginRemoveDocument(p, i)
    BY <1>7
  <2>1. /\ document[i] # NoKey /\ document' = [document EXCEPT ![i] = NoKey]
        /\ call' = [call EXCEPT ![p] = [op |-> "delete", saw |-> document[i], who |-> i]]
        /\ UNCHANGED <<minted, object, picture, used, rewritten, reused>>
    BY DEF BeginRemoveDocument, Go
  <2>2. UploadTypes'
    BY <2>1 DEF CallTable
  <2>3. \A q \in Calls : Registering(q)' /\ Replacing(q)'
    BY <2>1 DEF Registering, Replacing, Pictorial, At, Kind, CallTable
  <2>4. \A q \in Calls : Deleting(q)'
    BY <2>1 DEF Deleting, ArrivedAs, Single, At, Kind, CallTable
  <2>5. ~reused' => Single' /\ \A q \in Calls : Left(q)'
    BY <2>1 DEF Single, Left, At, CallTable
  <2>6. /\ \A d \in Owners : Shown(d)'
        /\ \A j \in Rows : ArrivedAs(j)'
        /\ \A j \in Keys : Stored(j)'
        /\ RegisteredFileIsThere'
    BY <2>1 DEF Shown, Pictorial, ArrivedAs, Stored, Kind, RegisteredFileIsThere
  <2> QED
    BY <2>2, <2>3, <2>4, <2>5, <2>6
<1>8. CASE \E p \in Calls : deleteObject(p) \/ discardReplacedThumbnail(p)
  <2> PICK p \in Calls : deleteObject(p) \/ discardReplacedThumbnail(p)
    BY <1>8
  <2> DEFINE k == call[p].saw
  <2>1. /\ call' = [call EXCEPT ![p] = Idle]
        /\ UNCHANGED <<minted, picture, document, used, rewritten, reused>>
    BY DEF deleteObject, discardReplacedThumbnail, End
  <2>2. \/ UNCHANGED object
        \/ object' = [object EXCEPT ![k] = "absent"] /\ (At(p, "delete") \/ (At(p, "discard") /\ k # NoKey /\ k # call[p].who[2]))
    BY DEF deleteObject, discardReplacedThumbnail, Replaced
  <2>3. object' # object => /\ k \in Keys /\ k \in used
                            /\ ~reused => /\ \A c \in Owners : picture[c] # k
                                          /\ \A i \in Rows : document[i] # k
    BY <2>2 DEF Deleting, Replacing, Pictorial, Left, Shown, ArrivedAs, At
  <2> HIDE DEF k
  <2>4. \A j \in Keys : object'[j] = object[j] \/ (j = k /\ object'[j] = "absent" /\ object' # object)
    BY <2>2
  <2>5. UploadTypes'
    BY <2>1, <2>2 DEF CallTable
  <2>6. \A q \in Calls : Registering(q)'
    BY <2>1, <2>3, <2>4 DEF Registering, At, Kind, CallTable, Idle
  <2>7. \A q \in Calls : Deleting(q)' /\ Replacing(q)'
    BY <2>1 DEF Deleting, Replacing, Pictorial, At, Kind, CallTable, Idle
  <2>8. ~reused' => Single' /\ \A q \in Calls : Left(q)'
    BY <2>1 DEF Single, Left, At, CallTable, Idle
  <2>9. /\ \A d \in Owners : Shown(d)'
        /\ \A j \in Rows : ArrivedAs(j)'
        /\ \A j \in Keys : Stored(j)'
    BY <2>1, <2>3, <2>4 DEF Shown, Pictorial, ArrivedAs, Stored, Kind
  <2>10. RegisteredFileIsThere'
    BY <2>1, <2>3, <2>4 DEF RegisteredFileIsThere
  <2> QED
    BY <2>5, <2>6, <2>7, <2>8, <2>9, <2>10
<1>9. CASE \E p \in Calls, c \in Owners, k \in Keys \cup {NoKey} : BeginSetPicture(p, c, k)
  <2> PICK p \in Calls, c \in Owners, k \in Keys \cup {NoKey} : BeginSetPicture(p, c, k)
    BY <1>9
  <2>1. /\ call' = [call EXCEPT ![p] = [op |-> "setPicture", saw |-> picture[c], who |-> <<c, k>>]]
        /\ minted' = Named(k) /\ UNCHANGED <<object, signed, picture, document, used, rewritten, reused>>
    BY DEF BeginSetPicture, Go
  <2>0. assertCourseThumbnailKey(k)
    BY DEF BeginSetPicture
  <2>2. /\ minted' \in [Keys -> (Owners \cup {"none"}) \X FileKinds]
        /\ k # NoKey => Pictorial(k)'
        /\ \A j \in Keys : Kind(j) # "none" => Kind(j)' = Kind(j)
        /\ \A j \in Keys : Kind(j)' = "image" => Kind(j) = "image"
    BY <2>0, <2>1, NamingKeeps DEF Kind, Pictorial
  <2>3. UploadTypes'
    BY <2>1, <2>2 DEF CallTable
  <2>4. \A q \in Calls : Registering(q)' /\ Deleting(q)'
    BY <2>1, <2>2 DEF Registering, Deleting, At, CallTable
  <2>5. \A q \in Calls : Replacing(q)'
    BY <2>1, <2>2 DEF Replacing, Shown, Pictorial, CallTable
  <2>6. ~reused' => Single' /\ \A q \in Calls : Left(q)'
    BY <2>1 DEF Single, Left, At, CallTable
  <2>7. /\ \A d \in Owners : Shown(d)'
        /\ \A j \in Rows : ArrivedAs(j)'
        /\ \A j \in Keys : Stored(j)'
    BY <2>1, <2>2 DEF Shown, Pictorial, ArrivedAs, Stored
  <2>8. RegisteredFileIsThere'
    BY <2>1, <2>2 DEF RegisteredFileIsThere, Kind
  <2> QED
    BY <2>3, <2>4, <2>5, <2>6, <2>7, <2>8
<1>10. CASE \E p \in Calls : setPicture(p)
  <2> PICK p \in Calls : setPicture(p)
    BY <1>10
  <2> PICK c \in Owners, k \in Keys \cup {NoKey} :
        call[p].who = <<c, k>> /\ (k # NoKey => Pictorial(k))
    BY DEF setPicture, Replacing, At
  <2> DEFINE saw == call[p].saw
  <2>1. /\ picture' = [picture EXCEPT ![c] = k]
        /\ reused' = (reused \/ (k \in used /\ picture[c] # k)) /\ used' = used \cup ({k} \ {NoKey})
        /\ call' = [call EXCEPT ![p] = [op |-> "discard", saw |-> saw, who |-> <<c, k>>]]
        /\ UNCHANGED <<minted, object, document, rewritten>>
    BY DEF setPicture, Show, Go
  <2>2. /\ saw # NoKey => saw \in Keys /\ Pictorial(saw) /\ saw \in used
        /\ ~reused /\ saw # NoKey => \A d \in Owners : picture[d] = saw => d = c
    BY DEF setPicture, Replacing, Left, At
  <2> HIDE DEF saw
  <2>3. /\ UploadTypes'
        /\ \A d \in Owners : Shown(d)'
        /\ \A j \in Rows : ArrivedAs(j)'
        /\ \A j \in Keys : Stored(j)'
        /\ \A q \in Calls : Registering(q)' /\ Deleting(q)'
        /\ ~reused' => Single'
        /\ RegisteredFileIsThere'
    <3>1. CallTable'
      BY <2>1 DEF CallTable
    <3>3. \A q \in Calls : Registering(q)' /\ Deleting(q)'
      BY <2>1 DEF Registering, Deleting, At, Kind, CallTable
    <3>4. /\ minted' \in [Keys -> (Owners \cup {"none"}) \X FileKinds]
          /\ k # NoKey => Pictorial(k)'
          /\ \A j \in Keys : Kind(j)' = Kind(j)
      BY <2>1 DEF Pictorial, Kind
    <3> QED
      BY <2>1, <3>1, <3>3, <3>4, ShowingKeeps
  <2>4. \A q \in Calls : Replacing(q)'
    BY <2>1, <2>2 DEF Replacing, Pictorial, Kind, CallTable
  <2>5. ~reused' => ~reused /\ (k \in used => picture[c] = k)
    BY <2>1
  <2>9. ASSUME ~reused', NEW q \in Calls PROVE Left(q)'
    <3>1. CASE q = p
      BY <2>1, <2>2, <2>5, <2>9, <3>1 DEF Left, At, CallTable
    <3>2. CASE q # p /\ k \in used
      <4>1. picture' = picture
        BY <2>1, <2>5, <2>9, <3>2
      <4> QED
        BY <2>1, <2>5, <2>9, <3>2, <4>1 DEF Left, At, CallTable
    <3>3. CASE q # p /\ k \notin used
      <4>1. call'[q] = call[q] /\ Left(q) /\ Replacing(q)
        BY <2>1, <2>5, <2>9, <3>3 DEF CallTable
      <4>2. call[q].op \in {"setPicture", "discard"} /\ call[q].saw # NoKey => call[q].saw # k
        BY <3>3, <4>1 DEF Replacing
      <4>3. \A d \in Owners : picture'[d] = picture[d] \/ (d = c /\ picture'[d] = k)
        BY <2>1
      <4> QED
        BY <4>1, <4>2, <4>3 DEF Left, At
    <3> QED
      BY <3>1, <3>2, <3>3
  <2> QED
    BY <2>3, <2>4, <2>9
<1>11. CASE \E c \in Owners, k \in Keys \cup {NoKey} : createWithPicture(c, k)
  <2> PICK c \in Owners, k \in Keys \cup {NoKey} : createWithPicture(c, k)
    BY <1>11
  <2>1. /\ picture[c] = NoKey
        /\ picture' = [picture EXCEPT ![c] = k]
        /\ reused' = (reused \/ (k \in used /\ picture[c] # k)) /\ used' = used \cup ({k} \ {NoKey})
        /\ minted' = Named(k)
        /\ UNCHANGED <<call, object, document, rewritten>>
    BY DEF createWithPicture, NotYet, Show
  <2>2. /\ minted' \in [Keys -> (Owners \cup {"none"}) \X FileKinds]
        /\ k # NoKey => Pictorial(k)'
        /\ \A j \in Keys : Kind(j) # "none" => Kind(j)' = Kind(j)
        /\ \A j \in Keys : Kind(j)' = "image" => Kind(j) = "image"
    BY NamingKeeps DEF createWithPicture, Kind, Pictorial
  <2>3. CallTable'
    BY <2>1 DEF CallTable
  <2>4. \A q \in Calls : Registering(q)' /\ Deleting(q)' /\ Replacing(q)'
    BY <2>1, <2>2 DEF Registering, Deleting, Replacing, Pictorial, At
  <2>5. /\ UploadTypes'
        /\ \A d \in Owners : Shown(d)'
        /\ \A j \in Rows : ArrivedAs(j)'
        /\ \A j \in Keys : Stored(j)'
        /\ ~reused' => Single'
        /\ RegisteredFileIsThere'
    BY <2>1, <2>2, <2>3, ShowingKeeps
  <2>6. ASSUME ~reused', NEW q \in Calls PROVE Left(q)'
    <3>1. Left(q) /\ Replacing(q) /\ call'[q] = call[q] /\ (k # NoKey => k \notin used)
      BY <2>1, <2>6
    <3>2. call[q].op \in {"setPicture", "discard"} /\ call[q].saw # NoKey => call[q].saw # k
      BY <3>1 DEF Replacing
    <3>3. \A d \in Owners : picture'[d] = picture[d] \/ (d = c /\ picture'[d] = k)
      BY <2>1
    <3> QED
      BY <3>1, <3>2, <3>3 DEF Left, At
  <2> QED
    BY <2>4, <2>5, <2>6
<1> QED
  BY <1>1, <1>2, <1>3, <1>4, <1>5, <1>6, <1>7, <1>8, <1>9, <1>10, <1>11 DEF UploadNext

\* However many requests upload, register, replace and remove at once, a registered file is in
\* the store, and none is over the limit whose link was not used behind the check
\* (AttachmentsService.create and remove, setPicture, discardReplacedThumbnail).
THEOREM RegisteredFilesStay == UploadSpec => []RegisteredFileIsThere
<1>1. UploadInv => RegisteredFileIsThere
  BY DEF UploadInv
<1> QED
  BY <1>1, UploadInitHolds, UploadNextKeeps, PTL DEF UploadSpec

-----------------------------------------------------------------------------
\* Support.

ThreadRows ==
  [reference : References \cup {0}, status : TicketStatuses \cup {"NONE"}, unread : Nat,
   resolved : BOOLEAN, closed : BOOLEAN]

\* A ticket that was not opened is blank; one that was has a status.
SupportTypes ==
  /\ CallTable
  /\ thread \in [Threads -> ThreadRows]
  /\ unseen \in [Threads -> Nat] /\ written \in [Threads -> Nat]
  /\ \A t \in Threads : thread[t].status = "NONE" <=> thread[t] = NoThread

\* What a request in flight is about, and what it has read.
WriteSound(p) ==
  /\ call[p].op \in {"idle", "createTicket", "message", "reply", "update", "detail", "seen"}
  /\ At(p, "createTicket") => call[p].who \in Threads /\ call[p].saw \in References
  /\ call[p].op \notin {"idle", "createTicket"} => call[p].who \in Threads /\ thread[call[p].who].status # "NONE"
  /\ call[p].op \in {"message", "reply"} => call[p].saw \in TicketStatuses
  /\ At(p, "message") => call[p].saw # "CLOSED"

\* As long as no two requests on one ticket overlapped: what was read still stands, what staff
\* have looked at is theirs, and the counter is right except while staff are looking.
Undisturbed(p) ==
  /\ call[p].op \in {"message", "reply"} => call[p].saw = thread[call[p].who].status
  /\ At(p, "seen") => unseen[call[p].who] = 0

Looking(t) == \E p \in Calls : call[p].op \in {"detail", "seen"} /\ call[p].who = t

Counted(t) ==
  /\ thread[t].unread = unseen[t] \/ Looking(t)
  /\ thread[t].status = "RESOLVED" => thread[t].resolved
  /\ thread[t].status = "CLOSED" => thread[t].closed

Numbered == \A t, s \in Created : thread[t].reference = thread[s].reference => t = s

SupportInv ==
  /\ SupportTypes
  /\ \A p \in Calls : WriteSound(p)
  /\ Numbered
  /\ ~crossing => /\ \A p \in Calls : Undisturbed(p)
                  /\ \A t \in Threads : Counted(t)

LEMMA SupportInitHolds == HandlersInit /\ SupportInit => SupportInv
<1> SUFFICES ASSUME HandlersInit, SupportInit PROVE SupportInv
  OBVIOUS
<1>1. \A p \in Calls : call[p].op = "idle"
  BY DEF HandlersInit, Idle
<1>2. \A t \in Threads : thread[t] = NoThread
  BY DEF SupportInit
<1>3. SupportTypes
  BY DEF HandlersInit, SupportInit, SupportTypes, CallTable, ThreadRows, NoThread
<1>4. \A p \in Calls : WriteSound(p) /\ Undisturbed(p)
  BY <1>1 DEF WriteSound, Undisturbed, At
<1>5. Numbered
  BY <1>2 DEF Numbered, Created
<1>6. \A t \in Threads : Counted(t)
  BY <1>2 DEF Counted, SupportInit, NoThread
<1> QED
  BY <1>3, <1>4, <1>5, <1>6 DEF SupportInv

\* A write on a ticket that another request is at is a crossing.
LEMMA AloneOrCrossed ==
  ASSUME NEW p \in Calls, NEW t, Crossed(p, t), ~crossing'
  PROVE  ~crossing /\ \A q \in Calls \ {p} : call[q].op = "idle" \/ call[q].who # t
BY DEF Crossed

\* A step of p that writes ticket t, without touching its number.
TicketWrite(p, t, row) ==
  /\ thread[t].status # "NONE" /\ row.status # "NONE" /\ row.reference = thread[t].reference
  /\ thread' = [thread EXCEPT ![t] = row]
  /\ unseen' \in [Threads -> Nat] /\ written' \in [Threads -> Nat]
  /\ CallTable' /\ \A q \in Calls \ {p} : call'[q] = call[q]

LEMMA TicketStep ==
  ASSUME SupportInv, NEW p \in Calls, NEW t \in Threads, NEW row \in ThreadRows, TicketWrite(p, t, row)
  PROVE  /\ SupportTypes' /\ Numbered'
         /\ thread'[t] = row /\ \A s \in Threads \ {t} : thread'[s] = thread[s]
         /\ \A q \in Calls \ {p} : WriteSound(q)'
<1> USE DEF SupportInv, SupportTypes, TicketWrite
<1>1. thread'[t] = row /\ \A s \in Threads \ {t} : thread'[s] = thread[s]
  OBVIOUS
<1>2. thread' \in [Threads -> ThreadRows]
  OBVIOUS
<1>3. row # NoThread
  BY DEF NoThread
<1>4. thread[t] # NoThread
  OBVIOUS
<1>5. Created' = Created
  BY <1>1, <1>3, <1>4 DEF Created
<1>6. Numbered'
  BY <1>1, <1>5 DEF Numbered, Created
<1>7. \A q \in Calls \ {p} : WriteSound(q)'
  BY <1>1 DEF WriteSound, At
<1> QED
  BY <1>1, <1>2, <1>3, <1>6, <1>7

\* What such a step leaves of the rest, when nobody else is at t.
LEMMA OthersUndisturbed ==
  ASSUME SupportInv, NEW p \in Calls, NEW t \in Threads, ~crossing,
         \A q \in Calls \ {p} : call[q].op = "idle" \/ call[q].who # t,
         CallTable', \A q \in Calls \ {p} : call'[q] = call[q],
         call[p].op # "idle" => call[p].who = t,
         \A s \in Threads \ {t} : thread'[s] = thread[s] /\ unseen'[s] = unseen[s]
  PROVE  /\ \A q \in Calls \ {p} : Undisturbed(q)'
         /\ \A s \in Threads \ {t} : Counted(s)'
<1>1. \A q \in Calls \ {p} : Undisturbed(q)'
  BY DEF SupportInv, WriteSound, Undisturbed, At
<1>2. \A s \in Threads \ {t} : Looking(s) => Looking(s)'
  BY DEF Looking
<1>3. \A s \in Threads \ {t} : Counted(s)'
  BY <1>2 DEF SupportInv, Counted
<1> QED
  BY <1>1, <1>3

LEMMA SupportNextKeeps == SupportInv /\ [SupportNext]_<<call, supportVars>> => SupportInv'
<1> SUFFICES ASSUME SupportInv, [SupportNext]_<<call, supportVars>> PROVE SupportInv'
  OBVIOUS
<1>0. CallTable /\ SupportTypes
  BY DEF SupportInv, SupportTypes
<1>1. CASE UNCHANGED <<call, supportVars>>
  <2>1. SupportTypes' /\ Numbered'
    BY <1>1 DEF SupportInv, SupportTypes, CallTable, Numbered, Created, supportVars
  <2>2. \A p \in Calls : WriteSound(p)' /\ (~crossing => Undisturbed(p)')
    BY <1>1 DEF SupportInv, WriteSound, Undisturbed, At, supportVars
  <2>3. ~crossing => \A t \in Threads : Counted(t)'
    BY <1>1 DEF SupportInv, Counted, Looking, supportVars
  <2> QED
    BY <1>1, <2>1, <2>2, <2>3 DEF SupportInv, supportVars
<1>2. CASE \E p \in Calls, t \in Threads, op \in {"createTicket", "message", "reply", "update", "detail"} :
             IF op = "createTicket" THEN BeginCreateTicket(p, t) ELSE BeginWrite(p, t, op)
  <2> PICK p \in Calls, t \in Threads, op \in {"createTicket", "message", "reply", "update", "detail"} :
             IF op = "createTicket" THEN BeginCreateTicket(p, t) ELSE BeginWrite(p, t, op)
    BY <1>2
  <2>1. PICK saw : /\ call' = [call EXCEPT ![p] = [op |-> op, saw |-> saw, who |-> t]]
                   /\ op = "createTicket" => saw \in References
                   /\ op # "createTicket" => /\ saw = thread[t].status /\ thread[t] # NoThread
                                             /\ op = "message" => saw # "CLOSED"
    BY DEF BeginCreateTicket, BeginWrite, Go, nextReference
  <2>2. UNCHANGED supportVars /\ At(p, "idle")
    BY DEF BeginCreateTicket, BeginWrite
  <2>3. SupportTypes' /\ Numbered'
    BY <1>0, <2>1, <2>2 DEF SupportInv, SupportTypes, CallTable, Numbered, Created, supportVars
  <2>4. op # "createTicket" => thread[t].status \in TicketStatuses
    BY <1>0, <2>1 DEF SupportTypes, ThreadRows
  <2>5. /\ call'[p] = [op |-> op, saw |-> saw, who |-> t]
        /\ \A q \in Calls \ {p} : call'[q] = call[q]
    BY <1>0, <2>1 DEF CallTable
  <2>6. \A q \in Calls \ {p} : WriteSound(q)' /\ (~crossing => Undisturbed(q)')
    BY <2>2, <2>5 DEF SupportInv, WriteSound, Undisturbed, At, supportVars
  <2>7. WriteSound(p)' /\ Undisturbed(p)'
    BY <2>1, <2>2, <2>4, <2>5 DEF WriteSound, Undisturbed, At, supportVars, TicketStatuses
  <2>8. \A s \in Threads : Looking(s) => Looking(s)'
    BY <2>2, <2>5 DEF Looking, At
  <2>9. ~crossing => \A s \in Threads : Counted(s)'
    BY <2>2, <2>8 DEF SupportInv, Counted, supportVars
  <2> QED
    BY <2>2, <2>3, <2>6, <2>7, <2>9 DEF SupportInv, supportVars
<1>3. CASE \E p \in Calls : createTicket(p)
  <2> PICK p \in Calls : createTicket(p)
    BY <1>3
  <2> PICK t, r : t = call[p].who /\ r = call[p].saw
    OBVIOUS
  <2> DEFINE row == [NoThread EXCEPT !.reference = r, !.status = "OPEN", !.unread = 1]
  <2>1. t \in Threads /\ r \in References /\ call' = [call EXCEPT ![p] = Idle] /\ crossing' = crossing
    BY DEF createTicket, SupportInv, WriteSound, End
  <2>2. row \in ThreadRows /\ row.status = "OPEN" /\ row.reference = r /\ row.unread = 1
    BY <2>1 DEF NoThread, ThreadRows, TicketStatuses
  <2>3. \/ UNCHANGED <<thread, unseen, written>>
        \/ /\ thread' = [thread EXCEPT ![t] = row] /\ thread[t] = NoThread /\ r \notin Taken
           /\ unseen' = [unseen EXCEPT ![t] = 1] /\ written' = [written EXCEPT ![t] = 1]
    BY DEF createTicket
  <2>4. At(p, "createTicket")
    BY DEF createTicket
  <2>5. call'[p] = Idle /\ CallTable' /\ \A q \in Calls \ {p} : call'[q] = call[q]
    BY <1>0, <2>1 DEF CallTable
  <2> HIDE DEF row
  <2>6. row # NoThread
    BY <2>2 DEF NoThread
  <2>7. \A s \in Threads : Looking(s) => Looking(s)'
    BY <2>4, <2>5 DEF Looking, At
  <2>8. \A q \in Calls \ {p} : WriteSound(q)' /\ (~crossing => Undisturbed(q)')
    BY <1>0, <2>1, <2>2, <2>3, <2>5 DEF SupportInv, SupportTypes, WriteSound, Undisturbed, At, NoThread
  <2>9. WriteSound(p)' /\ Undisturbed(p)'
    BY <2>5 DEF WriteSound, Undisturbed, At, Idle
  <2>10. CASE UNCHANGED <<thread, unseen, written>>
    <3>1. SupportTypes' /\ Numbered'
      BY <1>0, <2>1, <2>5, <2>10 DEF SupportInv, SupportTypes, Numbered, Created
    <3>2. ~crossing => \A s \in Threads : Counted(s)'
      BY <2>7, <2>10 DEF SupportInv, Counted
    <3> QED
      BY <2>1, <2>8, <2>9, <3>1, <3>2 DEF SupportInv
  <2>11. CASE ~UNCHANGED <<thread, unseen, written>>
    <3>1. /\ thread' = [thread EXCEPT ![t] = row] /\ thread[t] = NoThread /\ r \notin Taken
          /\ unseen' = [unseen EXCEPT ![t] = 1] /\ written' = [written EXCEPT ![t] = 1]
      BY <2>3, <2>11
    <3>2. /\ thread'[t] = row /\ unseen'[t] = 1
          /\ \A s \in Threads \ {t} : thread'[s] = thread[s] /\ unseen'[s] = unseen[s]
      BY <1>0, <2>1, <3>1 DEF SupportTypes
    <3>3. SupportTypes'
      BY <1>0, <2>1, <2>2, <2>5, <2>6, <3>1, <3>2 DEF SupportTypes
    <3>4. Created' = Created \cup {t}
      BY <2>1, <2>6, <3>2 DEF Created
    <3>5. Numbered'
      BY <2>1, <2>2, <3>1, <3>2, <3>4 DEF SupportInv, Numbered, Created, Taken
    <3>6. ~crossing => \A s \in Threads : Counted(s)'
      BY <2>2, <2>7, <3>2 DEF SupportInv, Counted
    <3> QED
      BY <2>1, <2>8, <2>9, <3>3, <3>5, <3>6 DEF SupportInv
  <2> QED
    BY <2>3, <2>10, <2>11
<1>4. CASE \E p \in Calls : addStudentMessage(p)
  <2> PICK p \in Calls : addStudentMessage(p)
    BY <1>4
  <2> PICK t : t = call[p].who
    OBVIOUS
  <2> PICK s0, m, n : s0 = StatusAfterMessage(call[p].saw) /\ m = thread[t].unread + 1 /\ n = unseen[t] + 1
    OBVIOUS
  <2> PICK row : row = [thread[t] EXCEPT !.status = s0, !.unread = m, !.resolved = FALSE]
    OBVIOUS
  <2>1. /\ t \in Threads /\ thread[t].status # "NONE" /\ call[p].saw \in TicketStatuses \ {"CLOSED"}
        /\ ~crossing => call[p].saw = thread[t].status
        /\ s0 \in TicketStatuses \ {"RESOLVED", "CLOSED"}
    BY DEF addStudentMessage, SupportInv, WriteSound, Undisturbed, At, StatusAfterMessage, TicketStatuses
  <2>2. thread[t] \in ThreadRows /\ n \in Nat /\ m \in Nat
    BY <1>0, <2>1 DEF SupportTypes, ThreadRows
  <2>3. row \in ThreadRows /\ row.status = s0 /\ row.reference = thread[t].reference /\ row.unread = m
    BY <2>1, <2>2 DEF ThreadRows
  <2>4. thread' = [thread EXCEPT ![t] = row]
    BY <1>0, <2>1 DEF addStudentMessage, SupportTypes
  <2>5. /\ unseen' = [unseen EXCEPT ![t] = n] /\ written' = [written EXCEPT ![t] = @ + 1]
        /\ call' = [call EXCEPT ![p] = Idle] /\ Crossed(p, t)
    BY DEF addStudentMessage, End
  <2>6. At(p, "message")
    BY DEF addStudentMessage
  <2>7. /\ CallTable' /\ call'[p] = Idle /\ \A q \in Calls \ {p} : call'[q] = call[q]
        /\ written' \in [Threads -> Nat]
    BY <1>0, <2>1, <2>5 DEF CallTable, SupportTypes, Crossed
  <2>8. /\ unseen'[t] = n /\ \A s \in Threads \ {t} : unseen'[s] = unseen[s]
        /\ unseen' \in [Threads -> Nat]
    BY <1>0, <2>1, <2>2, <2>5 DEF SupportTypes
  <2>11. /\ SupportTypes' /\ Numbered'
         /\ thread'[t] = row /\ \A s \in Threads \ {t} : thread'[s] = thread[s]
         /\ \A q \in Calls \ {p} : WriteSound(q)'
    <3>1. row.status # "NONE"
      BY <2>1, <2>3 DEF TicketStatuses
    <3>2. TicketWrite(p, t, row)
      BY <2>1, <2>3, <2>4, <2>7, <2>8, <3>1 DEF TicketWrite
    <3> QED
      BY <2>1, <2>3, <3>2, TicketStep
  <2>9. WriteSound(p)' /\ Undisturbed(p)'
    BY <2>7 DEF WriteSound, Undisturbed, At, Idle
  <2>10. ASSUME ~crossing' PROVE (\A q \in Calls : Undisturbed(q)') /\ (\A s \in Threads : Counted(s)')
    <3>1. ~crossing /\ \A q \in Calls \ {p} : call[q].op = "idle" \/ call[q].who # t
      BY <2>5, <2>10, AloneOrCrossed
    <3>2. /\ \A q \in Calls \ {p} : Undisturbed(q)'
          /\ \A s \in Threads \ {t} : Counted(s)'
      BY <2>1, <2>7, <2>8, <2>11, <3>1, OthersUndisturbed
    <3>3. ~Looking(t)
      BY <2>6, <3>1 DEF Looking, At
    <3>4. m = n
      BY <2>1, <3>1, <3>3 DEF SupportInv, Counted
    <3>5. Counted(t)'
      BY <2>1, <2>3, <2>8, <2>11, <3>4 DEF Counted
    <3> QED
      BY <2>1, <2>9, <3>2, <3>5
  <2> QED
    BY <2>11, <2>9, <2>10 DEF SupportInv
<1>5. CASE \E p \in Calls : reply(p, TRUE) \/ detailForStaff(p)
  <2> PICK p \in Calls : reply(p, TRUE) \/ detailForStaff(p)
    BY <1>5
  <2> PICK t : t = call[p].who
    OBVIOUS
  <2>1. /\ t \in Threads /\ thread[t].status # "NONE" /\ call[p].op \in {"reply", "detail"}
        /\ UNCHANGED <<thread, written, crossing>>
    BY DEF reply, detailForStaff, SupportInv, WriteSound, At
  <2>2. PICK op, who :
          /\ op \in {"idle", "detail", "seen"} /\ call' = [call EXCEPT ![p] = [op |-> op, saw |-> "none", who |-> who]]
          /\ op # "idle" => who = t
    BY DEF reply, detailForStaff, Go, End, Idle
  <2>3. /\ CallTable' /\ call'[p] = [op |-> op, saw |-> "none", who |-> who]
        /\ \A q \in Calls \ {p} : call'[q] = call[q]
    BY <1>0, <2>2 DEF CallTable
  <2>4. \/ UNCHANGED unseen /\ op = "detail"
        \/ /\ unseen' = [unseen EXCEPT ![t] = 0] /\ op # "detail"
           /\ op = "idle" => ~(thread[t].unread > 0)
    <3>1. CASE reply(p, TRUE)
      <4>1. call' = [call EXCEPT ![p] = [op |-> "detail", saw |-> "none", who |-> t]] /\ UNCHANGED unseen
        BY <3>1 DEF reply, Go
      <4>2. op = "detail"
        BY <1>0, <2>3, <4>1 DEF CallTable
      <4> QED
        BY <4>1, <4>2
    <3>2. CASE detailForStaff(p)
      <4>1. /\ unseen' = [unseen EXCEPT ![t] = 0]
            /\ \/ thread[t].unread > 0 /\ call' = [call EXCEPT ![p] = [op |-> "seen", saw |-> "none", who |-> t]]
               \/ ~(thread[t].unread > 0) /\ call' = [call EXCEPT ![p] = Idle]
        BY <3>2 DEF detailForStaff, Go, End
      <4>2. \/ thread[t].unread > 0 /\ call'[p].op = "seen"
            \/ ~(thread[t].unread > 0) /\ call'[p].op = "idle"
        BY <1>0, <4>1 DEF CallTable, Idle
      <4> QED
        BY <2>3, <4>1, <4>2
    <3> QED
      BY <3>1, <3>2
  <2>5. \A q \in Calls : WriteSound(q)'
    BY <2>1, <2>2, <2>3 DEF SupportInv, WriteSound, At
  <2>6. SupportTypes' /\ Numbered'
    BY <1>0, <2>1, <2>3, <2>4 DEF SupportInv, SupportTypes, Numbered, Created
  <2>7. unseen'[t] = 0 \/ unseen' = unseen
    BY <1>0, <2>1, <2>4 DEF SupportTypes
  <2>8. \A s \in Threads \ {t} : unseen'[s] = unseen[s]
    BY <1>0, <2>4 DEF SupportTypes
  <2>9. ~crossing => \A q \in Calls \ {p} : Undisturbed(q)'
    <3>1. \A q \in Calls \ {p} : WriteSound(q) /\ call'[q] = call[q]
      BY <2>3 DEF SupportInv
    <3> QED
      BY <2>1, <2>7, <2>8, <3>1 DEF SupportInv, WriteSound, Undisturbed, At
  <2>10. Undisturbed(p)'
    BY <1>0, <2>1, <2>2, <2>3, <2>4 DEF Undisturbed, At, SupportTypes
  <2>11. ASSUME ~crossing, NEW s \in Threads PROVE Counted(s)'
    <3>1. Counted(s) /\ thread'[s] = thread[s]
      BY <2>1, <2>11 DEF SupportInv
    <3>2. CASE s # t
      <4>1. Looking(s) => Looking(s)'
        BY <2>1, <2>3, <3>2 DEF Looking
      <4> QED
        BY <2>8, <3>1, <3>2, <4>1 DEF Counted
    <3>3. CASE s = t /\ op # "idle"
      <4>1. Looking(s)'
        BY <2>2, <2>3, <3>3 DEF Looking
      <4> QED
        BY <3>1, <4>1 DEF Counted
    <3>4. CASE s = t /\ op = "idle"
      <4>1. thread[t].unread = 0
        BY <1>0, <2>1, <2>4, <3>4 DEF SupportTypes, ThreadRows
      <4>2. unseen'[t] = 0
        BY <1>0, <2>1, <2>4, <3>4 DEF SupportTypes
      <4> QED
        BY <3>1, <3>4, <4>1, <4>2 DEF Counted
    <3> QED
      BY <2>2, <3>2, <3>3, <3>4
  <2> QED
    BY <2>1, <2>5, <2>6, <2>9, <2>10, <2>11 DEF SupportInv
<1>6. CASE \E p \in Calls : reply(p, FALSE) \/ (\E status \in TicketStatuses : updateTicket(p, status)) \/ markSeen(p)
  <2> PICK p \in Calls : reply(p, FALSE) \/ (\E status \in TicketStatuses : updateTicket(p, status)) \/ markSeen(p)
    BY <1>6
  <2> PICK t : t = call[p].who
    OBVIOUS
  <2>1. /\ t \in Threads /\ thread[t].status # "NONE" /\ call[p].op \in {"reply", "update", "seen"}
        /\ UNCHANGED <<unseen, written>> /\ Crossed(p, t)
    BY DEF reply, updateTicket, markSeen, SupportInv, WriteSound, At
  <2>2. thread[t] \in ThreadRows /\ unseen[t] \in Nat
    BY <1>0, <2>1 DEF SupportTypes
  <2>3. PICK op \in {"idle", "detail"} : \E who :
          /\ call' = [call EXCEPT ![p] = [op |-> op, saw |-> "none", who |-> who]]
          /\ op = "detail" => who = t
          /\ op = "idle" <=> At(p, "seen")
    BY DEF reply, updateTicket, markSeen, Go, End, Idle, At
  <2> PICK who :
          /\ call' = [call EXCEPT ![p] = [op |-> op, saw |-> "none", who |-> who]]
          /\ op = "detail" => who = t
          /\ op = "idle" <=> At(p, "seen")
    BY <2>3
  <2>4. /\ CallTable' /\ call'[p] = [op |-> op, saw |-> "none", who |-> who]
        /\ \A q \in Calls \ {p} : call'[q] = call[q]
        /\ written' \in [Threads -> Nat]
    BY <1>0, <2>1, <2>3 DEF CallTable, SupportTypes, Crossed
  <2>5. PICK row \in ThreadRows :
          /\ thread' = [thread EXCEPT ![t] = row]
          /\ row.status # "NONE" /\ row.reference = thread[t].reference
          /\ op = "idle" => row.unread = 0
          /\ Undisturbed(p) /\ Counted(t) =>
               /\ row.status = "RESOLVED" => row.resolved
               /\ row.status = "CLOSED" => row.closed
    <3>1. CASE reply(p, FALSE)
      <4> DEFINE s0 == IF call[p].saw = "OPEN" THEN "PENDING" ELSE call[p].saw
                 row == [thread[t] EXCEPT !.status = s0, !.unread = 0]
      <4>1. s0 \in TicketStatuses /\ (Undisturbed(p) => s0 \in {thread[t].status, "PENDING"})
        BY <3>1 DEF reply, SupportInv, WriteSound, Undisturbed, At, TicketStatuses
      <4>2. thread' = [thread EXCEPT ![t] = row]
        BY <1>0, <2>1, <3>1 DEF reply, SupportTypes
      <4> HIDE DEF s0
      <4>3. row \in ThreadRows /\ row.status = s0 /\ row.reference = thread[t].reference /\ row.unread = 0
            /\ row.resolved = thread[t].resolved /\ row.closed = thread[t].closed
        BY <2>2, <4>1 DEF ThreadRows
      <4> HIDE DEF row
      <4>4. s0 # "NONE" /\ (Undisturbed(p) /\ Counted(t) =>
               /\ s0 = "RESOLVED" => thread[t].resolved
               /\ s0 = "CLOSED" => thread[t].closed)
        BY <4>1 DEF Counted, TicketStatuses
      <4> QED
        BY <4>2, <4>3, <4>4
    <3>2. CASE \E status \in TicketStatuses : updateTicket(p, status)
      <4> PICK status \in TicketStatuses : updateTicket(p, status)
        BY <3>2
      <4> DEFINE b == (thread[t].resolved \/ status = "RESOLVED") /\ status # "OPEN"
                 d == (thread[t].closed \/ status = "CLOSED") /\ status # "OPEN"
                 row == [thread[t] EXCEPT !.status = status, !.resolved = b, !.closed = d]
      <4>1. thread' = [thread EXCEPT ![t] = row]
        BY <1>0, <2>1 DEF updateTicket, SupportTypes
      <4>2. b \in BOOLEAN /\ d \in BOOLEAN /\ (status = "RESOLVED" => b) /\ (status = "CLOSED" => d)
        OBVIOUS
      <4>3. op # "idle"
        BY <2>3 DEF updateTicket, At
      <4> HIDE DEF b, d
      <4>4. row \in ThreadRows /\ row.status = status /\ row.reference = thread[t].reference /\ row.resolved = b /\ row.closed = d
        BY <2>2, <4>2 DEF ThreadRows
      <4> HIDE DEF row
      <4> QED
        BY <4>1, <4>2, <4>3, <4>4 DEF TicketStatuses
    <3>3. CASE markSeen(p)
      <4> DEFINE row == [thread[t] EXCEPT !.unread = 0]
      <4>1. thread' = [thread EXCEPT ![t] = row]
        BY <1>0, <2>1, <3>3 DEF markSeen, SupportTypes
      <4>2. row \in ThreadRows /\ row.status = thread[t].status /\ row.reference = thread[t].reference /\ row.unread = 0
            /\ row.resolved = thread[t].resolved /\ row.closed = thread[t].closed
        BY <2>2 DEF ThreadRows
      <4> HIDE DEF row
      <4> QED
        BY <2>1, <4>1, <4>2 DEF Counted
    <3> QED
      BY <3>1, <3>2, <3>3
  <2>6. unseen' \in [Threads -> Nat]
    BY <1>0, <2>1 DEF SupportTypes
  <2>7. /\ SupportTypes' /\ Numbered'
        /\ thread'[t] = row /\ \A s \in Threads \ {t} : thread'[s] = thread[s]
        /\ \A q \in Calls \ {p} : WriteSound(q)'
    <3>1. TicketWrite(p, t, row)
      BY <2>1, <2>4, <2>5, <2>6 DEF TicketWrite
    <3> QED
      BY <2>1, <3>1, TicketStep
  <2>8. WriteSound(p)' /\ Undisturbed(p)'
    BY <2>1, <2>3, <2>4, <2>5, <2>7 DEF WriteSound, Undisturbed, At
  <2>9. ASSUME ~crossing' PROVE (\A q \in Calls : Undisturbed(q)') /\ (\A s \in Threads : Counted(s)')
    <3>1. ~crossing /\ \A q \in Calls \ {p} : call[q].op = "idle" \/ call[q].who # t
      BY <2>1, <2>9, AloneOrCrossed
    <3>2. call[p].who = t
      OBVIOUS
    <3>3. /\ \A q \in Calls \ {p} : Undisturbed(q)'
          /\ \A s \in Threads \ {t} : Counted(s)'
      BY <2>1, <2>4, <2>7, <3>1, <3>2, OthersUndisturbed
    <3>4. op = "detail" => Looking(t)'
      BY <2>3, <2>4 DEF Looking
    <3>5. Undisturbed(p) /\ Counted(t)
      BY <2>1, <3>1 DEF SupportInv
    <3>6. op = "idle" => unseen[t] = 0
      BY <2>3, <3>2, <3>5 DEF Undisturbed
    <3>7. Counted(t)'
      BY <2>1, <2>3, <2>5, <2>7, <3>4, <3>5, <3>6 DEF Counted
    <3> QED
      BY <2>1, <2>8, <3>3, <3>7
  <2> QED
    BY <2>7, <2>8, <2>9 DEF SupportInv
<1>7. ASSUME SupportNext PROVE \E p \in Calls :
        \/ \E t \in Threads, op \in {"createTicket", "message", "reply", "update", "detail"} :
             IF op = "createTicket" THEN BeginCreateTicket(p, t) ELSE BeginWrite(p, t, op)
        \/ createTicket(p) \/ addStudentMessage(p) \/ reply(p, TRUE) \/ detailForStaff(p)
        \/ reply(p, FALSE) \/ (\E status \in TicketStatuses : updateTicket(p, status)) \/ markSeen(p)
  BY <1>7 DEF SupportNext
<1> QED
  BY <1>1, <1>2, <1>3, <1>4, <1>5, <1>6, <1>7

\* Requests on one ticket that overlap apart, a message staff have not been shown is counted,
\* and a ticket that stands resolved or closed is marked so; no two tickets have one reference
\* (addStudentMessage, reply, updateTicket, detailForStaff, nextReference).
THEOREM UnseenStaysUnread == SupportSpec => []UnseenIsUnread
<1>1. SupportInv => UnseenIsUnread
  <2> SUFFICES ASSUME SupportInv PROVE UnseenIsUnread
    OBVIOUS
  <2>1. \A t, s \in Created : thread[t].reference = thread[s].reference => t = s
    BY DEF SupportInv, Numbered
  <2>2. ASSUME ~crossing, NEW t \in Created
        PROVE  /\ (\A p \in Calls : At(p, "idle")) => thread[t].unread = unseen[t]
               /\ thread[t].status = "RESOLVED" => thread[t].resolved
               /\ thread[t].status = "CLOSED" => thread[t].closed
    BY <2>2 DEF SupportInv, Counted, Looking, At, Created
  <2> QED
    BY <2>1, <2>2 DEF UnseenIsUnread
<1> QED
  BY <1>1, SupportInitHolds, SupportNextKeeps, PTL DEF SupportSpec

-----------------------------------------------------------------------------
\* Accounts.

AccountRows ==
  [role : Roles \cup {"NONE"}, status : AccountStatuses, deleted : BOOLEAN, password : Nat,
   failed : Nat, lock : {"none", "on", "over"}]

AccountTypes ==
  /\ CallTable
  /\ account \in [Numbers -> AccountRows]
  /\ openAs = [n \in Numbers |-> openAs[n]]
  /\ guesses \in [Numbers -> Nat]

\* What a request in flight is about, and what it has read.
AccountCall(p) ==
  /\ call[p].op \in {"idle", "create", "login", "failed", "establish", "manage", "changePassword"}
  /\ call[p].op # "idle" => call[p].who \in Numbers
  /\ At(p, "create") => call[p].saw \in Roles
  /\ call[p].op \in {"login", "failed"} => call[p].saw \in AccountRows
  /\ At(p, "establish") => call[p].saw \in Nat

\* As long as no two requests on one account overlapped, what a sign-in works on is the account.
StillTrue(p) ==
  /\ call[p].op \notin {"idle", "create"} => account[call[p].who].role # "NONE"
  /\ call[p].op \in {"login", "failed"} =>
       call[p].saw = account[call[p].who] /\ account[call[p].who].lock # "on" /\ ~account[call[p].who].deleted
  /\ At(p, "establish") =>
       /\ call[p].saw = account[call[p].who].password
       /\ ~account[call[p].who].deleted /\ account[call[p].who].status \notin {"SUSPENDED", "DISABLED"}

\* The guesses are the failures the row counts, and start again when the lock runs out; sessions
\* are of the account as it is.
Matched(n) ==
  /\ account[n] # NoAccount => account[n].role # "NONE"
  /\ guesses[n] = IF account[n].lock = "over" THEN 0 ELSE account[n].failed
  /\ account[n].lock = "none" => account[n].failed < MaxFailedLogins
  /\ account[n].lock = "on" => account[n].failed = MaxFailedLogins
  /\ openAs[n] # {} => /\ openAs[n] = {account[n].password}
                       /\ ~account[n].deleted /\ account[n].status \notin {"SUSPENDED", "DISABLED"}
                       /\ account[n].role # "NONE"

AccountInv ==
  /\ AccountTypes
  /\ \A p \in Calls : AccountCall(p)
  /\ ~hasty => (\A p \in Calls : StillTrue(p)) /\ (\A n \in Numbers : Matched(n))

LEMMA AccountInitHolds == HandlersInit /\ AccountInit => AccountInv
<1> SUFFICES ASSUME HandlersInit, AccountInit PROVE AccountInv
  OBVIOUS
<1>1. \A p \in Calls : call[p].op = "idle"
  BY DEF HandlersInit, Idle
<1>2. AccountTypes
  BY DEF HandlersInit, AccountInit, AccountTypes, CallTable, AccountRows, NoAccount, Roles, AccountStatuses
<1>3. \A p \in Calls : AccountCall(p) /\ StillTrue(p)
  BY <1>1 DEF AccountCall, StillTrue, At
<1>4. \A n \in Numbers : Matched(n)
  BY AccountAssumption DEF AccountInit, Matched, NoAccount
<1> QED
  BY <1>2, <1>3, <1>4 DEF AccountInv

\* A step of p that writes account n, or nothing: what it has to show is about p and n.
AccountWrite(p, n, row) ==
  /\ account' = [account EXCEPT ![n] = row] /\ guesses' \in [Numbers -> Nat]
  /\ openAs' = [m \in Numbers |-> openAs'[m]]
  /\ \A m \in Numbers \ {n} : guesses'[m] = guesses[m] /\ openAs'[m] = openAs[m]
  /\ CallTable' /\ \A q \in Calls \ {p} : call'[q] = call[q]
  /\ AccountCall(p)'
  /\ ~hasty' => /\ ~hasty
                /\ row = account[n] \/ \A q \in Calls \ {p} : call[q].op = "idle" \/ call[q].who # n
                /\ StillTrue(p)' /\ Matched(n)'

LEMMA AccountStep ==
  ASSUME AccountInv, NEW p \in Calls, NEW n \in Numbers, NEW row \in AccountRows, AccountWrite(p, n, row)
  PROVE  AccountInv'
<1> USE DEF AccountInv, AccountTypes, AccountWrite
<1>1. AccountTypes'
  OBVIOUS
<1>2. \A q \in Calls : AccountCall(q)'
  BY DEF AccountCall, At
<1>3. \A m \in Numbers \ {n} : account'[m] = account[m] /\ guesses'[m] = guesses[m] /\ openAs'[m] = openAs[m]
  OBVIOUS
<1>4. ASSUME ~hasty', NEW q \in Calls \ {p} PROVE StillTrue(q)'
  <2>1. StillTrue(q) /\ AccountCall(q) /\ call'[q] = call[q]
    BY <1>4
  <2>2. call[q].op = "idle" \/ account'[call[q].who] = account[call[q].who]
    BY <1>3, <1>4, <2>1 DEF AccountCall
  <2> QED
    BY <2>1, <2>2 DEF StillTrue, At, AccountCall
<1>5. ~hasty' => \A m \in Numbers \ {n} : Matched(m)'
  BY <1>3 DEF Matched
<1> QED
  BY <1>1, <1>2, <1>4, <1>5

\* A write with nobody else at the account, or else a crossing.
LEMMA WriteAlone ==
  ASSUME NEW p \in Calls, NEW n, WriteRow(p, n)
  PROVE  ~hasty' => ~hasty /\ \A q \in Calls \ {p} : call[q].op = "idle" \/ call[q].who # n
BY DEF WriteRow, OthersAt

\* What administration writes: sessions end, or are still those of the account; the failures
\* start again, or stand.
Managed(p, n, row, open, g) ==
  /\ call[p].op \in {"manage", "changePassword"} /\ n = call[p].who /\ WriteRow(p, n) /\ End(p)
  /\ account' = [account EXCEPT ![n] = row] /\ openAs' = [openAs EXCEPT ![n] = open]
  /\ guesses' = [guesses EXCEPT ![n] = g]
  /\ row \in AccountRows /\ row.role = account[n].role
  /\ \/ open = {}
     \/ /\ open = openAs[n] /\ row.password = account[n].password
        /\ row.deleted = account[n].deleted /\ row.status \notin {"SUSPENDED", "DISABLED"}
  /\ \/ row.lock = account[n].lock /\ row.failed = account[n].failed /\ g = guesses[n]
     \/ row.lock = "none" /\ row.failed = 0 /\ g = 0

LEMMA AccountNextKeeps == AccountInv /\ [AccountNext]_<<call, accountVars>> => AccountInv'
<1> SUFFICES ASSUME AccountInv, [AccountNext]_<<call, accountVars>> PROVE AccountInv'
  OBVIOUS
<1>0. AccountTypes /\ CallTable /\ \A p \in Calls : AccountCall(p)
  BY DEF AccountInv, AccountTypes
<1>1. CASE UNCHANGED <<call, accountVars>>
  <2>1. AccountTypes' /\ \A p \in Calls : AccountCall(p)'
    BY <1>0, <1>1 DEF AccountTypes, CallTable, AccountCall, At, accountVars
  <2>2. ~hasty => (\A p \in Calls : StillTrue(p)') /\ (\A n \in Numbers : Matched(n)')
    BY <1>1 DEF AccountInv, StillTrue, Matched, At, accountVars
  <2> QED
    BY <1>1, <2>1, <2>2 DEF AccountInv, accountVars
<1>2. CASE \E n \in Numbers : LockRunsOut(n)
  <2> PICK n \in Numbers : LockRunsOut(n)
    BY <1>2
  <2> DEFINE row == [account[n] EXCEPT !.lock = "over"]
  <2>1. account[n] \in AccountRows /\ account[n].lock = "on"
    BY <1>0 DEF AccountTypes, LockRunsOut
  <2>2. /\ row \in AccountRows /\ row.lock = "over" /\ row.password = account[n].password
        /\ row.deleted = account[n].deleted /\ row.status = account[n].status /\ row.role = account[n].role
    BY <2>1 DEF AccountRows
  <2>3. /\ account' = [account EXCEPT ![n] = row] /\ guesses' = [guesses EXCEPT ![n] = 0]
        /\ UNCHANGED <<openAs, hasty, call>>
    BY <1>0 DEF LockRunsOut, AccountTypes
  <2>4. account[n] # NoAccount
    BY <2>1 DEF NoAccount
  <2> HIDE DEF row
  <2>5. /\ account'[n] = row /\ guesses'[n] = 0
        /\ \A m \in Numbers \ {n} : account'[m] = account[m] /\ guesses'[m] = guesses[m]
    BY <1>0, <2>3 DEF AccountTypes
  <2>6. AccountTypes'
    BY <1>0, <2>2, <2>3 DEF AccountTypes, CallTable
  <2>7. \A p \in Calls : AccountCall(p)'
    BY <1>0, <2>3 DEF AccountCall, At
  <2>8. ASSUME ~hasty, NEW p \in Calls PROVE StillTrue(p)'
    BY <1>0, <2>1, <2>2, <2>3, <2>5, <2>8 DEF AccountInv, StillTrue, AccountCall, At
  <2>9. ASSUME ~hasty, NEW m \in Numbers PROVE Matched(m)'
    BY <2>2, <2>3, <2>4, <2>5, <2>9 DEF AccountInv, Matched
  <2> QED
    BY <2>3, <2>6, <2>7, <2>8, <2>9 DEF AccountInv
<1>3. CASE \E p, n, op, saw :
             /\ p \in Calls /\ n \in Numbers /\ op \in {"create", "login", "failed", "manage", "changePassword"}
             /\ Start(p, op, saw, n)
             /\ op = "create" => saw \in Roles
             /\ op # "create" => account[n] # NoAccount
             /\ op \in {"login", "failed"} => saw = account[n] /\ ~account[n].deleted /\ account[n].lock # "on"
  <2> PICK p, n, op, saw :
             /\ p \in Calls /\ n \in Numbers /\ op \in {"create", "login", "failed", "manage", "changePassword"}
             /\ Start(p, op, saw, n)
             /\ op = "create" => saw \in Roles
             /\ op # "create" => account[n] # NoAccount
             /\ op \in {"login", "failed"} => saw = account[n] /\ ~account[n].deleted /\ account[n].lock # "on"
    BY <1>3
  <2>1. /\ UNCHANGED accountVars
        /\ call' = [call EXCEPT ![p] = [op |-> op, saw |-> saw, who |-> n]]
    BY DEF Start, Go
  <2>2. /\ call'[p] = [op |-> op, saw |-> saw, who |-> n] /\ CallTable'
        /\ \A q \in Calls \ {p} : call'[q] = call[q]
    BY <1>0, <2>1 DEF CallTable
  <2>3. account[n] \in AccountRows
    BY <1>0 DEF AccountTypes
  <2>4. AccountTypes'
    BY <1>0, <2>1, <2>2 DEF AccountTypes, accountVars
  <2>5. \A q \in Calls : AccountCall(q)'
    BY <1>0, <2>2, <2>3 DEF AccountCall, At
  <2>6. ~hasty => \A q \in Calls : StillTrue(q)'
    BY <2>1, <2>2 DEF AccountInv, StillTrue, Matched, At, accountVars
  <2>7. ~hasty => \A m \in Numbers : Matched(m)'
    BY <2>1 DEF AccountInv, Matched, accountVars
  <2> QED
    BY <2>1, <2>4, <2>5, <2>6, <2>7 DEF AccountInv, accountVars
<1>4. CASE \E p \in Calls : createAccount(p)
  <2> PICK p \in Calls : createAccount(p)
    BY <1>4
  <2> PICK n, role : n = call[p].who /\ role = call[p].saw
    OBVIOUS
  <2> PICK free \in BOOLEAN : free <=> account[n] = NoAccount
    OBVIOUS
  <2> PICK row, open, g : row = (IF free THEN NewAccount(role) ELSE account[n]) /\ open = openAs[n] /\ g = guesses[n]
    OBVIOUS
  <2>1. n \in Numbers /\ role \in Roles
    BY <1>0 DEF createAccount, AccountCall, At
  <2>2. account[n] \in AccountRows /\ g \in Nat
    BY <1>0, <2>1 DEF AccountTypes
  <2>3. row \in AccountRows
    BY <2>1, <2>2 DEF NewAccount, NoAccount, AccountRows, Roles, AccountStatuses
  <2>4. free => row.password = 0 /\ row.failed = 0 /\ row.lock = "none" /\ ~row.deleted /\ row.status = "ACTIVE"
                /\ row.role # "NONE"
    BY <2>1 DEF NewAccount, NoAccount, Roles
  <2>5. /\ account' = [account EXCEPT ![n] = row]
        /\ guesses' = [guesses EXCEPT ![n] = g] /\ openAs' = [openAs EXCEPT ![n] = open]
    BY <1>0, <2>1 DEF createAccount, AccountTypes
  <2>6. WriteRow(p, n)
    BY DEF createAccount
  <2>7. PICK rec \in {Idle, [op |-> "establish", saw |-> 0, who |-> n]} :
          call' = [call EXCEPT ![p] = rec] /\ (rec # Idle => free)
    BY DEF createAccount, Go, End
  <2>8. call'[p] = rec /\ CallTable' /\ \A q \in Calls \ {p} : call'[q] = call[q]
    BY <1>0, <2>7 DEF CallTable
  <2>9. AccountCall(p)'
    BY <2>1, <2>7, <2>8 DEF AccountCall, At, Idle
  <2>10. account'[n] = row /\ guesses'[n] = g /\ openAs'[n] = open
    BY <1>0, <2>1, <2>5 DEF AccountTypes
  <2>11. ~hasty => Matched(n)
    BY <2>1 DEF AccountInv
  <2>12. free => NoAccount.lock = "none" /\ NoAccount.failed = 0 /\ NoAccount.role = "NONE"
    BY DEF NoAccount
  <2>13. ~free => row = account[n]
    OBVIOUS
  <2>15. ~hasty' => StillTrue(p)'
    BY <2>1, <2>4, <2>7, <2>8, <2>10 DEF StillTrue, At, Idle
  <2>16. ~hasty' => Matched(n)'
    BY <2>4, <2>6, <2>10, <2>11, <2>12, <2>13, WriteAlone, AccountAssumption DEF Matched
  <2>17. /\ guesses' \in [Numbers -> Nat] /\ openAs' = [m \in Numbers |-> openAs'[m]]
         /\ \A m \in Numbers \ {n} : guesses'[m] = guesses[m] /\ openAs'[m] = openAs[m]
    BY <1>0, <2>2, <2>5 DEF AccountTypes
  <2>18. ~hasty' => ~hasty /\ \A q \in Calls \ {p} : call[q].op = "idle" \/ call[q].who # n
    BY <2>6, WriteAlone
  <2>19. AccountWrite(p, n, row)
    BY <2>5, <2>8, <2>9, <2>15, <2>16, <2>17, <2>18 DEF AccountWrite
  <2> QED
    BY <2>1, <2>3, <2>19, AccountStep
<1>5. CASE \E p \in Calls : registerFailedAttempt(p)
  <2> PICK p \in Calls : registerFailedAttempt(p)
    BY <1>5
  <2> PICK n, saw, next : n = call[p].who /\ saw = call[p].saw /\ next = NextCount(saw)
    OBVIOUS
  <2> PICK lock : lock = IF next >= MaxFailedLogins THEN "on" ELSE "none"
    OBVIOUS
  <2> PICK row : row = [account[n] EXCEPT !.failed = next, !.lock = lock]
    OBVIOUS
  <2>1. n \in Numbers /\ saw \in AccountRows
    BY <1>0 DEF registerFailedAttempt, AccountCall, At
  <2>2. account[n] \in AccountRows /\ guesses[n] \in Nat /\ next \in Nat
    BY <1>0, <2>1 DEF AccountTypes, NextCount, AccountRows
  <2>3. /\ row \in AccountRows /\ row.failed = next /\ row.lock = lock /\ row.password = account[n].password
        /\ row.deleted = account[n].deleted /\ row.status = account[n].status /\ row.role = account[n].role
    BY <2>2 DEF AccountRows
  <2>4. account' = [account EXCEPT ![n] = row] /\ guesses' = [guesses EXCEPT ![n] = @ + 1] /\ UNCHANGED openAs
    BY <1>0, <2>1 DEF registerFailedAttempt, AccountTypes
  <2>5. WriteRow(p, n) /\ call' = [call EXCEPT ![p] = Idle] /\ At(p, "failed")
    BY DEF registerFailedAttempt, End
  <2>6. call'[p] = Idle /\ CallTable' /\ \A q \in Calls \ {p} : call'[q] = call[q]
    BY <1>0, <2>5 DEF CallTable
  <2>7. AccountCall(p)' /\ StillTrue(p)'
    BY <2>6 DEF AccountCall, StillTrue, At, Idle
  <2>8. account'[n] = row /\ guesses'[n] = guesses[n] + 1 /\ openAs'[n] = openAs[n]
    BY <1>0, <2>1, <2>4 DEF AccountTypes
  <2>9. ASSUME ~hasty' PROVE Matched(n)'
    <3>1. ~hasty
      BY <2>5, <2>9, WriteAlone
    <3>2. saw = account[n] /\ account[n].lock # "on" /\ Matched(n)
      BY <2>1, <2>5, <3>1 DEF AccountInv, StillTrue, At
    <3>3. next = guesses[n] + 1 /\ next <= MaxFailedLogins
      BY <2>2, <3>2, AccountAssumption DEF Matched, NextCount, AccountRows
    <3>4. row.role # "NONE"
      BY <2>1, <2>3, <2>5, <3>1 DEF AccountInv, StillTrue, At
    <3> QED
      BY <2>2, <2>3, <2>8, <3>2, <3>3, <3>4, AccountAssumption DEF Matched
  <2>10. AccountWrite(p, n, row)
    <3>1. guesses' \in [Numbers -> Nat] /\ \A m \in Numbers \ {n} : guesses'[m] = guesses[m]
      <4> PICK next1 \in Nat : next1 = guesses[n] + 1
        BY <2>2
      <4> QED
        BY <1>0, <2>4 DEF AccountTypes
    <3> QED
      BY <1>0, <2>4, <2>5, <2>6, <2>7, <2>9, <3>1, WriteAlone DEF AccountWrite, AccountTypes
  <2> QED
    BY <2>1, <2>3, <2>10, AccountStep
<1>6. CASE \E p \in Calls, rehash \in BOOLEAN : login(p, rehash)
  <2> PICK p \in Calls, rehash \in BOOLEAN : login(p, rehash)
    BY <1>6
  <2> PICK n, saw : n = call[p].who /\ saw = call[p].saw
    OBVIOUS
  <2>1. n \in Numbers /\ saw \in AccountRows
    BY <1>0 DEF login, AccountCall, At
  <2>2. account[n] \in AccountRows /\ saw.password \in Nat
    BY <1>0, <2>1 DEF AccountTypes, AccountRows
  <2>3. CASE saw.status # "ACTIVE"
    <3>1. UNCHANGED accountVars /\ call' = [call EXCEPT ![p] = Idle]
      BY <2>3 DEF login, End, accountVars
    <3>2. call'[p] = Idle /\ CallTable' /\ \A q \in Calls \ {p} : call'[q] = call[q]
      BY <1>0, <3>1 DEF CallTable
    <3>3. AccountTypes' /\ \A q \in Calls : AccountCall(q)'
      BY <1>0, <3>1, <3>2 DEF AccountTypes, AccountCall, At, Idle, accountVars
    <3>4. ~hasty => (\A q \in Calls : StillTrue(q)') /\ (\A m \in Numbers : Matched(m)')
      BY <3>1, <3>2 DEF AccountInv, StillTrue, Matched, At, Idle, accountVars
    <3> QED
      BY <3>1, <3>3, <3>4 DEF AccountInv, accountVars
  <2>4. CASE saw.status = "ACTIVE"
    <3> PICK pass : pass = IF rehash THEN saw.password ELSE account[n].password
      OBVIOUS
    <3> PICK row : row = [account[n] EXCEPT !.failed = 0, !.lock = "none", !.password = pass]
      OBVIOUS
    <3>1. pass \in Nat
      BY <2>2 DEF AccountRows
    <3>2. /\ row \in AccountRows /\ row.failed = 0 /\ row.lock = "none" /\ row.password = pass
          /\ row.deleted = account[n].deleted /\ row.status = account[n].status /\ row.role = account[n].role
      BY <2>2, <3>1 DEF AccountRows
    <3>3. account' = [account EXCEPT ![n] = row] /\ guesses' = [guesses EXCEPT ![n] = 0] /\ UNCHANGED openAs
      BY <1>0, <2>1, <2>4 DEF login, AccountTypes
    <3>4. WriteRow(p, n) /\ call' = [call EXCEPT ![p] = [op |-> "establish", saw |-> saw.password, who |-> n]]
      BY <2>4 DEF login, Go
    <3>5. /\ call'[p] = [op |-> "establish", saw |-> saw.password, who |-> n] /\ CallTable'
          /\ \A q \in Calls \ {p} : call'[q] = call[q]
      BY <1>0, <3>4 DEF CallTable
    <3>6. AccountCall(p)'
      BY <2>1, <2>2, <3>5 DEF AccountCall, At
    <3>7. account'[n] = row /\ guesses'[n] = 0 /\ openAs'[n] = openAs[n]
      BY <1>0, <2>1, <3>3 DEF AccountTypes
    <3>8. ASSUME ~hasty' PROVE StillTrue(p)' /\ Matched(n)'
      <4>1. ~hasty
        BY <3>4, <3>8, WriteAlone
      <4>2. saw = account[n] /\ ~account[n].deleted /\ Matched(n) /\ account[n].role # "NONE"
        BY <2>1, <4>1 DEF AccountInv, StillTrue, login, At
      <4>3. pass = account[n].password /\ row.status = "ACTIVE"
        BY <2>4, <3>2, <4>2
      <4>4. StillTrue(p)'
        <5>1. call'[p].op = "establish" /\ call'[p].saw = row.password /\ call'[p].who = n
          BY <3>2, <3>5, <4>2, <4>3
        <5>2. row.role # "NONE" /\ ~row.deleted /\ row.status = "ACTIVE"
          BY <3>2, <4>2, <4>3
        <5> QED
          BY <3>7, <5>1, <5>2 DEF StillTrue, At
      <4> QED
        BY <3>2, <3>7, <4>2, <4>3, <4>4, AccountAssumption DEF Matched
    <3>9. AccountWrite(p, n, row)
      <4>1. guesses' \in [Numbers -> Nat] /\ \A m \in Numbers \ {n} : guesses'[m] = guesses[m]
        BY <1>0, <3>3 DEF AccountTypes
      <4> QED
        BY <1>0, <3>3, <3>4, <3>5, <3>6, <3>8, <4>1, WriteAlone DEF AccountWrite, AccountTypes
    <3> QED
      BY <2>1, <3>2, <3>9, AccountStep
  <2> QED
    BY <2>3, <2>4
<1>7. CASE \E p \in Calls : establishSession(p)
  <2> PICK p \in Calls : establishSession(p)
    BY <1>7
  <2> PICK n, row : n = call[p].who /\ row = account[n]
    OBVIOUS
  <2>1. n \in Numbers /\ At(p, "establish")
    BY <1>0 DEF establishSession, AccountCall, At
  <2>2. row \in AccountRows
    BY <1>0, <2>1 DEF AccountTypes
  <2>3. /\ openAs' = [openAs EXCEPT ![n] = @ \cup {call[p].saw}] /\ UNCHANGED <<account, guesses>>
        /\ WriteRow(p, n) /\ call' = [call EXCEPT ![p] = Idle]
    BY DEF establishSession, End
  <2>4. call'[p] = Idle /\ CallTable' /\ \A q \in Calls \ {p} : call'[q] = call[q]
    BY <1>0, <2>3 DEF CallTable
  <2>5. AccountCall(p)' /\ StillTrue(p)'
    BY <2>4 DEF AccountCall, StillTrue, At, Idle
  <2>6. openAs'[n] = openAs[n] \cup {call[p].saw}
    BY <1>0, <2>1, <2>3 DEF AccountTypes
  <2>7. ASSUME ~hasty' PROVE Matched(n)'
    <3>1. ~hasty
      BY <2>3, <2>7, WriteAlone
    <3>2. /\ call[p].saw = account[n].password /\ Matched(n) /\ ~account[n].deleted
          /\ account[n].status \notin {"SUSPENDED", "DISABLED"} /\ account[n].role # "NONE"
      BY <2>1, <3>1 DEF AccountInv, StillTrue, At
    <3> QED
      BY <2>3, <2>6, <3>2 DEF Matched
  <2>8. AccountWrite(p, n, row)
    <3>1. openAs' = [m \in Numbers |-> openAs'[m]] /\ \A m \in Numbers \ {n} : openAs'[m] = openAs[m]
      BY <1>0, <2>3 DEF AccountTypes
    <3>2. account' = [account EXCEPT ![n] = row]
      BY <1>0, <2>1, <2>3 DEF AccountTypes
    <3> QED
      BY <1>0, <2>3, <2>4, <2>5, <2>7, <3>1, <3>2, WriteAlone DEF AccountWrite, AccountTypes
  <2> QED
    BY <2>1, <2>2, <2>8, AccountStep
<1>8. ASSUME NEW p \in Calls, NEW n, NEW row, NEW open, NEW g, Managed(p, n, row, open, g)
      PROVE  AccountInv'
  <2>1. n \in Numbers /\ account[n] \in AccountRows /\ guesses[n] \in Nat
    BY <1>0, <1>8 DEF AccountTypes, AccountCall, Managed
  <2>2. row \in AccountRows /\ g \in Nat
    BY <1>8, <2>1 DEF Managed
  <2>3. call'[p] = Idle /\ CallTable' /\ \A q \in Calls \ {p} : call'[q] = call[q]
    BY <1>0, <1>8 DEF Managed, End, CallTable
  <2>4. AccountCall(p)' /\ StillTrue(p)'
    BY <2>3 DEF AccountCall, StillTrue, At, Idle
  <2>5. account'[n] = row /\ guesses'[n] = g /\ openAs'[n] = open
    BY <1>0, <1>8, <2>1 DEF AccountTypes, Managed
  <2>6. ASSUME ~hasty' PROVE Matched(n)'
    <3>1. ~hasty
      BY <1>8, <2>6, WriteAlone DEF Managed
    <3>2. Matched(n) /\ account[n].role # "NONE"
      BY <1>8, <2>1, <3>1 DEF AccountInv, StillTrue, Managed
    <3> QED
      BY <1>8, <2>1, <2>5, <3>2, AccountAssumption DEF Matched, Managed
  <2>7. /\ guesses' \in [Numbers -> Nat] /\ openAs' = [m \in Numbers |-> openAs'[m]]
        /\ \A m \in Numbers \ {n} : guesses'[m] = guesses[m] /\ openAs'[m] = openAs[m]
    BY <1>0, <1>8, <2>2 DEF AccountTypes, Managed
  <2>8. AccountWrite(p, n, row)
    BY <1>8, <2>3, <2>4, <2>6, <2>7, WriteAlone DEF AccountWrite, Managed
  <2> QED
    BY <2>1, <2>2, <2>8, AccountStep
<1>9. ASSUME NEW p \in Calls, NEW status \in AccountStatuses, updateByAdmin(p, status) PROVE AccountInv'
  <2> PICK n, row, open, g :
        /\ n = call[p].who /\ row = [account[n] EXCEPT !.status = status] /\ g = guesses[n]
        /\ open = IF status \in {"SUSPENDED", "DISABLED"} THEN {} ELSE openAs[n]
    OBVIOUS
  <2>1. n \in Numbers /\ account[n] \in AccountRows
    BY <1>0, <1>9 DEF AccountTypes, AccountCall, updateByAdmin, At
  <2>2. /\ row \in AccountRows /\ row.role = account[n].role /\ row.password = account[n].password
        /\ row.deleted = account[n].deleted /\ row.status = status
        /\ row.lock = account[n].lock /\ row.failed = account[n].failed
    BY <2>1 DEF AccountRows
  <2>3. account' = [account EXCEPT ![n] = row]
    BY <1>0, <1>9 DEF updateByAdmin, AccountTypes
  <2>4. openAs' = [openAs EXCEPT ![n] = open]
    BY <1>0, <1>9, <2>1 DEF updateByAdmin, AccountTypes
  <2>5. guesses' = [guesses EXCEPT ![n] = g]
    BY <1>0, <1>9, <2>1 DEF updateByAdmin, AccountTypes
  <2>6. Managed(p, n, row, open, g)
    BY <1>9, <2>1, <2>2, <2>3, <2>4, <2>5 DEF updateByAdmin, Managed, At
  <2> QED
    BY <1>8, <2>6
<1>10. ASSUME NEW p \in Calls, resetPasswordByAdmin(p) PROVE AccountInv'
  <2> PICK n, pass : n = call[p].who /\ pass = account[n].password + 1
    OBVIOUS
  <2> PICK row : row = [account[n] EXCEPT !.password = pass, !.failed = 0, !.lock = "none"]
    OBVIOUS
  <2>1. n \in Numbers /\ account[n] \in AccountRows
    BY <1>0, <1>10 DEF AccountTypes, AccountCall, resetPasswordByAdmin, At
  <2>2. pass \in Nat
    BY <2>1 DEF AccountRows
  <2>3. row \in AccountRows /\ row.role = account[n].role /\ row.lock = "none" /\ row.failed = 0
    BY <2>1, <2>2 DEF AccountRows
  <2>4. account' = [account EXCEPT ![n] = row]
    BY <1>0, <1>10 DEF resetPasswordByAdmin, AccountTypes
  <2>5. Managed(p, n, row, {}, 0)
    BY <1>10, <2>1, <2>3, <2>4 DEF resetPasswordByAdmin, Managed, At
  <2> QED
    BY <1>8, <2>5
<1>11. ASSUME NEW p \in Calls, softDelete(p) PROVE AccountInv'
  <2> PICK n, row, g :
        n = call[p].who /\ row = [account[n] EXCEPT !.deleted = TRUE, !.status = "DISABLED"] /\ g = guesses[n]
    OBVIOUS
  <2>1. n \in Numbers /\ account[n] \in AccountRows
    BY <1>0, <1>11 DEF AccountTypes, AccountCall, softDelete, At
  <2>2. /\ row \in AccountRows /\ row.role = account[n].role
        /\ row.lock = account[n].lock /\ row.failed = account[n].failed
    BY <2>1 DEF AccountRows, AccountStatuses
  <2>3. account' = [account EXCEPT ![n] = row] /\ guesses' = [guesses EXCEPT ![n] = g]
    BY <1>0, <1>11, <2>1 DEF softDelete, AccountTypes
  <2>4. Managed(p, n, row, {}, g)
    BY <1>11, <2>1, <2>2, <2>3 DEF softDelete, Managed, At
  <2> QED
    BY <1>8, <2>4
<1>12. ASSUME NEW p \in Calls, changePassword(p) PROVE AccountInv'
  <2> PICK n, pass, g : n = call[p].who /\ pass = account[n].password + 1 /\ g = guesses[n]
    OBVIOUS
  <2> PICK row : row = [account[n] EXCEPT !.password = pass]
    OBVIOUS
  <2>1. n \in Numbers /\ account[n] \in AccountRows
    BY <1>0, <1>12 DEF AccountTypes, AccountCall, changePassword, At
  <2>2. pass \in Nat
    BY <2>1 DEF AccountRows
  <2>3. /\ row \in AccountRows /\ row.role = account[n].role
        /\ row.lock = account[n].lock /\ row.failed = account[n].failed
    BY <2>1, <2>2 DEF AccountRows
  <2>4. account' = [account EXCEPT ![n] = row] /\ guesses' = [guesses EXCEPT ![n] = g]
    BY <1>0, <1>12, <2>1 DEF changePassword, AccountTypes
  <2>5. Managed(p, n, row, {}, g)
    BY <1>12, <2>1, <2>3, <2>4 DEF changePassword, Managed, At
  <2> QED
    BY <1>8, <2>5
<1>13. ASSUME NEW p \in Calls, NEW n \in Numbers, NEW role \in Roles, NEW actor, BeginCreate(p, n, role, actor)
       PROVE  AccountInv'
  BY <1>3, <1>13 DEF BeginCreate
<1>14. ASSUME NEW p \in Calls, NEW n \in Numbers, NEW right \in BOOLEAN, verifyCredentials(p, n, right)
       PROVE  AccountInv'
  <2> PICK op \in {"login", "failed"} : Start(p, op, account[n], n)
    BY <1>14 DEF verifyCredentials
  <2> QED
    BY <1>3, <1>14 DEF verifyCredentials
<1>15. ASSUME NEW p \in Calls, NEW n \in Numbers, NEW actor, BeginManage(p, n, actor) PROVE AccountInv'
  BY <1>3, <1>15 DEF BeginManage
<1>16. ASSUME NEW p \in Calls, NEW n \in Numbers, BeginChangePassword(p, n) PROVE AccountInv'
  <2>1. account[n] # NoAccount
    BY <1>16 DEF BeginChangePassword, NoAccount
  <2> QED
    BY <1>3, <1>16, <2>1 DEF BeginChangePassword
<1>17. CASE AccountNext
  BY <1>2, <1>4, <1>5, <1>6, <1>7, <1>9, <1>10, <1>11, <1>12, <1>13, <1>14, <1>15, <1>16, <1>17 DEF AccountNext
<1> QED
  BY <1>1, <1>17

\* Requests that overlap apart, an account takes no more wrong passwords than its limit before
\* it is locked, and has no session left from before it was suspended, deleted or given a new
\* password (registerFailedAttempt, updateByAdmin, resetPasswordByAdmin, changePassword).
THEOREM SessionsStayCurrent == AccountSpec => []SessionsMatchAccount
<1>1. AccountInv => SessionsMatchAccount
  <2> SUFFICES ASSUME AccountInv, ~hasty, NEW n \in Numbers
               PROVE  /\ guesses[n] <= MaxFailedLogins
                      /\ openAs[n] # {} => authenticate(n)
                      /\ authenticate(n) => openAs[n] = {account[n].password}
    BY DEF SessionsMatchAccount
  <2>1. Matched(n) /\ account[n] \in AccountRows
    BY DEF AccountInv, AccountTypes
  <2>2. account[n].lock \in {"none", "on", "over"} /\ account[n].failed \in Nat
    BY <2>1 DEF AccountRows
  <2> QED
    BY <2>1, <2>2, AccountAssumption DEF Matched, authenticate
<1> QED
  BY <1>1, AccountInitHolds, AccountNextKeeps, PTL DEF AccountSpec

-----------------------------------------------------------------------------
\* Transfers.

Places == [state : {"NONE", "ACTIVE", "REVOKED"}, covers : BOOLEAN, live : BOOLEAN]

OpenIn(rows) == {k \in Offers : rows[k].state = "ACTIVE"}
WholeIn(rows) == {k \in Offers : rows[k].state = "ACTIVE" /\ rows[k].covers}

\* The student stands on the ladder of the place they are filed at.
FiledWell(f) == f.rung \in Rungs(f.at, f.department) /\ (Targets(f.at) # {} => f.department \in Targets(f.at))

\* What a transfer has checked; of the source only while nothing has changed under it.
Checked(p) ==
  LET from == call[p].who[1]  to == call[p].who[2] IN
  /\ from \in Offers /\ to \in Offers /\ from # to /\ call[p].saw.part \in BOOLEAN
  /\ FiledWell([at |-> to, department |-> call[p].saw.department, rung |-> call[p].saw.rung])
  /\ ~changed /\ ~call[p].saw.part => place[from].covers

TransferInv ==
  /\ CallTable
  /\ place \in [Offers -> Places] /\ granted \in [any : Nat, whole : Nat]
  /\ \A p \in Calls : call[p].op \in {"idle", "transfer"} /\ (At(p, "transfer") => Checked(p))
  /\ FiledWell(filed)
  /\ Cardinality(OpenIn(place)) <= granted.any
  /\ ~changed => Cardinality(WholeIn(place)) <= granted.whole

\* One course more, or one for another.
LEMMA OneMore ==
  ASSUME NEW A, IsFiniteSet(A), NEW x, NEW B, B \subseteq A \cup {x}
  PROVE  Cardinality(B) <= Cardinality(A) + 1
<1>1. IsFiniteSet(A \cup {x}) /\ Cardinality(A \cup {x}) <= Cardinality(A) + 1
  <2>1. Cardinality(A) \in Nat
    BY FS_CardinalityType
  <2>2. IsFiniteSet(A \cup {x}) /\ (Cardinality(A \cup {x}) = Cardinality(A) \/ Cardinality(A \cup {x}) = Cardinality(A) + 1)
    BY FS_AddElement
  <2> QED
    BY <2>1, <2>2
<1>2. Cardinality(B) <= Cardinality(A \cup {x})
  BY <1>1, FS_Subset
<1> QED
  BY <1>1, <1>2, FS_CardinalityType, FS_Subset

LEMMA OneForAnother ==
  ASSUME NEW A, IsFiniteSet(A), NEW x, NEW y \in A, NEW B, B \subseteq (A \ {y}) \cup {x}
  PROVE  Cardinality(B) <= Cardinality(A)
<1>1. IsFiniteSet(A \ {y}) /\ Cardinality(A \ {y}) = Cardinality(A) - 1
  BY FS_RemoveElement
<1>2. Cardinality(B) <= Cardinality(A \ {y}) + 1
  BY <1>1, OneMore
<1> QED
  BY <1>1, <1>2, FS_CardinalityType, FS_Subset

LEMMA PlacesFinite ==
  ASSUME NEW rows
  PROVE  /\ IsFiniteSet(OpenIn(rows)) /\ Cardinality(OpenIn(rows)) \in Nat
         /\ IsFiniteSet(WholeIn(rows)) /\ Cardinality(WholeIn(rows)) \in Nat
BY TransferAssumption, FS_Subset, FS_CardinalityType DEF OpenIn, WholeIn

LEMMA TransferInitHolds == HandlersInit /\ TransferInit => TransferInv
<1> SUFFICES ASSUME HandlersInit, TransferInit PROVE TransferInv
  OBVIOUS
<1>1. CallTable /\ \A p \in Calls : call[p].op = "idle"
  BY DEF HandlersInit, Idle, CallTable
<1>2. place \in [Offers -> Places] /\ granted \in [any : Nat, whole : Nat]
  BY DEF TransferInit, NoPlace, Places
<1>3. OpenIn(place) = {} /\ WholeIn(place) = {} /\ granted.any = 0 /\ granted.whole = 0
  BY DEF TransferInit, NoPlace, OpenIn, WholeIn
<1>4. Cardinality({}) = 0
  BY FS_EmptySet
<1>5. FiledWell(filed)
  BY DEF TransferInit, FiledWell
<1> QED
  BY <1>1, <1>2, <1>3, <1>4, <1>5 DEF TransferInv, At

\* A course is opened, closed or lapses: no transfer has been checked against the new row.
LEMMA RowChanges ==
  ASSUME TransferInv, NEW k \in Offers, NEW row \in Places, place' = [place EXCEPT ![k] = row],
         UNCHANGED <<filed, call>>, granted' \in [any : Nat, whole : Nat],
         changed' = (changed \/ InFlight) \/ (UNCHANGED changed /\ row.covers = place[k].covers),
         Cardinality(OpenIn(place')) <= granted'.any,
         ~changed => Cardinality(WholeIn(place')) <= granted'.whole
  PROVE  TransferInv'
<1>1. place' \in [Offers -> Places] /\ place'[k] = row /\ \A j \in Offers \ {k} : place'[j] = place[j]
  BY DEF TransferInv
<1>2. ASSUME NEW p \in Calls, At(p, "transfer") PROVE Checked(p)'
  <2>1. Checked(p) /\ InFlight
    BY <1>2 DEF TransferInv, InFlight
  <2>2. ~changed' => ~changed /\ row.covers = place[k].covers
    BY <2>1
  <2> QED
    BY <1>1, <2>1, <2>2 DEF Checked
<1>3. CallTable' /\ FiledWell(filed)'
  BY DEF TransferInv, CallTable, FiledWell
<1>4. OpenIn(place)' = OpenIn(place') /\ WholeIn(place)' = WholeIn(place')
  BY DEF OpenIn, WholeIn
<1>5. ~changed' => ~changed
  OBVIOUS
<1>6. \A p \in Calls : call'[p].op \in {"idle", "transfer"} /\ (At(p, "transfer")' => Checked(p)')
  BY <1>2 DEF TransferInv, At
<1>7. Cardinality(OpenIn(place)') <= granted'.any /\ (~changed' => Cardinality(WholeIn(place)') <= granted'.whole)
  BY <1>4, <1>5
<1> QED
  BY <1>1, <1>3, <1>6, <1>7 DEF TransferInv

LEMMA TransferNextKeeps == TransferInv /\ [TransferNext]_<<call, transferVars>> => TransferInv'
<1> SUFFICES ASSUME TransferInv, [TransferNext]_<<call, transferVars>> PROVE TransferInv'
  OBVIOUS
<1>0. CallTable /\ place \in [Offers -> Places] /\ granted.any \in Nat /\ granted.whole \in Nat
  BY DEF TransferInv
<1>1. CASE UNCHANGED <<call, transferVars>>
  BY <1>1 DEF TransferInv, CallTable, At, Checked, FiledWell, OpenIn, WholeIn, transferVars
<1>2. ASSUME NEW k \in Offers, NEW part \in BOOLEAN, Enrol(k, part) PROVE TransferInv'
  <2> PICK row : row = [state |-> "ACTIVE", covers |-> ~part, live |-> TRUE]
    OBVIOUS
  <2>1. /\ row \in Places /\ place' = [place EXCEPT ![k] = row]
        /\ UNCHANGED <<filed, call>> /\ changed' = (changed \/ InFlight)
    BY <1>2 DEF Enrol, Places
  <2>2. OpenIn(place') \subseteq OpenIn(place) \cup {k}
    BY <1>0, <2>1 DEF OpenIn
  <2>3. WholeIn(place') \subseteq WholeIn(place) \cup (IF part THEN {} ELSE {k})
    BY <1>0, <2>1 DEF WholeIn
  <2>4. granted'.any = granted.any + 1 /\ granted'.whole = granted.whole + IF part THEN 0 ELSE 1
    BY <1>2 DEF Enrol
  <2>5. granted' \in [any : Nat, whole : Nat]
    BY <1>0, <1>2 DEF Enrol
  <2>6. Cardinality(OpenIn(place')) <= Cardinality(OpenIn(place)) + 1
    BY <2>2, PlacesFinite, OneMore
  <2>7. Cardinality(WholeIn(place')) <= Cardinality(WholeIn(place)) + IF part THEN 0 ELSE 1
    <3>1. CASE part
      <4>1. Cardinality(WholeIn(place')) <= Cardinality(WholeIn(place))
        BY <2>3, <3>1, PlacesFinite, FS_Subset
      <4> QED
        BY <3>1, <4>1, PlacesFinite
    <3>2. CASE ~part
      BY <2>3, <3>2, PlacesFinite, OneMore
    <3> QED
      BY <3>1, <3>2
  <2>8. Cardinality(OpenIn(place')) <= granted'.any /\ (~changed => Cardinality(WholeIn(place')) <= granted'.whole)
    <3>1. /\ Cardinality(OpenIn(place)) \in Nat /\ Cardinality(OpenIn(place')) \in Nat
          /\ Cardinality(WholeIn(place)) \in Nat /\ Cardinality(WholeIn(place')) \in Nat
      BY PlacesFinite
    <3>2. Cardinality(OpenIn(place)) <= granted.any /\ (~changed => Cardinality(WholeIn(place)) <= granted.whole)
      BY DEF TransferInv
    <3> QED
      BY <1>0, <2>4, <2>6, <2>7, <3>1, <3>2
  <2> QED
    BY <2>1, <2>5, <2>8, RowChanges
<1>3. ASSUME NEW k \in Offers, PlaceLapses(k) PROVE TransferInv'
  <2> PICK row : row = [place[k] EXCEPT !.live = FALSE]
    OBVIOUS
  <2>1. /\ row \in Places /\ row.covers = place[k].covers /\ row.state = place[k].state
        /\ place' = [place EXCEPT ![k] = row]
    BY <1>0, <1>3 DEF PlaceLapses, Places
  <2>2. UNCHANGED <<filed, call, granted, changed>>
    BY <1>3 DEF PlaceLapses
  <2>3. OpenIn(place') = OpenIn(place) /\ WholeIn(place') = WholeIn(place)
    BY <1>0, <2>1 DEF OpenIn, WholeIn
  <2>4. /\ granted \in [any : Nat, whole : Nat] /\ Cardinality(OpenIn(place)) <= granted.any
        /\ ~changed => Cardinality(WholeIn(place)) <= granted.whole
    BY DEF TransferInv
  <2> QED
    BY <2>1, <2>2, <2>3, <2>4, RowChanges
<1>4. ASSUME NEW k \in Offers, Withdraw(k) PROVE TransferInv'
  <2> PICK row : row = [state |-> "REVOKED", covers |-> FALSE, live |-> place[k].live]
    OBVIOUS
  <2>1. row \in Places /\ place' = [place EXCEPT ![k] = row] /\ row.state = "REVOKED"
    BY <1>0, <1>4 DEF Withdraw, Withdrawn, Places
  <2>2. UNCHANGED <<filed, call, granted>> /\ changed' = (changed \/ InFlight)
    BY <1>4 DEF Withdraw
  <2>3. OpenIn(place') \subseteq OpenIn(place) /\ WholeIn(place') \subseteq WholeIn(place)
    BY <1>0, <2>1 DEF OpenIn, WholeIn
  <2>4. /\ granted \in [any : Nat, whole : Nat] /\ Cardinality(OpenIn(place)) <= granted.any
        /\ ~changed => Cardinality(WholeIn(place)) <= granted.whole
    BY DEF TransferInv
  <2>5. /\ Cardinality(OpenIn(place')) <= Cardinality(OpenIn(place))
        /\ Cardinality(WholeIn(place')) <= Cardinality(WholeIn(place))
    BY <2>3, PlacesFinite, FS_Subset
  <2>6. Cardinality(OpenIn(place')) <= granted'.any /\ (~changed => Cardinality(WholeIn(place')) <= granted'.whole)
    <3>1. /\ Cardinality(OpenIn(place)) \in Nat /\ Cardinality(OpenIn(place')) \in Nat
          /\ Cardinality(WholeIn(place)) \in Nat /\ Cardinality(WholeIn(place')) \in Nat
      BY PlacesFinite
    <3> QED
      BY <1>0, <2>2, <2>4, <2>5, <3>1
  <2> QED
    BY <2>1, <2>2, <2>4, <2>6, RowChanges
<1>5. ASSUME NEW p \in Calls, NEW from \in Offers, NEW to \in Offers, NEW part \in BOOLEAN,
             BeginTransfer(p, from, to, part)
      PROVE  TransferInv'
  <2>1. PICK d, r :
          /\ d \in DepartmentsFor(to) /\ RungFits(to, d, r)
          /\ Go(p, "transfer", [part |-> part, department |-> d, rung |-> r], <<from, to>>)
    BY <1>5 DEF BeginTransfer
  <2>2. UNCHANGED transferVars /\ from # to /\ (~part => place[from].covers)
    BY <1>5 DEF BeginTransfer, ScopeGiven
  <2> PICK rec : rec = [op |-> "transfer", saw |-> [part |-> part, department |-> d, rung |-> r], who |-> <<from, to>>]
    OBVIOUS
  <2>3. call' = [call EXCEPT ![p] = rec]
    BY <2>1 DEF Go
  <2>4. call'[p] = rec /\ CallTable' /\ \A q \in Calls \ {p} : call'[q] = call[q]
    BY <1>0, <2>3 DEF CallTable
  <2>5. Targets(to) # {} => d \in Targets(to)
    BY <2>1 DEF DepartmentsFor
  <2>6. rec.who[1] = from /\ rec.who[2] = to /\ rec.saw.part = part /\ rec.saw.department = d /\ rec.saw.rung = r
    OBVIOUS
  <2>7. Checked(p)'
    BY <2>1, <2>2, <2>4, <2>5, <2>6 DEF Checked, FiledWell, RungFits, transferVars
  <2>8. \A q \in Calls : call'[q].op \in {"idle", "transfer"} /\ (At(q, "transfer")' => Checked(q)')
    BY <2>2, <2>4, <2>7 DEF TransferInv, At, Checked, FiledWell, transferVars
  <2> QED
    BY <2>2, <2>4, <2>8 DEF TransferInv, FiledWell, OpenIn, WholeIn, transferVars
<1>6. ASSUME NEW p \in Calls, transfer(p) PROVE TransferInv'
  <2> PICK from, to, t : from = call[p].who[1] /\ to = call[p].who[2] /\ t = call[p].saw
    OBVIOUS
  <2>1. /\ At(p, "transfer") /\ from \in Offers /\ to \in Offers /\ from # to /\ t.part \in BOOLEAN
        /\ FiledWell([at |-> to, department |-> t.department, rung |-> t.rung])
        /\ ~changed /\ ~t.part => place[from].covers
    BY <1>6 DEF transfer, TransferInv, Checked
  <2>2. call' = [call EXCEPT ![p] = Idle] /\ UNCHANGED granted
    BY <1>6 DEF transfer, End
  <2>3. call'[p] = Idle /\ CallTable' /\ \A q \in Calls \ {p} : call'[q] = call[q]
    BY <1>0, <2>2 DEF CallTable
  <2>4. CASE place[from].state # "ACTIVE"
    <3>1. UNCHANGED <<place, filed, changed>>
      BY <1>6, <2>4 DEF transfer, SourceStillActive
    <3> QED
      BY <2>2, <2>3, <3>1 DEF TransferInv, At, Checked, FiledWell, OpenIn, WholeIn, Idle
  <2>5. CASE place[from].state = "ACTIVE"
    <3> PICK whole \in BOOLEAN : whole <=> WholeAfterMove(to, t.part)
      OBVIOUS
    <3> PICK gone, come :
          /\ gone = [state |-> "REVOKED", covers |-> FALSE, live |-> place[from].live]
          /\ come = [state |-> "ACTIVE", covers |-> whole, live |-> TRUE]
      OBVIOUS
    <3>1. gone \in Places /\ come \in Places
      BY <1>0, <2>1 DEF Places
    <3>2. place' = [place EXCEPT ![from] = gone, ![to] = come]
      BY <1>0, <1>6, <2>1, <2>5 DEF transfer, SourceStillActive, Withdrawn, WholeAfterMove
    <3>3. /\ filed' = [at |-> to, department |-> t.department, rung |-> t.rung]
          /\ changed' = (changed \/ \E q \in Calls \ {p} : At(q, "transfer"))
      BY <1>6, <2>5 DEF transfer, SourceStillActive
    <3>4. /\ place' \in [Offers -> Places] /\ place'[from] = gone /\ place'[to] = come
          /\ \A k \in Offers \ {from, to} : place'[k] = place[k]
      BY <1>0, <2>1, <3>1, <3>2
    <3>5. \A q \in Calls : call'[q].op \in {"idle", "transfer"} /\ (At(q, "transfer")' => Checked(q)')
      <4> SUFFICES ASSUME NEW q \in Calls \ {p}, At(q, "transfer") PROVE Checked(q)'
        BY <2>3 DEF TransferInv, At, Idle
      <4>1. changed' /\ Checked(q) /\ call'[q] = call[q]
        BY <2>3, <3>3 DEF TransferInv
      <4> QED
        BY <4>1 DEF Checked
    <3>6. Cardinality(OpenIn(place')) <= Cardinality(OpenIn(place))
      <4>1. from \in OpenIn(place) /\ OpenIn(place') \subseteq (OpenIn(place) \ {from}) \cup {to}
        BY <2>1, <2>5, <3>4 DEF OpenIn
      <4>2. IsFiniteSet(OpenIn(place))
        BY PlacesFinite
      <4> QED
        BY <4>1, <4>2, OneForAnother
    <3>7. ~changed => Cardinality(WholeIn(place')) <= Cardinality(WholeIn(place))
      <4>1. CASE t.part /\ ~changed
        <5>1. WholeIn(place') \subseteq WholeIn(place)
          BY <2>1, <3>4, <4>1 DEF WholeIn, WholeAfterMove
        <5> QED
          BY <5>1, PlacesFinite, FS_Subset
      <4>2. CASE ~t.part /\ ~changed
        <5>1. from \in WholeIn(place) /\ WholeIn(place') \subseteq (WholeIn(place) \ {from}) \cup {to}
          BY <2>1, <2>5, <3>4, <4>2 DEF WholeIn
        <5>2. IsFiniteSet(WholeIn(place))
          BY PlacesFinite
        <5>3. Cardinality(WholeIn(place')) <= Cardinality(WholeIn(place))
          BY <5>1, <5>2, OneForAnother
        <5> QED
          BY <5>3
      <4> QED
        BY <2>1, <4>1, <4>2
    <3>8. /\ Cardinality(OpenIn(place')) <= granted.any
          /\ ~changed => Cardinality(WholeIn(place')) <= granted.whole
      <4>1. /\ Cardinality(OpenIn(place)) \in Nat /\ Cardinality(OpenIn(place')) \in Nat
            /\ Cardinality(WholeIn(place)) \in Nat /\ Cardinality(WholeIn(place')) \in Nat
        BY PlacesFinite
      <4>2. Cardinality(OpenIn(place)) <= granted.any /\ (~changed => Cardinality(WholeIn(place)) <= granted.whole)
        BY DEF TransferInv
      <4> QED
        BY <1>0, <3>6, <3>7, <4>1, <4>2
    <3>9. OpenIn(place)' = OpenIn(place') /\ WholeIn(place)' = WholeIn(place') /\ (~changed' => ~changed)
      BY <3>3 DEF OpenIn, WholeIn
    <3>10. FiledWell(filed)'
      BY <2>1, <3>3 DEF FiledWell
    <3>11. Cardinality(OpenIn(place)') <= granted'.any /\ (~changed' => Cardinality(WholeIn(place)') <= granted'.whole)
      BY <2>2, <3>8, <3>9
    <3>12. granted' \in [any : Nat, whole : Nat]
      BY <2>2 DEF TransferInv
    <3> QED
      BY <2>3, <3>4, <3>5, <3>10, <3>11, <3>12 DEF TransferInv
  <2> QED
    BY <2>4, <2>5
<1>7. CASE TransferNext
  BY <1>2, <1>3, <1>4, <1>5, <1>6, <1>7 DEF TransferNext
<1> QED
  BY <1>1, <1>7

\* A transfer moves access and never makes any: whoever transfers the student, at once and to
\* wherever, no more courses are open than were paid for or granted, no more whole ones unless
\* the source changed under a transfer, and the student is filed where the course opens to them
\* (EnrollmentsService.transfer).
THEOREM TransfersCreateNothing == TransferSpec => []TransferCreatesNothing
<1>1. TransferInv => TransferCreatesNothing
  BY DEF TransferInv, TransferCreatesNothing, OpenIn, WholeIn, FiledWell, RungFits, isTargetedToStudent
<1> QED
  BY <1>1, TransferInitHolds, TransferNextKeeps, PTL DEF TransferSpec

-----------------------------------------------------------------------------
\* Announcements.

AnnRows ==
  [status : {"NONE", "DRAFT", "SCHEDULED", "SENDING", "SENT", "CANCELLED"}, next : Times \cup {Never}, count : Nat,
   frequency : {"ONCE", "DAILY"}, timed : BOOLEAN]

ClaimRows == [at : Times, started : Times, finished : BOOLEAN]

Claimed(t) == ClaimOf(t) # {}

\* The worker that will fan t out.
Owns(p, t) == call[p].op \in {"claimed", "sending"} /\ call[p].who = t

\* What a worker in flight has read, and that the occurrence it sends is claimed.
AnnCall(p) ==
  /\ call[p].op \in {"idle", "due", "update", "cancel", "publish", "published", "dispatch", "claimed",
                     "sending", "fanned", "failed", "advance", "recover"}
  /\ call[p].op \notin {"idle", "due"} => call[p].saw \in AnnRows /\ call[p].saw.frequency = ann.frequency
  /\ call[p].op \in {"published", "dispatch", "claimed", "sending", "fanned", "failed", "advance", "recover"} =>
       call[p].who \in Times
  /\ call[p].op \in {"claimed", "sending", "fanned", "failed", "advance"} => Claimed(call[p].who)

\* A claimed occurrence has one owner at most, and none once it was fanned out.
ClaimInv ==
  /\ CallTable /\ clock \in Times /\ ann \in AnnRows /\ fanouts \in [Times -> Nat] /\ claims \subseteq ClaimRows
  /\ ann.status = "NONE" => claims = {} /\ \A p \in Calls : At(p, "idle")
  /\ \A p \in Calls : AnnCall(p)
  /\ \A p, q \in Calls, t \in Times : Owns(p, t) /\ Owns(q, t) => p = q
  /\ \A t \in Times : fanouts[t] <= 1 /\ (fanouts[t] > 0 => Claimed(t) /\ \A p \in Calls : ~Owns(p, t))

LEMMA AnnInitHolds == HandlersInit /\ AnnInit => ClaimInv
<1> SUFFICES ASSUME HandlersInit, AnnInit PROVE ClaimInv
  OBVIOUS
<1>1. CallTable /\ \A p \in Calls : call[p].op = "idle"
  BY DEF HandlersInit, Idle, CallTable
<1>2. clock \in Times /\ ann \in AnnRows /\ fanouts \in [Times -> Nat] /\ claims = {} /\ \A t \in Times : fanouts[t] = 0
  BY AnnouncementAssumption DEF AnnInit, NoAnnouncement, AnnRows, Times, Never
<1> QED
  BY <1>1, <1>2 DEF ClaimInv, At, AnnCall, Owns

\* The next occurrence is one, or none at all; a one-off that was sent has none.
LEMMA NextOccurrence ==
  ASSUME NEW a, NEW after
  PROVE  /\ nextOccurrence(a, after) \in Times \cup {Never}
         /\ a.frequency = "ONCE" /\ a.count > 0 => nextOccurrence(a, after) = Never
<1> PICK ts : ts = {t \in Times : t > after /\ t % Period = 0}
  OBVIOUS
<1>1. ts \in SUBSET Nat
  BY DEF Times
<1>2. ts # {} => Min(ts) \in Times
  BY <1>1, LeastIsMember
<1> QED
  BY <1>2 DEF nextOccurrence

\* A row that is advanced keeps what it is; a one-off is done with.
LEMMA AdvanceRow ==
  ASSUME ann \in AnnRows, NEW a \in AnnRows
  PROVE  /\ Advanced(a) \in AnnRows /\ Advanced(a).frequency = ann.frequency
         /\ Advanced(a).status \in {"SCHEDULED", "SENT"}
         /\ a.frequency = "ONCE" => Advanced(a).next = Never /\ Advanced(a).status = "SENT"
<1> PICK b : b = [a EXCEPT !.count = @ + 1]
  OBVIOUS
<1>1. b \in AnnRows /\ b.count > 0 /\ b.frequency = a.frequency
  BY DEF AnnRows
<1> PICK next : next = IF a.timed THEN nextOccurrence(b, clock) ELSE Never
  OBVIOUS
<1>2. next \in Times \cup {Never} /\ (a.frequency = "ONCE" => next = Never)
  BY <1>1, NextOccurrence
<1> PICK status : status = IF next # Never THEN "SCHEDULED" ELSE "SENT"
  OBVIOUS
<1>3. advance(a, clock) = [b EXCEPT !.next = next, !.status = status]
  BY DEF advance
<1>4. advance(a, clock).count = b.count /\ advance(a, clock).next = next /\ advance(a, clock).status = status
  BY <1>1, <1>3 DEF AnnRows
<1>5. Advanced(a) = [ann EXCEPT !.count = b.count, !.next = next, !.status = status]
  BY <1>4 DEF Advanced
<1>6. b.count \in Nat
  BY <1>1 DEF AnnRows
<1> QED
  BY <1>2, <1>5, <1>6 DEF AnnRows

\* A step of worker p: what it has to show is about p and what it writes.
ClaimWrite(p, rec) ==
  /\ call' = [call EXCEPT ![p] = rec]
  /\ clock' \in Times /\ ann' \in AnnRows /\ ann'.frequency = ann.frequency /\ ann'.status # "NONE"
  /\ claims' \subseteq ClaimRows /\ \A t \in Times : Claimed(t) => Claimed(t)'
  /\ fanouts' \in [Times -> Nat]
  /\ AnnCall(p)'
  /\ \A t \in Times : Owns(p, t)' => Owns(p, t) \/ ~Claimed(t)
  /\ \A t \in Times : fanouts'[t] = fanouts[t] \/ (fanouts'[t] = fanouts[t] + 1 /\ Owns(p, t) /\ ~Owns(p, t)')

LEMMA ClaimStep ==
  ASSUME ClaimInv, NEW p \in Calls, NEW rec, ClaimWrite(p, rec)
  PROVE  ClaimInv'
<1>1. call'[p] = rec /\ CallTable' /\ \A q \in Calls \ {p} : call'[q] = call[q]
  BY DEF ClaimInv, CallTable, ClaimWrite
<1>2. \A q \in Calls \ {p}, t \in Times : Owns(q, t)' <=> Owns(q, t)
  BY <1>1 DEF Owns
<1>3. \A q \in Calls, t \in Times : Owns(q, t) => Claimed(t) /\ fanouts[t] = 0
  BY DEF ClaimInv, AnnCall, Owns
<1>4. \A q \in Calls : AnnCall(q)'
  BY <1>1 DEF ClaimInv, ClaimWrite, AnnCall
<1>5. \A q, r \in Calls, t \in Times : Owns(q, t)' /\ Owns(r, t)' => q = r
  BY <1>2, <1>3 DEF ClaimInv, ClaimWrite
<1>6. ASSUME NEW t \in Times
      PROVE  fanouts'[t] <= 1 /\ (fanouts'[t] > 0 => Claimed(t)' /\ \A q \in Calls : ~Owns(q, t)')
  <2>1. CASE fanouts'[t] = fanouts[t]
    BY <1>2, <2>1 DEF ClaimInv, ClaimWrite
  <2>2. CASE fanouts'[t] = fanouts[t] + 1 /\ Owns(p, t) /\ ~Owns(p, t)'
    BY <1>2, <1>3, <2>2 DEF ClaimInv, ClaimWrite
  <2> QED
    BY <2>1, <2>2 DEF ClaimWrite
<1> QED
  BY <1>1, <1>4, <1>5, <1>6 DEF ClaimInv, ClaimWrite

\* A claim that is finished stays a claim.
LEMMA FinishedKeeps ==
  ASSUME ClaimInv, NEW t \in Times, claims' = Finished(t)
  PROVE  claims' \subseteq ClaimRows /\ \A s \in Times : Claimed(s) => Claimed(s)'
<1>1. ASSUME NEW c \in claims
      PROVE  /\ (IF c.at = t THEN [c EXCEPT !.finished = TRUE] ELSE c) \in ClaimRows
             /\ (IF c.at = t THEN [c EXCEPT !.finished = TRUE] ELSE c).at = c.at
  <2>1. c \in ClaimRows
    BY DEF ClaimInv
  <2> QED
    BY <2>1 DEF ClaimRows
<1> QED
  BY <1>1 DEF Finished, Claimed, ClaimOf

\* A worker that only reads, or stops: it owns what it owned, or nothing.
LEMMA ClaimRead ==
  ASSUME ClaimInv, NEW p \in Calls, NEW rec, call' = [call EXCEPT ![p] = rec],
         UNCHANGED <<clock, ann, claims, fanouts>>, ann.status # "NONE",
         rec = Idle \/ rec.op = "due"
           \/ /\ rec.op \in {"update", "cancel", "publish", "published", "dispatch", "recover"}
              /\ rec.saw \in AnnRows /\ rec.saw.frequency = ann.frequency
              /\ rec.op \in {"published", "dispatch", "recover"} => rec.who \in Times
  PROVE  ClaimInv'
<1>1. call'[p] = rec
  BY DEF ClaimInv, CallTable
<1>2. AnnCall(p)' /\ \A t \in Times : ~Owns(p, t)'
  BY <1>1 DEF AnnCall, Owns, Idle
<1>3. \A t \in Times : Claimed(t)' <=> Claimed(t)
  BY DEF Claimed, ClaimOf
<1>4. ClaimWrite(p, rec)
  BY <1>2, <1>3 DEF ClaimWrite, ClaimInv
<1> QED
  BY <1>4, ClaimStep

\* A worker that writes the row and stops.
LEMMA ClaimEnd ==
  ASSUME ClaimInv, NEW p \in Calls, End(p), UNCHANGED <<clock, fanouts>>,
         ann' \in AnnRows, ann'.frequency = ann.frequency, ann'.status # "NONE",
         UNCHANGED claims \/ \E t \in Times : claims' = Finished(t)
  PROVE  ClaimInv'
<1>1. call'[p] = Idle /\ call' = [call EXCEPT ![p] = Idle]
  BY DEF ClaimInv, CallTable, End
<1>2. AnnCall(p)' /\ \A t \in Times : ~Owns(p, t)'
  BY <1>1 DEF AnnCall, Owns, Idle
<1>3. claims' \subseteq ClaimRows /\ \A t \in Times : Claimed(t) => Claimed(t)'
  <2>1. CASE UNCHANGED claims
    BY <2>1 DEF ClaimInv, Claimed, ClaimOf
  <2>2. ASSUME NEW t \in Times, claims' = Finished(t)
        PROVE  claims' \subseteq ClaimRows /\ \A s \in Times : Claimed(s) => Claimed(s)'
    BY <2>2, FinishedKeeps
  <2> QED
    BY <2>1, <2>2
<1>4. ClaimWrite(p, Idle)
  BY <1>1, <1>2, <1>3 DEF ClaimWrite, ClaimInv
<1> QED
  BY <1>4, ClaimStep

LEMMA ClaimNextKeeps == ClaimInv /\ [AnnNext]_<<call, annVars>> => ClaimInv'
<1> SUFFICES ASSUME ClaimInv, [AnnNext]_<<call, annVars>> PROVE ClaimInv'
  OBVIOUS
<1>0. /\ ann \in AnnRows /\ clock \in Times /\ CallTable
      /\ \A p \in Calls : AnnCall(p) /\ (~At(p, "idle") => ann.status # "NONE")
  BY DEF ClaimInv
<1>1. CASE UNCHANGED <<call, annVars>>
  BY <1>1 DEF ClaimInv, CallTable, At, AnnCall, Owns, Claimed, ClaimOf, annVars
<1>2. CASE Tick
  <2>1. clock' \in Times /\ UNCHANGED <<ann, claims, fanouts, raced, call>>
    BY <1>0, <1>2, AnnouncementAssumption DEF Tick, Times
  <2> QED
    BY <2>1 DEF ClaimInv, CallTable, At, AnnCall, Owns, Claimed, ClaimOf
<1>3. ASSUME NEW f \in {"ONCE", "DAILY"}, NEW timed \in BOOLEAN, create(f, timed) PROVE ClaimInv'
  <2> PICK a : a = [ann EXCEPT !.frequency = f, !.timed = timed]
    OBVIOUS
  <2>1. a \in AnnRows
    BY <1>0 DEF AnnRows
  <2>2. PICK next \in Times \cup {Never}, status \in {"DRAFT", "SCHEDULED"} :
          ann' = [a EXCEPT !.status = status, !.next = next]
    <3>1. CASE timed
      <4>1. nextOccurrence(a, clock) \in Times \cup {Never}
        BY NextOccurrence
      <4> QED
        BY <1>3, <3>1, <4>1 DEF create
    <3>2. CASE ~timed
      <4>1. a.next \in Times \cup {Never} /\ a = [a EXCEPT !.next = a.next]
        BY <2>1 DEF AnnRows
      <4>2. ann' = [a EXCEPT !.status = "DRAFT"] \/ ann' = [a EXCEPT !.status = "SCHEDULED", !.next = clock]
        BY <1>3, <3>2 DEF create
      <4>3. [a EXCEPT !.status = "DRAFT"] = [a EXCEPT !.status = "DRAFT", !.next = a.next]
        BY <2>1 DEF AnnRows
      <4> QED
        BY <1>0, <4>1, <4>2, <4>3
    <3> QED
      BY <3>1, <3>2
  <2>5. ann' \in AnnRows /\ ann'.status # "NONE"
    BY <2>1, <2>2 DEF AnnRows
  <2>3. claims = {} /\ \A p \in Calls : call[p].op = "idle"
    BY <1>3 DEF create, ClaimInv, At
  <2>4. UNCHANGED <<clock, claims, fanouts, raced, call>>
    BY <1>3 DEF create
  <2> QED
    BY <2>3, <2>4, <2>5 DEF ClaimInv, CallTable, AnnCall, Owns, Claimed, ClaimOf
<1>4. ASSUME NEW p \in Calls, BeginUpdate(p) \/ BeginCancel(p) PROVE ClaimInv'
  <2> PICK op \in {"update", "cancel"} : Go(p, op, ann, "none") /\ UNCHANGED annVars /\ ann.status # "NONE"
    BY <1>4 DEF BeginUpdate, BeginCancel
  <2> QED
    BY <1>0, ClaimRead DEF Go, annVars
<1>5. ASSUME NEW p \in Calls, update(p) PROVE ClaimInv'
  <2>2. PICK next \in Times \cup {Never}, status \in {"DRAFT", "SCHEDULED"} :
          ann' = [ann EXCEPT !.status = status, !.next = next]
    BY <1>5, NextOccurrence DEF update
  <2>1. ann' \in AnnRows /\ ann'.frequency = ann.frequency /\ ann'.status # "NONE"
    BY <1>0, <2>2 DEF AnnRows
  <2> QED
    BY <1>5, <2>1, ClaimEnd DEF update
<1>6. ASSUME NEW p \in Calls, cancel(p) PROVE ClaimInv'
  <2>1. ann' \in AnnRows /\ ann'.frequency = ann.frequency /\ ann'.status # "NONE"
    BY <1>0, <1>6 DEF cancel, AnnRows
  <2> QED
    BY <1>6, <2>1, ClaimEnd DEF cancel
<1>7. ASSUME NEW p \in Calls, dispatchDue(p) PROVE ClaimInv'
  BY <1>7, ClaimRead DEF dispatchDue, Go, annVars
<1>8. ASSUME NEW p \in Calls, BeginDispatch(p) PROVE ClaimInv'
  <2>1. ann.status # "NONE"
    BY <1>0, <1>8 DEF BeginDispatch, At
  <2>2. ann.next # Never => ann.next \in Times
    BY <1>0 DEF AnnRows
  <2>3. PICK rec \in {Idle, [op |-> "dispatch", saw |-> ann, who |-> IF ann.next # Never THEN ann.next ELSE clock]} :
          call' = [call EXCEPT ![p] = rec]
    BY <1>8 DEF BeginDispatch, End, Go
  <2> QED
    BY <1>0, <1>8, <2>1, <2>2, <2>3, ClaimRead DEF BeginDispatch, annVars
<1>9. ASSUME NEW p \in Calls, sendNow(p) PROVE ClaimInv'
  <2>1. ann.next # Never => ann.next \in Times
    BY <1>0 DEF AnnRows
  <2> PICK t : t = IF ann.next # Never THEN ann.next ELSE clock
    OBVIOUS
  <2>2. t \in Times /\ Go(p, "dispatch", ann, t) /\ ann.status # "NONE"
    BY <1>0, <1>9, <2>1 DEF sendNow
  <2> QED
    BY <1>0, <1>9, <2>2, ClaimRead DEF sendNow, Go
<1>20. ASSUME NEW p \in Calls, publishLegacy(p) PROVE ClaimInv'
  BY <1>0, <1>20, ClaimRead DEF publishLegacy, Go
<1>21. ASSUME NEW p \in Calls, PinInstant(p) PROVE ClaimInv'
  <2> PICK a : a = call[p].saw
    OBVIOUS
  <2>1. a \in AnnRows /\ a.frequency = ann.frequency /\ ann.status # "NONE"
    BY <1>0, <1>21 DEF PinInstant, At, AnnCall
  <2>2. PublishedAt(a) \subseteq Times
    BY <1>0, <2>1 DEF PublishedAt, ClaimInv, ClaimRows, AnnRows
  <2>3. PICK t \in Times : Go(p, "published", a, t)
    BY <1>21, <2>2 DEF PinInstant
  <2> QED
    BY <1>21, <2>1, <2>3, ClaimRead DEF PinInstant, Go, annVars
<1>22. ASSUME NEW p \in Calls, BeginPublished(p) PROVE ClaimInv'
  <2>1. call[p].who \in Times /\ ann.status # "NONE"
    BY <1>0, <1>22 DEF BeginPublished, At, AnnCall
  <2>2. PICK rec \in {Idle, [op |-> "dispatch", saw |-> ann, who |-> call[p].who]} :
          call' = [call EXCEPT ![p] = rec]
    BY <1>22 DEF BeginPublished, End, Go
  <2> QED
    BY <1>0, <1>22, <2>1, <2>2, ClaimRead DEF BeginPublished, annVars
<1>10. ASSUME NEW p \in Calls, dispatch(p) PROVE ClaimInv'
  <2> PICK t, saw : t = call[p].who /\ saw = call[p].saw
    OBVIOUS
  <2>1. t \in Times /\ saw \in AnnRows /\ saw.frequency = ann.frequency /\ ann.status # "NONE"
    BY <1>0, <1>10 DEF dispatch, At, AnnCall
  <2>2. CASE ClaimOf(t) # {}
    BY <1>10, <2>1, <2>2, ClaimRead DEF dispatch, Go
  <2>3. CASE ClaimOf(t) = {}
    <3> PICK c, rec : /\ c = [at |-> t, started |-> clock, finished |-> FALSE]
                      /\ rec = [op |-> "claimed", saw |-> saw, who |-> t]
      OBVIOUS
    <3>1. claims' = claims \cup {c} /\ call' = [call EXCEPT ![p] = rec] /\ UNCHANGED <<clock, ann, fanouts>>
      BY <1>10, <2>3 DEF dispatch, Go
    <3>2. c \in ClaimRows /\ c.at = t
      BY <1>0, <2>1 DEF ClaimRows
    <3>3. Claimed(t)' /\ \A s \in Times : Claimed(s) => Claimed(s)'
      BY <3>1, <3>2 DEF Claimed, ClaimOf
    <3>4. call'[p] = rec
      BY <1>0, <3>1 DEF CallTable
    <3>5. AnnCall(p)' /\ \A s \in Times : Owns(p, s)' => s = t
      BY <2>1, <3>1, <3>3, <3>4 DEF AnnCall, Owns
    <3>6. ClaimWrite(p, rec)
      BY <1>0, <2>1, <2>3, <3>1, <3>2, <3>3, <3>5 DEF ClaimWrite, ClaimInv, Claimed
    <3> QED
      BY <3>6, ClaimStep
  <2> QED
    BY <2>2, <2>3
<1>11. ASSUME NEW p \in Calls, MarkSending(p) PROVE ClaimInv'
  <2> PICK rec : rec = [op |-> "sending", saw |-> call[p].saw, who |-> call[p].who]
    OBVIOUS
  <2>1. /\ At(p, "claimed") /\ call' = [call EXCEPT ![p] = rec] /\ ann' = [ann EXCEPT !.status = "SENDING"]
        /\ UNCHANGED <<clock, claims, fanouts>>
    BY <1>11 DEF MarkSending, Go
  <2>2. ann' \in AnnRows /\ ann'.frequency = ann.frequency /\ ann'.status # "NONE"
    BY <1>0, <2>1 DEF AnnRows
  <2>3. call'[p] = rec /\ \A t \in Times : Claimed(t)' <=> Claimed(t)
    BY <1>0, <2>1 DEF CallTable, Claimed, ClaimOf
  <2>4. AnnCall(p)' /\ \A t \in Times : Owns(p, t)' <=> Owns(p, t)
    BY <1>0, <2>1, <2>2, <2>3 DEF AnnCall, Owns, At
  <2>5. ClaimWrite(p, rec)
    BY <1>0, <2>1, <2>2, <2>3, <2>4 DEF ClaimWrite, ClaimInv
  <2> QED
    BY <2>5, ClaimStep
<1>12. ASSUME NEW p \in Calls, fanOut(p) PROVE ClaimInv'
  <2>1. PICK next \in {"fanned", "failed"} : Go(p, next, call[p].saw, call[p].who)
    BY <1>12 DEF fanOut
  <2> PICK t, rec : t = call[p].who /\ rec = [op |-> next, saw |-> call[p].saw, who |-> t]
    OBVIOUS
  <2>2. /\ At(p, "sending") /\ call' = [call EXCEPT ![p] = rec] /\ fanouts' = [fanouts EXCEPT ![t] = @ + 1]
        /\ UNCHANGED <<clock, ann, claims, raced>>
    BY <1>12, <2>1 DEF fanOut, Go
  <2>3. t \in Times /\ call'[p] = rec /\ \A s \in Times : Claimed(s)' <=> Claimed(s)
    BY <1>0, <2>2 DEF CallTable, Claimed, ClaimOf, AnnCall, At
  <2>4. AnnCall(p)' /\ Owns(p, t) /\ \A s \in Times : ~Owns(p, s)'
    BY <1>0, <2>2, <2>3 DEF AnnCall, Owns, At
  <2>5. /\ fanouts' \in [Times -> Nat]
        /\ \A s \in Times : fanouts'[s] = fanouts[s] \/ (fanouts'[s] = fanouts[s] + 1 /\ s = t)
    BY <2>2, <2>3 DEF ClaimInv
  <2>6. ann.status # "NONE"
    BY <1>0, <2>2 DEF At
  <2>7. ClaimWrite(p, rec)
    BY <1>0, <2>2, <2>3, <2>4, <2>5, <2>6 DEF ClaimWrite, ClaimInv
  <2> QED
    BY <2>7, ClaimStep
<1>13. ASSUME NEW p \in Calls, FinishDispatch(p) PROVE ClaimInv'
  <2>1. call[p].who \in Times /\ call[p].saw \in AnnRows
    BY <1>0, <1>13 DEF FinishDispatch, At, AnnCall
  <2> QED
    BY <1>0, <1>13, <2>1, AdvanceRow, ClaimEnd DEF FinishDispatch
<1>14. ASSUME NEW p \in Calls, NoteFailure(p) PROVE ClaimInv'
  <2> PICK t, rec : t = call[p].who /\ rec = [op |-> "advance", saw |-> call[p].saw, who |-> t]
    OBVIOUS
  <2>1. /\ At(p, "failed") /\ call' = [call EXCEPT ![p] = rec] /\ claims' = Finished(t)
        /\ UNCHANGED <<clock, ann, fanouts, raced>>
    BY <1>14 DEF NoteFailure, Go
  <2>2. t \in Times /\ call'[p] = rec /\ ann.status # "NONE"
    BY <1>0, <2>1 DEF CallTable, AnnCall, At
  <2>3. claims' \subseteq ClaimRows /\ \A s \in Times : Claimed(s) => Claimed(s)'
    BY <2>1, <2>2, FinishedKeeps
  <2>4. AnnCall(p)' /\ \A s \in Times : ~Owns(p, s)'
    BY <1>0, <2>1, <2>2, <2>3 DEF AnnCall, Owns, At
  <2>5. ClaimWrite(p, rec)
    BY <1>0, <2>1, <2>2, <2>3, <2>4 DEF ClaimWrite, ClaimInv
  <2> QED
    BY <2>5, ClaimStep
<1>15. ASSUME NEW p \in Calls, AdvanceAfterFailure(p) PROVE ClaimInv'
  <2>1. call[p].saw \in AnnRows
    BY <1>0, <1>15 DEF AdvanceAfterFailure, At, AnnCall
  <2> QED
    BY <1>0, <1>15, <2>1, AdvanceRow, ClaimEnd DEF AdvanceAfterFailure
<1>16. ASSUME NEW p \in Calls, recoverAbandonedClaims(p) PROVE ClaimInv'
  <2>1. PICK c \in claims : Go(p, "recover", ann, c.at)
    BY <1>16 DEF recoverAbandonedClaims
  <2>2. c.at \in Times /\ ann.status # "NONE"
    BY DEF ClaimInv, ClaimRows
  <2> QED
    BY <1>0, <1>16, <2>1, <2>2, ClaimRead DEF recoverAbandonedClaims, Go, annVars
<1>17. ASSUME NEW p \in Calls, recoverClaimedOccurrence(p) PROVE ClaimInv'
  <2>1. call[p].saw \in AnnRows /\ ann.status # "NONE"
    BY <1>0, <1>17 DEF recoverClaimedOccurrence, At, AnnCall
  <2>2. ann' \in AnnRows /\ ann'.frequency = ann.frequency /\ ann'.status # "NONE"
    BY <1>0, <1>17, <2>1, AdvanceRow DEF recoverClaimedOccurrence
  <2> QED
    BY <1>17, <2>2, ClaimEnd DEF recoverClaimedOccurrence
<1>18. ASSUME NEW p \in Calls, Dies(p) PROVE ClaimInv'
  <2>1. ann.status # "NONE"
    BY <1>0, <1>18 DEF Dies, At
  <2> QED
    BY <1>18, <2>1, ClaimRead DEF Dies, End, annVars
<1>19. CASE AnnNext
  BY <1>2, <1>3, <1>4, <1>5, <1>6, <1>7, <1>8, <1>9, <1>10, <1>11, <1>12, <1>13, <1>14, <1>15, <1>16,
     <1>17, <1>18, <1>19, <1>20, <1>21, <1>22 DEF AnnNext
<1> QED
  BY <1>1, <1>19

\* The occurrence t of a one-off has been sent, or a worker is about to send it or has just done so.
Sent(t) ==
  fanouts[t] > 0
    \/ \E p \in Calls : call[p].op \in {"sending", "fanned", "failed", "advance"} /\ call[p].who = t

\* From then on nobody can send another: the row says so, and whoever still works is at t.
SentOnce(t) ==
  /\ \A s \in Times : Sent(s) => s = t
  /\ ann.status \in {"SENDING", "SENT"} /\ ann.next \in {t, Never}
  /\ \A p \in Calls : /\ call[p].op \notin {"claimed", "update", "cancel", "publish", "published"}
                      /\ At(p, "due") => ann.status = "SENDING" /\ ann.next = t
                      /\ At(p, "dispatch") => call[p].who = t

\* A one-off under requests that did not cross.
Apart == ann.frequency = "ONCE" /\ ~raced

AtNext(p) ==
  /\ call[p].op \in {"published", "dispatch", "claimed"} => ann.next \in {call[p].who, Never}
  /\ call[p].op = "publish" => ann.next = Never

OnceInv == Apart => (\A p \in Calls : AtNext(p)) /\ (\A t \in Times : Sent(t) => SentOnce(t))

\* A step of p that leaves the row alone and sends nothing new.
OnceRead(p, rec) ==
  /\ call' = [call EXCEPT ![p] = rec] /\ UNCHANGED ann /\ (~raced' => ~raced)
  /\ \A t \in Times : Sent(t)' => Sent(t)
  /\ Apart' => /\ rec.op \in {"published", "dispatch", "claimed"} => ann.next \in {rec.who, Never}
               /\ rec.op = "publish" => ann.next = Never
               /\ \A t \in Times : Sent(t) =>
                    /\ rec.op \notin {"claimed", "update", "cancel", "publish", "published"}
                    /\ rec.op = "due" => ann.status = "SENDING" /\ ann.next = t
                    /\ rec.op = "dispatch" => rec.who = t

LEMMA OnceReadKeeps ==
  ASSUME ClaimInv, OnceInv, NEW p \in Calls, NEW rec, OnceRead(p, rec)
  PROVE  OnceInv'
<1>1. call'[p] = rec /\ \A q \in Calls \ {p} : call'[q] = call[q]
  BY DEF ClaimInv, CallTable, OnceRead
<1> SUFFICES ASSUME Apart' PROVE (\A q \in Calls : AtNext(q)') /\ (\A t \in Times : Sent(t)' => SentOnce(t)')
  BY DEF OnceInv
<1>2. Apart
  BY DEF Apart, OnceRead
<1>3. \A q \in Calls : AtNext(q)'
  BY <1>1, <1>2 DEF OnceInv, OnceRead, AtNext
<1>4. ASSUME NEW t \in Times, Sent(t)' PROVE SentOnce(t)'
  <2>1. Sent(t) /\ SentOnce(t)
    BY <1>2, <1>4 DEF OnceInv, OnceRead
  <2>2. \A s \in Times : Sent(s)' => s = t
    BY <2>1 DEF OnceRead, SentOnce
  <2>3. ASSUME NEW q \in Calls
        PROVE  /\ call'[q].op \notin {"claimed", "update", "cancel", "publish", "published"}
               /\ call'[q].op = "due" => ann.status = "SENDING" /\ ann.next = t
               /\ call'[q].op = "dispatch" => call'[q].who = t
    BY <1>1, <2>1 DEF OnceRead, SentOnce, At
  <2>4. UNCHANGED ann
    BY DEF OnceRead
  <2> QED
    BY <2>1, <2>2, <2>3, <2>4 DEF SentOnce, At
<1> QED
  BY <1>3, <1>4

\* A step of p that writes the row and ends, with nobody else about to claim or to write.
OnceWrite(p) ==
  /\ call' = [call EXCEPT ![p] = Idle] /\ UNCHANGED fanouts /\ (~raced' => ~raced)
  /\ Races(p) /\ ann'.frequency = ann.frequency
  /\ (\E t \in Times : Sent(t)) /\ Apart /\ call[p].op \notin {"update", "cancel"} =>
       ann'.status = "SENT" /\ ann'.next = Never

LEMMA OnceWriteKeeps ==
  ASSUME ClaimInv, OnceInv, NEW p \in Calls, OnceWrite(p)
  PROVE  OnceInv'
<1>1. call'[p] = Idle /\ \A q \in Calls \ {p} : call'[q] = call[q]
  BY DEF ClaimInv, CallTable, OnceWrite
<1> SUFFICES ASSUME Apart' PROVE (\A q \in Calls : AtNext(q)') /\ (\A t \in Times : Sent(t)' => SentOnce(t)')
  BY DEF OnceInv
<1>2. Apart
  BY DEF Apart, OnceWrite
<1>3. \A q \in Calls : call'[q].op \notin Pending
  <2>1. ~raced' /\ raced' = (raced \/ \E q \in Calls \ {p} : call[q].op \in Pending)
    BY <1>2 DEF Apart, OnceWrite, Races
  <2>2. ~ \E q \in Calls \ {p} : call[q].op \in Pending
    BY <2>1
  <2> QED
    BY <1>1, <2>2 DEF Idle, Pending
<1>4. \A t \in Times : Sent(t)' => Sent(t)
  BY <1>1 DEF Sent, OnceWrite, Idle
<1>5. ASSUME NEW t \in Times, Sent(t)' PROVE SentOnce(t)'
  <2>1. Sent(t) /\ SentOnce(t)
    BY <1>2, <1>4, <1>5 DEF OnceInv
  <2>2. ann'.status = "SENT" /\ ann'.next = Never
    BY <1>2, <2>1 DEF OnceWrite, SentOnce
  <2>3. \A s \in Times : Sent(s)' => s = t
    BY <1>4, <2>1 DEF SentOnce
  <2> QED
    BY <1>3, <2>2, <2>3 DEF SentOnce, At, Pending
<1> QED
  BY <1>3, <1>5 DEF AtNext, Pending

LEMMA OnceNextKeeps == ClaimInv /\ OnceInv /\ [AnnNext]_<<call, annVars>> => OnceInv'
<1> SUFFICES ASSUME ClaimInv, OnceInv, [AnnNext]_<<call, annVars>> PROVE OnceInv'
  OBVIOUS
<1>0. /\ ann \in AnnRows /\ clock \in Times /\ CallTable
      /\ \A p \in Calls : AnnCall(p) /\ (~At(p, "idle") => ann.status # "NONE")
  BY DEF ClaimInv
<1>a. \A t \in Times : Sent(t) => Claimed(t)
  BY DEF ClaimInv, AnnCall, Sent
<1>b. ASSUME Apart, NEW t \in Times, Sent(t) PROVE SentOnce(t)
  BY <1>b DEF OnceInv
<1>1. CASE UNCHANGED <<call, annVars>>
  BY <1>1 DEF OnceInv, Apart, AtNext, Sent, SentOnce, At, annVars
<1>2. CASE Tick
  BY <1>2 DEF Tick, OnceInv, Apart, AtNext, Sent, SentOnce, At
<1>3. ASSUME NEW f \in {"ONCE", "DAILY"}, NEW timed \in BOOLEAN, create(f, timed) PROVE OnceInv'
  <2>1. claims = {} /\ \A p \in Calls : call[p].op = "idle"
    BY <1>3 DEF create, ClaimInv, At
  <2>2. \A t \in Times : ~Sent(t)
    BY <1>a, <2>1 DEF Claimed, ClaimOf
  <2>3. UNCHANGED <<fanouts, call>>
    BY <1>3 DEF create
  <2>4. (\A p \in Calls : AtNext(p)') /\ \A t \in Times : ~Sent(t)'
    BY <2>1, <2>2, <2>3 DEF AtNext, Sent
  <2> QED
    BY <2>4 DEF OnceInv
\* Who begins to read, or stops, or is taken for dead.
<1>4. ASSUME NEW p \in Calls, NEW rec, call' = [call EXCEPT ![p] = rec], UNCHANGED <<ann, fanouts>>,
             ~raced' => ~raced,
             rec.op \in {"idle", "recover", "update", "cancel", "due", "publish", "published", "dispatch", "claimed"},
             Apart' => /\ rec.op \in {"published", "dispatch", "claimed"} => ann.next \in {rec.who, Never}
                       /\ rec.op = "publish" => ann.next = Never
                       /\ \A t \in Times : Sent(t) =>
                            /\ rec.op \notin {"claimed", "update", "cancel", "publish", "published"}
                            /\ rec.op = "due" => ann.status = "SENDING" /\ ann.next = t
                            /\ rec.op = "dispatch" => rec.who = t
      PROVE  OnceInv'
  <2>1. CASE Apart'
    <3>2. call'[p] = rec /\ \A q \in Calls \ {p} : call'[q] = call[q]
      BY <1>0, <1>4 DEF CallTable
    <3>3. \A t \in Times : Sent(t)' => Sent(t)
      BY <1>4, <3>2 DEF Sent
    <3>4. OnceRead(p, rec)
      BY <1>4, <2>1, <3>3 DEF OnceRead
    <3> QED
      BY <3>4, OnceReadKeeps
  <2> QED
    BY <2>1 DEF OnceInv
<1>5. ASSUME NEW p \in Calls, BeginUpdate(p) \/ BeginCancel(p) PROVE OnceInv'
  <2> PICK op \in {"update", "cancel"} :
        Go(p, op, ann, "none") /\ UNCHANGED annVars /\ ann.status \notin {"SENDING", "SENT"}
    BY <1>5 DEF BeginUpdate, BeginCancel
  <2> PICK rec : rec = [op |-> op, saw |-> ann, who |-> "none"]
    OBVIOUS
  <2>1. call' = [call EXCEPT ![p] = rec] /\ UNCHANGED <<ann, fanouts, raced>>
    BY DEF Go, annVars
  <2>2. Apart' => \A t \in Times : ~Sent(t)
    BY <1>b, <2>1 DEF Apart, SentOnce
  <2> QED
    BY <1>4, <2>1, <2>2
<1>6. ASSUME NEW p \in Calls, update(p) \/ cancel(p) PROVE OnceInv'
  <2>1. ann'.frequency = ann.frequency
    BY <1>0, <1>6 DEF update, cancel, AnnRows
  <2>2. OnceWrite(p)
    BY <1>6, <2>1 DEF update, cancel, OnceWrite, End, Races, At
  <2> QED
    BY <2>2, OnceWriteKeeps
<1>7. ASSUME NEW p \in Calls, dispatchDue(p) PROVE OnceInv'
  <2> PICK rec : rec = [op |-> "due", saw |-> "none", who |-> "none"]
    OBVIOUS
  <2>1. call' = [call EXCEPT ![p] = rec] /\ UNCHANGED <<ann, fanouts, raced>>
    BY <1>7 DEF dispatchDue, Go, annVars
  <2>2. ann.status \in {"SCHEDULED", "SENDING"} /\ ann.next # Never
    BY <1>0, <1>7, AnnouncementAssumption DEF dispatchDue, Times, Never
  <2>3. Apart' => \A t \in Times : Sent(t) => ann.status = "SENDING" /\ ann.next = t
    BY <1>b, <2>1, <2>2 DEF Apart, SentOnce
  <2> QED
    BY <1>4, <2>1, <2>3
<1>8. ASSUME NEW p \in Calls, BeginDispatch(p) PROVE OnceInv'
  <2> PICK who : who = IF ann.next # Never THEN ann.next ELSE clock
    OBVIOUS
  <2>1. PICK rec \in {Idle, [op |-> "dispatch", saw |-> ann, who |-> who]} :
          call' = [call EXCEPT ![p] = rec]
    BY <1>8 DEF BeginDispatch, End, Go
  <2>2. UNCHANGED <<ann, fanouts, raced>> /\ At(p, "due")
    BY <1>8 DEF BeginDispatch, annVars
  <2>3. Apart' => \A t \in Times : Sent(t) => ann.next = t
    BY <1>b, <2>2 DEF Apart, SentOnce
  <2>4. \A t \in Times : t # Never
    BY AnnouncementAssumption DEF Times, Never
  <2>5. rec = Idle => rec.op = "idle"
    BY DEF Idle
  <2> QED
    BY <1>4, <2>1, <2>2, <2>3, <2>4, <2>5
<1>9. ASSUME NEW p \in Calls, sendNow(p) PROVE OnceInv'
  <2> PICK t : t = IF ann.next # Never THEN ann.next ELSE clock
    OBVIOUS
  <2> PICK rec : rec = [op |-> "dispatch", saw |-> ann, who |-> t]
    OBVIOUS
  <2>1. /\ call' = [call EXCEPT ![p] = rec] /\ UNCHANGED <<ann, claims, fanouts>>
        /\ raced' = (raced \/ (ann.frequency = "ONCE" /\ ann.next = Never /\ claims # {}))
    BY <1>9 DEF sendNow, Go
  <2>2. Apart' => Apart /\ (ann.next = Never => claims = {})
    BY <2>1 DEF Apart
  <2>3. \A s \in Times : Sent(s) => claims # {}
    BY <1>a DEF Claimed, ClaimOf
  <2>4. Apart' => \A s \in Times : Sent(s) => ann.next = s
    BY <1>b, <2>2, <2>3 DEF SentOnce
  <2>5. \A s \in Times : s # Never
    BY AnnouncementAssumption DEF Times, Never
  <2>6. Apart' => ann.next \in {t, Never} /\ \A s \in Times : Sent(s) => t = s
    BY <2>4, <2>5
  <2> QED
    BY <1>4, <2>1, <2>6
<1>18. ASSUME NEW p \in Calls, publishLegacy(p) PROVE OnceInv'
  <2> PICK rec : rec = [op |-> "publish", saw |-> ann, who |-> "none"]
    OBVIOUS
  <2>2. /\ call' = [call EXCEPT ![p] = rec] /\ UNCHANGED <<ann, fanouts>>
        /\ raced' = (raced \/ (ann.frequency = "ONCE" /\ ann.next # Never))
        /\ ann.status \notin {"SENDING", "SENT"}
    BY <1>18 DEF publishLegacy, Go
  <2>3. Apart' => Apart /\ ann.next = Never
    BY <2>2 DEF Apart
  <2>4. Apart' => \A s \in Times : ~Sent(s)
    BY <1>b, <2>2, <2>3 DEF SentOnce
  <2> QED
    BY <1>4, <2>2, <2>3, <2>4
<1>19. ASSUME NEW p \in Calls, PinInstant(p) PROVE OnceInv'
  <2>1. PICK t : Go(p, "published", call[p].saw, t)
    BY <1>19 DEF PinInstant
  <2> PICK rec : rec = [op |-> "published", saw |-> call[p].saw, who |-> t]
    OBVIOUS
  <2>2. call' = [call EXCEPT ![p] = rec] /\ UNCHANGED <<ann, fanouts, raced>> /\ call[p].op = "publish"
    BY <1>19, <2>1 DEF PinInstant, Go, annVars, At
  <2>3. Apart' => ann.next = Never /\ \A s \in Times : ~Sent(s)
    BY <1>b, <2>2 DEF Apart, OnceInv, AtNext, SentOnce
  <2> QED
    BY <1>4, <2>2, <2>3
<1>20. ASSUME NEW p \in Calls, BeginPublished(p) PROVE OnceInv'
  <2>1. PICK rec \in {Idle, [op |-> "dispatch", saw |-> ann, who |-> call[p].who]} :
          call' = [call EXCEPT ![p] = rec]
    BY <1>20 DEF BeginPublished, End, Go
  <2>2. UNCHANGED <<ann, fanouts, raced>> /\ call[p].op = "published"
    BY <1>20 DEF BeginPublished, annVars, At
  <2>3. Apart' => ann.next \in {call[p].who, Never} /\ \A s \in Times : ~Sent(s)
    BY <1>b, <2>2 DEF Apart, OnceInv, AtNext, SentOnce
  <2>4. Idle.op = "idle"
    BY DEF Idle
  <2> QED
    BY <1>4, <2>1, <2>2, <2>3, <2>4
<1>10. ASSUME NEW p \in Calls, dispatch(p) PROVE OnceInv'
  <2> PICK t, saw : t = call[p].who /\ saw = call[p].saw
    OBVIOUS
  <2>1. At(p, "dispatch") /\ UNCHANGED <<ann, fanouts>>
    BY <1>10 DEF dispatch
  <2>2. CASE Claimed(t)
    <3>1. call' = [call EXCEPT ![p] = [op |-> "recover", saw |-> saw, who |-> t]] /\ UNCHANGED raced
      BY <1>10, <2>2 DEF dispatch, Go, Claimed
    <3> QED
      BY <1>4, <2>1, <3>1
  <2>3. CASE ~Claimed(t)
    <3> PICK rec : rec = [op |-> "claimed", saw |-> saw, who |-> t]
      OBVIOUS
    <3>1. call' = [call EXCEPT ![p] = rec] /\ Races(p)
      BY <1>10, <2>3 DEF dispatch, Go, Claimed
    <3>2. ~raced' => ~raced
      BY <3>1 DEF Races
    <3>3. Apart' => Apart
      BY <2>1, <3>2 DEF Apart
    <3>4. Apart' => ann.next \in {t, Never} /\ \A s \in Times : ~Sent(s)
      BY <1>a, <1>b, <2>1, <2>3, <3>3 DEF OnceInv, AtNext, SentOnce, At
    <3> QED
      BY <1>4, <2>1, <3>1, <3>2, <3>4
  <2> QED
    BY <2>2, <2>3
<1>11. ASSUME NEW p \in Calls, MarkSending(p) PROVE OnceInv'
  <2> PICK t, rec : t = call[p].who /\ rec = [op |-> "sending", saw |-> call[p].saw, who |-> t]
    OBVIOUS
  <2>1. /\ At(p, "claimed") /\ call' = [call EXCEPT ![p] = rec] /\ ann' = [ann EXCEPT !.status = "SENDING"]
        /\ UNCHANGED fanouts
        /\ raced' = (raced \/ (ann.frequency = "ONCE" /\ \E q \in Calls \ {p} : call[q].op \in Pending))
    BY <1>11 DEF MarkSending, Go, Races
  <2>2. call'[p] = rec /\ \A q \in Calls \ {p} : call'[q] = call[q]
    BY <1>0, <2>1 DEF CallTable
  <2>3. ann'.status = "SENDING" /\ ann'.next = ann.next /\ ann'.frequency = ann.frequency
    BY <1>0, <2>1 DEF AnnRows
  <2> SUFFICES ASSUME Apart' PROVE (\A q \in Calls : AtNext(q)') /\ (\A s \in Times : Sent(s)' => SentOnce(s)')
    BY DEF OnceInv
  <2>4. Apart /\ \A q \in Calls \ {p} : call[q].op \notin Pending
    BY <2>1, <2>3 DEF Apart
  <2>5. ann.next \in {t, Never} /\ \A s \in Times : ~Sent(s)
    BY <1>b, <2>1, <2>4 DEF OnceInv, AtNext, SentOnce, At
  <2>6. \A q \in Calls : call'[q].op \notin Pending
    BY <2>2, <2>4 DEF Pending
  <2>7. \A s \in Times : Sent(s)' => s = t
    BY <2>1, <2>2, <2>5 DEF Sent
  <2>8. ASSUME NEW s \in Times, Sent(s)' PROVE SentOnce(s)'
    BY <2>3, <2>5, <2>6, <2>7, <2>8 DEF SentOnce, At, Pending
  <2> QED
    BY <2>6, <2>8 DEF AtNext, Pending
<1>12. ASSUME NEW p \in Calls, fanOut(p) \/ NoteFailure(p) PROVE OnceInv'
  <2> PICK t : t = call[p].who
    OBVIOUS
  <2>1. PICK rec :
          /\ rec.op \in {"fanned", "failed", "advance"} /\ rec.who = t /\ call' = [call EXCEPT ![p] = rec]
          /\ call[p].op \in {"sending", "failed"} /\ UNCHANGED <<ann, raced>>
          /\ UNCHANGED fanouts \/ fanouts' = [fanouts EXCEPT ![t] = @ + 1]
    <3>1. CASE fanOut(p)
      <4>1. PICK next \in {"fanned", "failed"} : Go(p, next, call[p].saw, call[p].who)
        BY <3>1 DEF fanOut
      <4> WITNESS [op |-> next, saw |-> call[p].saw, who |-> t]
      <4> QED
        BY <3>1, <4>1 DEF fanOut, Go, At
    <3>2. CASE NoteFailure(p)
      <4> WITNESS [op |-> "advance", saw |-> call[p].saw, who |-> t]
      <4> QED
        BY <3>2 DEF NoteFailure, Go, At
    <3> QED
      BY <1>12, <3>1, <3>2
  <2>2. call'[p] = rec /\ \A q \in Calls \ {p} : call'[q] = call[q]
    BY <1>0, <2>1 DEF CallTable
  <2>3. \A s \in Times : Sent(s)' => Sent(s)
    <3>1. Sent(t)
      BY <2>1 DEF Sent
    <3>2. \A s \in Times \ {t} : fanouts'[s] = fanouts[s]
      BY <2>1 DEF ClaimInv
    <3>3. ASSUME NEW s \in Times \ {t}, Sent(s)' PROVE Sent(s)
      BY <2>1, <2>2, <3>2, <3>3 DEF Sent
    <3> QED
      BY <3>1, <3>3
  <2>4. OnceRead(p, rec)
    BY <2>1, <2>3 DEF OnceRead
  <2> QED
    BY <2>4, OnceReadKeeps
<1>13. ASSUME NEW p \in Calls, call[p].op \in {"fanned", "advance", "recover"}, ann' = Advanced(call[p].saw),
              Races(p), End(p), UNCHANGED fanouts
       PROVE  OnceInv'
  <2>1. call[p].saw \in AnnRows /\ call[p].saw.frequency = ann.frequency
    BY <1>0, <1>13 DEF AnnCall
  <2>2. ann'.frequency = ann.frequency /\ (ann.frequency = "ONCE" => ann'.status = "SENT" /\ ann'.next = Never)
    BY <1>0, <1>13, <2>1, AdvanceRow
  <2>3. OnceWrite(p)
    BY <1>13, <2>2 DEF OnceWrite, End, Races, Apart
  <2> QED
    BY <2>3, OnceWriteKeeps
<1>14. ASSUME NEW p \in Calls, FinishDispatch(p) \/ AdvanceAfterFailure(p) PROVE OnceInv'
  BY <1>13, <1>14 DEF FinishDispatch, AdvanceAfterFailure, At
<1>15. ASSUME NEW p \in Calls, recoverClaimedOccurrence(p) PROVE OnceInv'
  <2>1. CASE UNCHANGED <<ann, raced>>
    <3>1. call' = [call EXCEPT ![p] = Idle] /\ UNCHANGED fanouts /\ Idle.op = "idle"
      BY <1>15 DEF recoverClaimedOccurrence, End, Idle
    <3> QED
      BY <1>4, <2>1, <3>1
  <2>2. CASE ann' = Advanced(call[p].saw) /\ Races(p)
    BY <1>13, <1>15, <2>2 DEF recoverClaimedOccurrence, At
  <2> QED
    BY <1>15, <2>1, <2>2 DEF recoverClaimedOccurrence
<1>16. ASSUME NEW p \in Calls, recoverAbandonedClaims(p) \/ Dies(p) PROVE OnceInv'
  <2>1. CASE recoverAbandonedClaims(p)
    <3>1. PICK c \in claims : call' = [call EXCEPT ![p] = [op |-> "recover", saw |-> ann, who |-> c.at]]
      BY <2>1 DEF recoverAbandonedClaims, Go
    <3>2. UNCHANGED <<ann, fanouts, raced>>
      BY <2>1 DEF recoverAbandonedClaims, annVars
    <3> QED
      BY <1>4, <3>1, <3>2
  <2>2. CASE Dies(p)
    <3>1. call' = [call EXCEPT ![p] = Idle] /\ UNCHANGED <<ann, fanouts, raced>> /\ Idle.op = "idle"
      BY <2>2 DEF Dies, End, Idle, annVars
    <3> QED
      BY <1>4, <3>1
  <2> QED
    BY <1>16, <2>1, <2>2
<1>17. CASE AnnNext
  BY <1>2, <1>3, <1>5, <1>6, <1>7, <1>8, <1>9, <1>10, <1>11, <1>12, <1>14, <1>15, <1>16, <1>17,
     <1>18, <1>19, <1>20 DEF AnnNext
<1> QED
  BY <1>1, <1>17

\* No occurrence is fanned out twice, and a one-off once at all, unless a request wrote while
\* another acted on the row it had listed or read before, send-now was pressed once more, or a
\* scheduled one was also published by hand (dispatch, sendNow, recoverClaimedOccurrence).
THEOREM NobodyHearsTwice == AnnSpec => []NothingSentTwice
<1>1. HandlersInit /\ AnnInit => OnceInv
  <2> SUFFICES ASSUME HandlersInit, AnnInit PROVE OnceInv
    OBVIOUS
  <2>1. (\A p \in Calls : call[p].op = "idle") /\ \A t \in Times : fanouts[t] = 0
    BY DEF HandlersInit, AnnInit, Idle
  <2> QED
    BY <2>1 DEF OnceInv, AtNext, Sent
<1>2. ClaimInv /\ OnceInv => NothingSentTwice
  <2> SUFFICES ASSUME ClaimInv, OnceInv PROVE NothingSentTwice
    OBVIOUS
  <2> PICK S : S = {t \in Times : fanouts[t] > 0}
    OBVIOUS
  <2>1. ASSUME Apart PROVE Cardinality(S) <= 1
    <3>1. \A s, t \in S : s = t
      BY <2>1 DEF OnceInv, SentOnce, Sent
    <3>2. CASE S = {}
      BY <3>2, FS_EmptySet
    <3>3. CASE S # {}
      <4>1. PICK t : S = {t}
        BY <3>1, <3>3
      <4> QED
        BY <4>1, FS_Singleton
    <3> QED
      BY <3>2, <3>3
  <2>2. \A t \in Times : fanouts[t] <= 1
    BY DEF ClaimInv
  <2> QED
    BY <2>1, <2>2 DEF NothingSentTwice, Apart
<1> QED
  BY <1>1, <1>2, AnnInitHolds, ClaimNextKeeps, OnceNextKeeps, PTL DEF AnnSpec

-----------------------------------------------------------------------------
\* The catalogue.

\* A rung is in use or retired, and not both: turning it off and on again does not lose it.
LadderRows ==
  {row \in [scope : Scopes \cup {"none"}, kind : Kinds, active : BOOLEAN,
            on : SUBSET Positions, retired : SUBSET Positions] : row.on \cap row.retired = {}}

\* r is a rung of its ladder, in use or retired.
RungThere(r) ==
  r \in Ladders \X Positions /\ r[2] \in ladder[r[1]].on \cup ladder[r[1]].retired

CatalogCall(p) ==
  /\ At(p, "createStructure") => call[p].who \in Scopes /\ call[p].saw \in Kinds
  /\ At(p, "file") => RungThere(call[p].saw)
  /\ At(p, "store") => call[p].who \in Listed

LoadedToday(p) == At(p, "store") => call[p].saw = academicYears(call[p].who)

\* What is in the cache, or is on its way into it, is what the ladder says today.
NothingStale ==
  /\ \A c \in Listed : cached[c] \in {NotListed, academicYears(c)}
  /\ \A p \in Calls : LoadedToday(p)

CatalogInv ==
  /\ CallTable
  /\ ladder \in [Ladders -> LadderRows]
  /\ DOMAIN cached = Listed /\ cached = [c \in Listed |-> cached[c]]
  /\ \A p \in Calls : CatalogCall(p)
  /\ filing # NoRung => RungThere(filing)
  /\ ~outdated => NothingStale

LEMMA CatalogInitHolds == HandlersInit /\ CatalogInit => CatalogInv
BY DEF HandlersInit, Idle, CatalogInit, NoLadder, CatalogInv, CallTable, At, LadderRows, CatalogCall,
   NothingStale, LoadedToday, Kinds, Scopes, Units

\* The years of a scope depend on the ladders and the pin, and on nothing else.
LEMMA YearsFollowLadders ==
  ASSUME UNCHANGED <<ladder, pinned>>, NEW c
  PROVE  academicYears(c)' = academicYears(c)
BY DEF academicYears, resolveAcademicStructure, Nearest, Pinned, Filed, Candidates

\* A ladder that loses no rung keeps what was filed on it.
KeepsRungs == \A s \in Ladders : ladder[s].on \cup ladder[s].retired \subseteq ladder'[s].on \cup ladder'[s].retired

LEMMA RungsStay ==
  ASSUME KeepsRungs, NEW r, RungThere(r)
  PROVE  RungThere(r)'
BY DEF KeepsRungs, RungThere

\* A write to the catalogue: it empties the cache and leaves a list that is being loaded behind.
LEMMA WriteKeeps ==
  ASSUME CatalogInv, bust, outdated' = (outdated \/ Holding), filing' = filing, KeepsRungs,
         ladder' \in [Ladders -> LadderRows],
         CallTable', \A q \in Calls : call'[q] = call[q] \/ call'[q].op = "idle"
  PROVE  CatalogInv'
<1>1. \A q \in Calls : CatalogCall(q)'
  <2> SUFFICES ASSUME NEW q \in Calls PROVE CatalogCall(q)'
    OBVIOUS
  <2>1. CASE call'[q] = call[q]
    BY <2>1, RungsStay DEF CatalogInv, CatalogCall, At
  <2>2. CASE call'[q].op = "idle"
    BY <2>2 DEF CatalogCall, At
  <2> QED
    BY <2>1, <2>2
<1>2. ~outdated' => NothingStale'
  BY DEF bust, Holding, NothingStale, LoadedToday, At
<1>3. (filing # NoRung => RungThere(filing))'
  BY RungsStay DEF CatalogInv, NoRung
<1>4. DOMAIN cached' = Listed /\ cached' = [c \in Listed |-> cached'[c]]
  BY DEF bust
<1> QED
  BY <1>1, <1>2, <1>3, <1>4 DEF CatalogInv, NoRung, NoLadder

\* Steps that leave the ladders, the pin and the cache alone: a request begins, or writes what it checked.
LEMMA CatalogFrame ==
  ASSUME CatalogInv, UNCHANGED <<ladder, pinned, cached, outdated>>, CallTable',
         (filing # NoRung => RungThere(filing))',
         \A q \in Calls : call'[q] = call[q] \/ (CatalogCall(q) /\ LoadedToday(q))'
  PROVE  CatalogInv'
<1>1. \A q \in Calls : CatalogCall(q)'
  BY DEF CatalogInv, CatalogCall, RungThere, At
<1>2. ~outdated' => NothingStale'
  <2> SUFFICES ASSUME ~outdated PROVE NothingStale'
    OBVIOUS
  <2>1. NothingStale
    BY DEF CatalogInv
  <2>2. \A c : academicYears(c)' = academicYears(c)
    BY YearsFollowLadders
  <2>3. \A c \in Listed : (cached[c] \in {NotListed, academicYears(c)})'
    BY <2>1, <2>2 DEF NothingStale
  <2>4. ASSUME NEW q \in Calls PROVE LoadedToday(q)'
    BY <2>1, <2>2 DEF NothingStale, LoadedToday, At
  <2> QED
    BY <2>3, <2>4 DEF NothingStale
<1> QED
  BY <1>1, <1>2 DEF CatalogInv

\* A request begins.
LEMMA CatalogBegins ==
  ASSUME CatalogInv, NEW p \in Calls, NEW op, NEW saw, NEW who, Begin(p, op, saw, who),
         op = "createStructure" => who \in Scopes /\ saw \in Kinds,
         op = "file" => RungThere(saw),
         op = "store" => who \in Listed /\ saw = academicYears(who)
  PROVE  CatalogInv'
<1>1. CallTable' /\ call'[p] = [op |-> op, saw |-> saw, who |-> who] /\ \A q \in Calls \ {p} : call'[q] = call[q]
  BY DEF Begin, Go, CatalogInv, CallTable
<1>2. UNCHANGED <<ladder, pinned, cached, outdated, filing>>
  BY DEF Begin, catalogVars
<1>3. (filing # NoRung => RungThere(filing))'
  BY <1>2 DEF CatalogInv, RungThere, NoRung
<1>4. CatalogCall(p)'
  BY <1>1, <1>2 DEF CatalogCall, RungThere, At
<1>5. LoadedToday(p)'
  <2>1. academicYears(who)' = academicYears(who)
    BY <1>2, YearsFollowLadders
  <2> QED
    BY <1>1, <2>1 DEF LoadedToday, At
<1> QED
  BY <1>1, <1>2, <1>3, <1>4, <1>5, CatalogFrame DEF Begin, catalogVars

\* No edit of the catalogue drops a rung.
LEMMA EditKeeps ==
  ASSUME CatalogInv, CatalogEdit
  PROVE  CatalogInv'
<1>1. bust /\ outdated' = (outdated \/ Holding) /\ filing' = filing /\ call' = call
  BY DEF CatalogEdit, updateUnit, setActive, setDefault, setFacultyAcademicSystemOverride,
         updateAcademicStructure, replaceStructureEntries, createAcademicYear, setRungActive,
         setStructureFacultyOverrides, Edit
<1>2. (UNCHANGED ladder) => KeepsRungs /\ ladder' \in [Ladders -> LadderRows]
  BY DEF KeepsRungs, CatalogInv
<1>3. ASSUME NEW s \in Ladders, NEW row \in LadderRows, ladder' = [ladder EXCEPT ![s] = row],
             ladder[s].on \cup ladder[s].retired \subseteq row.on \cup row.retired
      PROVE  KeepsRungs /\ ladder' \in [Ladders -> LadderRows]
  BY <1>3 DEF KeepsRungs, CatalogInv
<1>4. KeepsRungs /\ ladder' \in [Ladders -> LadderRows]
  <2>1. CASE \E u \in Units, b \in BOOLEAN : updateUnit(u, b) \/ setActive(u, b)
    BY <2>1, <1>2 DEF updateUnit, setActive
  <2>2. CASE \E kind \in Kinds : setDefault(kind)
    BY <2>2, <1>2 DEF setDefault
  <2>3. CASE \E kind \in Kinds \cup {"none"} : setFacultyAcademicSystemOverride(kind)
    BY <2>3, <1>2 DEF setFacultyAcademicSystemOverride
  <2>4. ASSUME NEW s \in Ladders, updateAcademicStructure(s) PROVE KeepsRungs /\ ladder' \in [Ladders -> LadderRows]
    <3>1. ladder[s] \in LadderRows
      BY DEF CatalogInv
    <3>2. ASSUME NEW b \in BOOLEAN, ladder' = [ladder EXCEPT ![s].active = b]
          PROVE  KeepsRungs /\ ladder' \in [Ladders -> LadderRows]
      <4>1. [ladder[s] EXCEPT !.active = b] \in LadderRows
        BY <3>1 DEF LadderRows
      <4> QED
        BY <3>1, <3>2, <4>1, <1>3 DEF LadderRows
    <3>3. ASSUME NEW kind \in Kinds, ladder' = [ladder EXCEPT ![s].kind = kind]
          PROVE  KeepsRungs /\ ladder' \in [Ladders -> LadderRows]
      <4>1. [ladder[s] EXCEPT !.kind = kind] \in LadderRows
        BY <3>1 DEF LadderRows
      <4> QED
        BY <3>1, <3>3, <4>1, <1>3 DEF LadderRows
    <3> QED
      BY <2>4, <3>2, <3>3 DEF updateAcademicStructure
  <2>5. ASSUME NEW s \in Ladders, NEW kept \in SUBSET Positions, replaceStructureEntries(s, kept)
        PROVE  KeepsRungs /\ ladder' \in [Ladders -> LadderRows]
    <3>1. ladder[s] \in LadderRows
      BY DEF CatalogInv
    <3> PICK row : row = [ladder[s] EXCEPT !.on = kept, !.retired = (@ \cup ladder[s].on) \ kept]
      OBVIOUS
    <3>2. row \in LadderRows /\ ladder[s].on \cup ladder[s].retired \subseteq row.on \cup row.retired
      BY <3>1 DEF LadderRows
    <3>3. ladder' = [ladder EXCEPT ![s] = row]
      BY <2>5, <3>1 DEF replaceStructureEntries, CatalogInv, LadderRows
    <3> QED
      BY <3>2, <3>3, <1>3
  <2>6. ASSUME NEW s \in Ladders, NEW o \in Positions, createAcademicYear(s, o) \/ setRungActive(s, o)
        PROVE  KeepsRungs /\ ladder' \in [Ladders -> LadderRows]
    <3>1. ladder[s] \in LadderRows
      BY DEF CatalogInv
    <3>2. CASE createAcademicYear(s, o)
      <4> PICK row : row = [ladder[s] EXCEPT !.on = @ \cup {o}]
        OBVIOUS
      <4>1. row \in LadderRows /\ ladder[s].on \cup ladder[s].retired \subseteq row.on \cup row.retired
        BY <3>1, <3>2 DEF LadderRows, createAcademicYear
      <4>2. ladder' = [ladder EXCEPT ![s] = row]
        BY <3>2, <3>1 DEF createAcademicYear, CatalogInv, LadderRows
      <4> QED
        BY <4>1, <4>2, <1>3
    <3>3. CASE setRungActive(s, o)
      <4> PICK row : row = [ladder[s] EXCEPT !.on = IF o \in @ THEN @ \ {o} ELSE @ \cup {o},
                                             !.retired = IF o \in @ THEN @ \ {o} ELSE @ \cup {o}]
        OBVIOUS
      <4>1. row \in LadderRows /\ ladder[s].on \cup ladder[s].retired \subseteq row.on \cup row.retired
        BY <3>1, <3>3 DEF LadderRows, setRungActive
      <4>2. ladder' = [ladder EXCEPT ![s] = row]
        BY <3>3, <3>1 DEF setRungActive, CatalogInv, LadderRows
      <4> QED
        BY <4>1, <4>2, <1>3
    <3> QED
      BY <2>6, <3>2, <3>3
  <2>7. ASSUME NEW s \in Ladders, NEW b \in BOOLEAN, setStructureFacultyOverrides(s, b)
        PROVE  KeepsRungs /\ ladder' \in [Ladders -> LadderRows]
    BY <2>7, <1>2 DEF setStructureFacultyOverrides
  <2> QED
    BY <2>1, <2>2, <2>3, <2>4, <2>5, <2>6, <2>7 DEF CatalogEdit
<1>5. CallTable'
  BY <1>1 DEF CatalogInv, CallTable
<1> QED
  BY <1>1, <1>4, <1>5, WriteKeeps

LEMMA CatalogNextKeeps ==
  ASSUME CatalogInv, [CatalogNext]_<<call, catalogVars>>
  PROVE  CatalogInv'
<1> USE CatalogAssumption
<1>1. CASE CatalogEdit
  BY <1>1, EditKeeps
<1>2. ASSUME NEW p \in Calls, NEW c \in Scopes, NEW kind \in Kinds, BeginCreateStructure(p, c, kind) PROVE CatalogInv'
  BY <1>2, CatalogBegins DEF BeginCreateStructure
<1>3. ASSUME NEW p \in Calls, createAcademicStructure(p) PROVE CatalogInv'
  <2> PICK new : new = {s \in Ladders : ladder[s] = NoLadder}
    OBVIOUS
  <2>1. new # {} /\ new \in SUBSET Nat
    BY <1>3 DEF createAcademicStructure, Ladders
  <2>2. Min(new) \in Ladders /\ ladder[Min(new)] = NoLadder
    BY <2>1, LeastIsMember
  <2> PICK row : row = [NoLadder EXCEPT !.scope = call[p].who, !.kind = call[p].saw, !.active = TRUE]
    OBVIOUS
  <2>3. row \in LadderRows
    BY <1>3 DEF createAcademicStructure, CatalogInv, CatalogCall, NoLadder, LadderRows
  <2>4. ladder' = [ladder EXCEPT ![Min(new)] = row]
    BY <1>3 DEF createAcademicStructure
  <2>5. KeepsRungs /\ ladder' \in [Ladders -> LadderRows]
    BY <2>2, <2>3, <2>4 DEF KeepsRungs, CatalogInv, NoLadder
  <2>6. CallTable' /\ \A q \in Calls : call'[q] = call[q] \/ call'[q].op = "idle"
    BY <1>3, EndMoves DEF createAcademicStructure, CatalogInv, Idle
  <2> QED
    BY <1>3, <2>5, <2>6, WriteKeeps DEF createAcademicStructure
<1>4. ASSUME NEW p \in Calls, NEW c \in Listed, LoadYears(p, c) PROVE CatalogInv'
  BY <1>4, CatalogBegins DEF LoadYears
<1>5. ASSUME NEW p \in Calls, StoreYears(p) PROVE CatalogInv'
  <2>1. CallTable' /\ call'[p] = Idle /\ \A q \in Calls \ {p} : call'[q] = call[q]
    BY <1>5, EndMoves DEF StoreYears, CatalogInv
  <2>2. UNCHANGED <<ladder, pinned, filing, outdated>>
    BY <1>5 DEF StoreYears
  <2>3. \A q \in Calls : CatalogCall(q)'
    BY <2>1, <2>2 DEF CatalogInv, CatalogCall, RungThere, At, Idle
  <2>4. call[p].who \in Listed /\ cached' = [cached EXCEPT ![call[p].who] = call[p].saw]
    BY <1>5 DEF StoreYears, CatalogInv, CatalogCall
  <2>5. ~outdated' => NothingStale'
    <3> SUFFICES ASSUME ~outdated PROVE NothingStale'
      BY <2>2
    <3>1. NothingStale
      BY DEF CatalogInv
    <3>2. \A c : academicYears(c)' = academicYears(c)
      BY <2>2, YearsFollowLadders
    <3>3. call[p].saw = academicYears(call[p].who)
      BY <1>5, <3>1 DEF NothingStale, LoadedToday, StoreYears
    <3>4. ASSUME NEW c \in Listed PROVE (cached[c] \in {NotListed, academicYears(c)})'
      BY <2>4, <3>1, <3>2, <3>3 DEF NothingStale, CatalogInv
    <3>5. ASSUME NEW q \in Calls PROVE LoadedToday(q)'
      BY <2>1, <3>1, <3>2 DEF NothingStale, LoadedToday, At, Idle
    <3> QED
      BY <3>4, <3>5 DEF NothingStale
  <2>6. (filing # NoRung => RungThere(filing))'
    BY <2>2 DEF CatalogInv, RungThere, NoRung
  <2>7. DOMAIN cached' = Listed /\ cached' = [c \in Listed |-> cached'[c]]
    BY <2>4 DEF CatalogInv
  <2> QED
    BY <2>1, <2>2, <2>3, <2>5, <2>6, <2>7 DEF CatalogInv
<1>6. ASSUME NEW p \in Calls, NEW of, NEW c \in {"college", "department"}, NEW r \in Ladders \X Positions,
             of \in {"student", "course", "material"}, BeginFile(p, of, c, r) PROVE CatalogInv'
  <2>1. RungThere(r)
    BY <1>6 DEF BeginFile, assertAcademicSelectionIsCoherent, academicYears, checkYearInLadder, RungThere
  <2> QED
    BY <1>6, <2>1, CatalogBegins DEF BeginFile
<1>7. ASSUME NEW p \in Calls, file(p) PROVE CatalogInv'
  <2>1. CallTable' /\ call'[p] = Idle /\ \A q \in Calls \ {p} : call'[q] = call[q]
    BY <1>7, EndMoves DEF file, CatalogInv
  <2>2. UNCHANGED <<ladder, pinned, cached, outdated>> /\ filing' = call[p].saw
    BY <1>7 DEF file
  <2>3. RungThere(call[p].saw)
    BY <1>7 DEF file, CatalogInv, CatalogCall
  <2>4. RungThere(filing)'
    BY <2>2, <2>3 DEF RungThere
  <2>5. (CatalogCall(p) /\ LoadedToday(p))'
    BY <2>1 DEF CatalogCall, LoadedToday, At, Idle
  <2> QED
    BY <2>1, <2>2, <2>4, <2>5, CatalogFrame
<1>8. ASSUME NEW c \in Listed, CacheLapses(c) PROVE CatalogInv'
  <2>1. UNCHANGED <<ladder, pinned, filing, outdated, call>> /\ cached' = [cached EXCEPT ![c] = NotListed]
    BY <1>8 DEF CacheLapses
  <2>2. \A b : academicYears(b)' = academicYears(b)
    BY <2>1, YearsFollowLadders
  <2>3. \A q \in Calls : CatalogCall(q)' /\ LoadedToday(q)' = LoadedToday(q)
    BY <2>1, <2>2 DEF CatalogInv, CatalogCall, RungThere, LoadedToday, At
  <2>4. ~outdated' => NothingStale'
    BY <2>1, <2>2, <2>3 DEF CatalogInv, NothingStale
  <2>5. (filing # NoRung => RungThere(filing))'
    BY <2>1 DEF CatalogInv, RungThere, NoRung
  <2> QED
    BY <2>1, <2>3, <2>4, <2>5 DEF CatalogInv, CallTable
<1>9. CASE UNCHANGED <<call, catalogVars>>
  BY <1>9, CatalogFrame DEF catalogVars, CatalogInv, CallTable, RungThere, NoRung
<1>10. CASE CatalogNext
  BY <1>1, <1>2, <1>3, <1>4, <1>5, <1>6, <1>7, <1>8, <1>10 DEF CatalogNext
<1> QED
  BY <1>9, <1>10

\* However the catalogue is changed, a rung that something is filed on is at most retired, and
\* the years a student is offered are those of their ladder, unless a list was loaded before
\* a write and stored after it (academicYears, bust, remember, replaceStructureEntries).
THEOREM YearsAreCurrent == CatalogSpec => []ListedYearsAreCurrent
<1>1. CatalogInv => ListedYearsAreCurrent
  BY DEF CatalogInv, NothingStale, RungThere, ListedYearsAreCurrent
<1> QED
  BY <1>1, CatalogInitHolds, CatalogNextKeeps, PTL DEF CatalogSpec

-----------------------------------------------------------------------------
\* Links and pages.

Seats ==
  [course : {"PUBLISHED", "HIDDEN", "SUSPENDED", "ARCHIVED"}, targeted : BOOLEAN, state : {"ACTIVE", "LAPSED", "REVOKED"},
   scope : {"whole", "granted", "part", "other"}, lecture : {"PUBLISHED", "DRAFT"}, section : Statuses,
   dripped : BOOLEAN, sample : BOOLEAN]

Papers == [at : {"none", "lecture", "section", "course", "removed"}, preview : BOOLEAN, protected : BOOLEAN]

Stocks ==
  [part : Statuses \cup {"GONE"}, listed : BOOLEAN, preview : BOOLEAN, material : Statuses \cup {"GONE"},
   visible : BOOLEAN, storefront : BOOLEAN, held : {"none", "live", "revoked"}]

Clients == [session : {"ACTIVE", "ENDED"}, on : Phones, phones : SUBSET Phones]

DocTypeOK ==
  /\ shelf \in {"course", "lecture", "library"}
  /\ seat \in Seats /\ paper \in Papers /\ stock \in Stocks /\ client \in Clients
  /\ issued \subseteq {"attachment", "owned", "preview"} \X Phones

LEMMA DocInitHolds == DocInit => DocTypeOK
BY DEF DocInit, DocTypeOK, Seats, Papers, Stocks, Clients, Statuses

LEMMA DocNextKeeps ==
  ASSUME DocTypeOK, [DocNext]_docVars
  PROVE  DocTypeOK'
<1>1. ASSUME NEW d \in Phones, issueLink(d) PROVE DocTypeOK'
  BY <1>1 DEF DocTypeOK, issueLink
<1>2. ASSUME NEW l \in issued, LinkRunsOut(l) PROVE DocTypeOK'
  BY <1>2 DEF DocTypeOK, LinkRunsOut
<1>3. ASSUME NEW at \in {"lecture", "section", "course"}, NEW preview \in BOOLEAN, NEW protected \in BOOLEAN,
             createAttachment(at, preview, protected) \/ updateAttachment(preview, protected)
      PROVE  DocTypeOK'
  <2>1. UNCHANGED <<shelf, seat, stock, client, issued>>
    BY <1>3 DEF createAttachment, updateAttachment
  <2>2. CASE createAttachment(at, preview, protected)
    BY <2>1, <2>2 DEF DocTypeOK, Papers, createAttachment
  <2>3. CASE updateAttachment(preview, protected)
    <3>1. paper.at \in {"lecture", "section", "course"} /\ paper' = [paper EXCEPT !.preview = preview, !.protected = protected]
      BY <2>3 DEF updateAttachment
    <3>2. paper' = [at |-> paper.at, preview |-> preview, protected |-> protected]
      BY <3>1 DEF DocTypeOK, Papers
    <3>3. paper' \in Papers
      BY <3>1, <3>2 DEF Papers
    <3> QED
      BY <2>1, <3>3 DEF DocTypeOK
  <2> QED
    BY <1>3, <2>2, <2>3
<1>4. CASE removeAttachment
  BY <1>4 DEF DocTypeOK, Papers, removeAttachment
<1>5. CASE SeatChanges
  <2>1. UNCHANGED <<shelf, paper, stock, client, issued>>
    BY <1>5 DEF SeatChanges
  <2>2. seat' \in Seats
    BY <1>5 DEF SeatChanges, DocTypeOK, Seats, Statuses
  <2> QED
    BY <2>1, <2>2 DEF DocTypeOK
<1>6. CASE StockChanges
  <2>1. UNCHANGED <<shelf, seat, paper, client, issued>>
    BY <1>6 DEF StockChanges
  <2>2. stock' \in Stocks
    BY <1>6 DEF StockChanges, DocTypeOK, Stocks, Statuses
  <2> QED
    BY <2>1, <2>2 DEF DocTypeOK
<1>7. CASE ClientChanges
  BY <1>7 DEF DocTypeOK, Clients, ClientChanges
<1>8. CASE UNCHANGED docVars
  BY <1>8 DEF DocTypeOK, docVars
<1> QED
  BY <1>1, <1>2, <1>3, <1>4, <1>5, <1>6, <1>7, <1>8 DEF DocNext

\* A link that the edge still opens is one the student could be given again, however much has
\* been withdrawn since it was signed (ticketLiveness, issueTicket).
THEOREM LinksStayEarned == DocSpec => []LiveLinkIsStillEarned
<1>1. DocTypeOK => LiveLinkIsStillEarned
  <2> SUFFICES ASSUME DocTypeOK, NEW l \in issued, NEW legacy \in BOOLEAN, ticketLiveness(l, legacy)
               PROVE  CASE l[1] = "owned"   -> MayIssueOwned(l[2]) \/ (legacy /\ (DeviceLost \/ \E d \in Phones : MayIssueOwned(d)))
                        [] l[1] = "preview" -> MayIssuePreview \/ stock.held = "live"
                        [] OTHER            -> paper.preview \/ DeviceLost \/ \E d \in Phones : MayIssueAttachment(d)
    BY DEF LiveLinkIsStillEarned
  <2>0. client.on \in Phones
    BY DEF DocTypeOK, Clients
  <2>1. CASE l[1] = "owned"
    <3>1. IF legacy THEN libraryLegacyLiveness ELSE libraryTicketLiveness(l[2])
      BY <2>1 DEF ticketLiveness
    <3>2. CASE ~legacy
      BY <3>1, <3>2, <2>1 DEF libraryTicketLiveness, MayIssueOwned, assertAuthorizedForProtectedContent
    <3>3. CASE legacy
      <4>1. MayIssueOwned(client.on) \/ DeviceLost
        BY <3>1, <3>3 DEF libraryLegacyLiveness, MayIssueOwned, assertAuthorizedForProtectedContent, DeviceLost
      <4> QED
        BY <2>0, <2>1, <3>3, <4>1
    <3> QED
      BY <3>2, <3>3
  <2>2. CASE l[1] = "preview"
    <3>1. libraryPreviewTicketLiveness
      BY <2>2 DEF ticketLiveness
    <3>2. MayIssuePreview \/ stock.held = "live"
      BY <3>1 DEF libraryPreviewTicketLiveness, MayIssuePreview
    <3> QED
      BY <2>2, <3>2
  <2>3. CASE l[1] = "attachment"
    <3>1. attachmentTicketLiveness
      BY <2>3 DEF ticketLiveness
    <3>2. paper.preview \/ MayIssueAttachment(client.on) \/ DeviceLost
      BY <3>1 DEF attachmentTicketLiveness, MayIssueAttachment, assertContentAccess, assertAuthorizedForProtectedContent, DeviceLost
    <3> QED
      BY <2>0, <2>3, <3>2
  <2> QED
    BY <2>1, <2>2, <2>3 DEF DocTypeOK
<1> QED
  BY <1>1, DocInitHolds, DocNextKeeps, PTL DEF DocSpec

\* A course page draws as locked what does not open, and nothing else.
LEMMA CoursePage == DocTypeOK => CoursePageIsTrue
<1> SUFFICES ASSUME DocTypeOK PROVE CoursePageIsTrue
  OBVIOUS
<1>1. list => detail
  BY DEF list, detail
<1>2. (SignedIn /\ list /\ loadLectures) => (lessonDetail <=> ~toLessonSummary)
  BY DEF list, lessonDetail, toLessonSummary, sections, PreviewAllowed
<1>3. lessonDetail /\ ~seat.sample => listMine /\ ~toSection /\ (detail \/ seat.course = "HIDDEN")
  BY DEF lessonDetail, detail, listMine, toSection, sections, decideContent
<1>4. (InHand /\ list) => (MayIssueAttachment(client.on) <=> attachments /\ ~toAttachment /\ SectionOpen)
  <2> SUFFICES ASSUME InHand, list
               PROVE  MayIssueAttachment(client.on) <=> attachments /\ ~toAttachment /\ SectionOpen
    OBVIOUS
  <2>1. SignedIn /\ assertAuthorizedForProtectedContent(client.on) /\ detail
    BY DEF InHand, list, detail, assertAuthorizedForProtectedContent
  <2>2. assertContentAccess <=> ~toAttachment
    BY DEF assertContentAccess, toAttachment, list, PreviewAllowed
  <2>3. ASSUME paper.at \in {"lecture", "section", "course"}, ~toAttachment
        PROVE  (paper.preview \/ PaperScoped) <=> SectionOpen
    BY <2>3 DEF PaperScoped, SectionOpen, toAttachment, sections
  <2> QED
    BY <2>1, <2>2, <2>3 DEF MayIssueAttachment, attachments
<1> QED
  BY <1>1, <1>2, <1>3, <1>4 DEF CoursePageIsTrue

\* A page of the library calls owned or readable what opens, and sells nothing that does.
LEMMA LibraryPage == DocTypeOK => LibraryPageIsTrue
<1> SUFFICES ASSUME DocTypeOK, InHand PROVE LibraryPageIsTrue
  BY DEF LibraryPageIsTrue
<1>1. SignedIn /\ assertAuthorizedForProtectedContent(client.on)
  BY DEF InHand, assertAuthorizedForProtectedContent
<1>2. MayIssueOwned(client.on) <=> stock.held = "live" /\ ~TakenBack
  BY <1>1 DEF MayIssueOwned
<1>3. OnShelf => ~TakenBack /\ stock.part # "GONE" /\ stock.material = "PUBLISHED"
  BY DEF OnShelf, TakenBack
<1>4. stock.held \in {"none", "live", "revoked"} /\ stock.preview \in BOOLEAN
  BY DEF DocTypeOK, Stocks
<1>5. accessOf = "OWNED" <=> stock.held = "live"
  BY <1>4 DEF accessOf
<1>6. accessOf = "PREVIEW" <=> stock.held # "live" /\ stock.preview
  BY <1>4 DEF accessOf
<1>7. accessOf \in {"REVOKED", "PURCHASABLE"} => stock.held # "live" /\ ~stock.preview
  BY <1>4 DEF accessOf
<1>8. ASSUME NEW w \in materialForStudent
      PROVE  OnShelf /\ ((browse /\ w = accessOf) \/ (w = "OWNED" /\ stock.held = "live"))
  <2>1. CASE browse
    BY <2>1, <1>8 DEF materialForStudent
  <2>2. CASE ~browse /\ stock.material = "PUBLISHED" /\ stock.held = "live" /\ stock.part # "GONE"
    BY <2>2, <1>8 DEF materialForStudent, ownerView
  <2> QED
    BY <2>1, <2>2, <1>8 DEF materialForStudent
<1>9. browse /\ OnShelf => materialForStudent = {accessOf}
  BY DEF materialForStudent
<1>10. ("OWNED" \in materialForStudent \/ "READABLE" \in myLibrary) => MayIssueOwned(client.on)
  BY <1>2, <1>3, <1>5, <1>8 DEF myLibrary
<1>11. MayIssueOwned(client.on) => myLibrary = {"READABLE"}
  BY <1>2 DEF myLibrary, TakenBack
<1>12. "PREVIEW" \in materialForStudent <=> MayIssuePreview
  BY <1>1, <1>3, <1>6, <1>8, <1>9 DEF MayIssuePreview, browse
<1>13. materialForStudent \cap {"REVOKED", "PURCHASABLE"} # {} => ~MayIssueOwned(client.on) /\ ~MayIssuePreview
  BY <1>2, <1>7, <1>8 DEF MayIssuePreview
<1> QED
  BY <1>10, <1>11, <1>12, <1>13 DEF LibraryPageIsTrue

\* What a page promises is what the door does, on a course, but for the lectures of a HIDDEN one
\* and the samples of a paused one, and in the library (CoursesService, LessonsService.detail,
\* LibraryService, LibraryDocumentsService).
THEOREM PagesAreTrue == DocSpec => []PagesTellTheTruth
<1>1. DocTypeOK => PagesTellTheTruth
  BY CoursePage, LibraryPage DEF PagesTellTheTruth
<1> QED
  BY <1>1, DocInitHolds, DocNextKeeps, PTL DEF DocSpec

-----------------------------------------------------------------------------
\* Phones.

\* R is a strict order on S; it is total on T.
StrictOrder(R, S) ==
  /\ \A x \in S : <<x, x>> \notin R
  /\ \A x, y, z \in S : <<x, y>> \in R /\ <<y, z>> \in R => <<x, z>> \in R

TotalOn(R, T) == \A x, y \in T : x = y \/ <<x, y>> \in R \/ <<y, x>> \in R

\* A finite set in order has an oldest member: the one with the fewest before it.
LEMMA OldestMember ==
  ASSUME NEW S, IsFiniteSet(S), S # {}, NEW R, StrictOrder(R, S), TotalOn(R, S)
  PROVE  \E x \in S : \A y \in S \ {x} : <<x, y>> \in R
<1> DEFINE Older(x) == {y \in S : <<y, x>> \in R}
           Counts == {Cardinality(Older(x)) : x \in S}
<1>1. \A x \in S : Older(x) \in SUBSET S /\ IsFiniteSet(Older(x)) /\ Cardinality(Older(x)) \in Nat
  BY FS_Subset, FS_CardinalityType
<1>2. PICK m \in S : \A x \in S : Cardinality(Older(m)) <= Cardinality(Older(x))
  <2>1. Counts \in SUBSET Nat /\ Counts # {}
    BY <1>1
  <2> HIDE DEF Counts
  <2>2. Min(Counts) \in Counts /\ \A n \in Counts : Min(Counts) <= n
    BY <2>1, LeastIsMember
  <2> QED
    BY <2>2 DEF Counts
<1>3. ASSUME NEW y \in Older(m) PROVE FALSE
  <2>1. Older(y) \in SUBSET Older(m) /\ y \notin Older(y) /\ y \in S
    BY <1>3 DEF StrictOrder
  <2>2. Cardinality(Older(y)) <= Cardinality(Older(m)) /\ Cardinality(Older(y)) # Cardinality(Older(m))
    <3> HIDE DEF Older
    <3> QED
      BY <1>1, <1>3, <2>1, FS_Subset
  <2> HIDE DEF Older
  <2> QED
    BY <1>1, <1>2, <2>1, <2>2
<1> QED
  BY <1>3 DEF TotalOn

\* No more than n members of a set in order have fewer than n newer ones.
LEMMA LatestAreFew ==
  ASSUME NEW S, IsFiniteSet(S), NEW R, StrictOrder(R, S), TotalOn(R, S), NEW n \in Nat, NEW K \in SUBSET S,
         \A x \in K : Cardinality({y \in S : <<x, y>> \in R}) < n
  PROVE  Cardinality(K) <= n
<1>1. IsFiniteSet(K)
  BY FS_Subset
<1>2. CASE K = {}
  BY <1>2, FS_EmptySet
<1>3. CASE K # {}
  <2>1. StrictOrder(R, K) /\ TotalOn(R, K)
    BY DEF StrictOrder, TotalOn
  <2>2. PICK m \in K : \A y \in K \ {m} : <<m, y>> \in R
    BY <1>1, <1>3, <2>1, OldestMember
  <2> PICK N : N = {y \in S : <<m, y>> \in R}
    OBVIOUS
  <2>3. IsFiniteSet(N) /\ Cardinality(N) < n
    <3>1. N \in SUBSET S
      OBVIOUS
    <3> QED
      BY <3>1, FS_Subset
  <2>4. Cardinality(K \ {m}) <= Cardinality(N)
    <3>1. K \ {m} \in SUBSET N
      BY <2>2
    <3> QED
      BY <2>3, <3>1, FS_Subset
  <2>5. Cardinality(K \ {m}) = Cardinality(K) - 1
    BY <1>1, FS_RemoveElement
  <2>6. Cardinality(K) \in Nat /\ Cardinality(N) \in Nat
    BY <1>1, <2>3, FS_CardinalityType
  <2> QED
    BY <2>3, <2>4, <2>5, <2>6
<1> QED
  BY <1>2, <1>3

PhoneRows == [of : People \cup {"none"}, active : BOOLEAN, fails : Nat]

\* A registration in flight keeps its own token and no more than the cap.
NoticeCall(p) ==
  /\ At(p, "register") => /\ call[p].who \in Tokens \X People
                          /\ call[p].saw \in SUBSET Tokens /\ call[p].who[1] \in call[p].saw
                          /\ Cardinality(call[p].saw) <= TokenCap
  /\ At(p, "deliver") \/ At(p, "giveUp") => call[p].saw \in SUBSET Tokens
  /\ At(p, "giveUp") => call[p].who \in Tokens
  /\ At(p, "createOnce") \/ At(p, "pushOnce") => call[p].who \in Notes

\* The active phones are in the order of their last write.
InOrder == StrictOrder(touched, Tokens) /\ TotalOn(touched, {t \in Tokens : phone[t].active})

PhoneInv ==
  /\ CallTable /\ \A p \in Calls : NoticeCall(p)
  /\ phone \in [Tokens -> PhoneRows]
  /\ InOrder
  /\ newest \in [People -> Tokens \cup {NoToken}]
  /\ \A u \in People : newest[u] # NoToken => newest[u] \in ActiveTokens(u)
  /\ \A u \in People : Cardinality(ActiveTokens(u)) <= TokenCap

\* The token just written is the latest; the others stay as they were.
LEMMA AfterOrders ==
  ASSUME StrictOrder(touched, Tokens), NEW t \in Tokens
  PROVE  /\ StrictOrder(After(t), Tokens)
         /\ \A x \in Tokens \ {t} : <<x, t>> \in After(t) /\ <<t, x>> \notin After(t)
         /\ \A x, y \in Tokens \ {t} : <<x, y>> \in After(t) <=> <<x, y>> \in touched
<1>1. \A x \in Tokens \ {t} : <<x, t>> \in After(t) /\ <<t, x>> \notin After(t)
  BY DEF After
<1>2. \A x, y \in Tokens \ {t} : <<x, y>> \in After(t) <=> <<x, y>> \in touched
  BY DEF After
<1>3. <<t, t>> \notin After(t)
  BY DEF After
<1>4. StrictOrder(After(t), Tokens)
  BY <1>1, <1>2, <1>3 DEF StrictOrder
<1> QED
  BY <1>1, <1>2, <1>4

\* What a registration keeps: its own token, and no more than the cap.
LEMMA KeepersFit ==
  ASSUME PhoneInv, NEW t \in Tokens, NEW u \in People
  PROVE  /\ Keepers(u, t) \in SUBSET Tokens /\ t \in Keepers(u, t)
         /\ Cardinality(Keepers(u, t)) <= TokenCap
<1> USE NoticeAssumption
<1> PICK mine : mine = ActiveTokens(u) \cup {t}
  OBVIOUS
<1>1. mine \in SUBSET Tokens /\ t \in mine
  BY DEF ActiveTokens
<1>2. IsFiniteSet(mine)
  BY <1>1, FS_Subset
<1>3. StrictOrder(touched, Tokens) /\ TotalOn(touched, {x \in Tokens : phone[x].active})
  BY DEF PhoneInv, InOrder
<1>4. StrictOrder(After(t), mine)
  <2>1. StrictOrder(After(t), Tokens)
    BY <1>3, AfterOrders
  <2> QED
    BY <1>1, <2>1 DEF StrictOrder
<1>5. TotalOn(After(t), mine)
  <2> SUFFICES ASSUME NEW x \in mine, NEW y \in mine, x # y PROVE <<x, y>> \in After(t) \/ <<y, x>> \in After(t)
    BY DEF TotalOn
  <2>1. CASE x = t \/ y = t
    BY <1>1, <1>3, <2>1, AfterOrders
  <2>2. CASE x # t /\ y # t
    <3>1. x \in {z \in Tokens : phone[z].active} /\ y \in {z \in Tokens : phone[z].active}
      BY <2>2 DEF ActiveTokens
    <3>2. <<x, y>> \in touched \/ <<y, x>> \in touched
      BY <1>3, <3>1 DEF TotalOn
    <3> QED
      BY <1>3, <2>2, <3>1, <3>2, AfterOrders
  <2> QED
    BY <2>1, <2>2
<1>6. Keepers(u, t) = {x \in mine : Cardinality({y \in mine : <<x, y>> \in After(t)}) < TokenCap}
  BY DEF Keepers
<1>7. t \in Keepers(u, t)
  <2> PICK N : N = {y \in mine : <<t, y>> \in After(t)}
    OBVIOUS
  <2>1. N = {}
    BY <1>1, <1>3, <1>4, AfterOrders DEF StrictOrder
  <2>2. Cardinality(N) = 0
    BY <2>1, FS_EmptySet
  <2>3. Cardinality(N) < TokenCap
    BY <2>2
  <2> QED
    BY <1>1, <1>6, <2>3
<1>8. Cardinality(Keepers(u, t)) <= TokenCap
  <2>1. Keepers(u, t) \in SUBSET mine /\ \A x \in Keepers(u, t) : Cardinality({y \in mine : <<x, y>> \in After(t)}) < TokenCap
    BY <1>6
  <2> HIDE <1>6
  <2> QED
    BY <1>2, <1>4, <1>5, <2>1, LatestAreFew
<1> QED
  BY <1>1, <1>6, <1>7, <1>8

LEMMA PhoneInitHolds == HandlersInit /\ NoticeInit => PhoneInv
<1> SUFFICES ASSUME HandlersInit, NoticeInit PROVE PhoneInv
  OBVIOUS
<1>1. CallTable /\ \A p \in Calls : NoticeCall(p)
  BY DEF HandlersInit, CallTable, NoticeCall, At, Idle
<1>2. \A u \in People : ActiveTokens(u) = {}
  BY DEF NoticeInit, ActiveTokens
<1>3. \A u \in People : Cardinality(ActiveTokens(u)) <= TokenCap
  BY <1>2, FS_EmptySet, NoticeAssumption
<1>4. InOrder
  BY DEF NoticeInit, InOrder, StrictOrder, TotalOn
<1> QED
  BY <1>1, <1>3, <1>4 DEF PhoneInv, NoticeInit, PhoneRows

\* Steps of the inbox leave the phones alone.
LEMMA PhoneFrame ==
  ASSUME PhoneInv, UNCHANGED <<phone, touched, newest>>, CallTable',
         \A q \in Calls : call'[q] = call[q] \/ NoticeCall(q)'
  PROVE  PhoneInv'
<1>1. \A q \in Calls : NoticeCall(q)'
  BY DEF PhoneInv, NoticeCall, At
<1>2. \A u : ActiveTokens(u)' = ActiveTokens(u)
  BY DEF ActiveTokens
<1> QED
  BY <1>1, <1>2 DEF PhoneInv, InOrder

\* A phone that is signed out, fails or is given up silences nobody who still counts on it.
LEMMA PhoneFalls ==
  ASSUME PhoneInv, NEW ts \in SUBSET Tokens, phone' \in [Tokens -> PhoneRows],
         \A x \in Tokens : phone'[x].of = phone[x].of /\ (phone'[x].active => phone[x].active),
         \A x \in Tokens \ ts : phone'[x] = phone[x],
         NoLonger(ts),
         touched' = touched \/ \E t \in Tokens : touched' = After(t),
         CallTable', \A q \in Calls : call'[q] = call[q] \/ NoticeCall(q)'
  PROVE  PhoneInv'
<1>1. \A q \in Calls : NoticeCall(q)'
  BY DEF PhoneInv, NoticeCall, At
<1>2. \A u : ActiveTokens(u)' \in SUBSET ActiveTokens(u) /\ \A x \in ActiveTokens(u) \ ts : x \in ActiveTokens(u)'
  BY DEF ActiveTokens
<1>3. \A u \in People : (Cardinality(ActiveTokens(u)) <= TokenCap)'
  <2> SUFFICES ASSUME NEW u \in People PROVE (Cardinality(ActiveTokens(u)) <= TokenCap)'
    OBVIOUS
  <2> PICK was, is : was = ActiveTokens(u) /\ is = ActiveTokens(u)'
    OBVIOUS
  <2>1. was \in SUBSET Tokens /\ is \in SUBSET was /\ Cardinality(was) <= TokenCap
    BY <1>2 DEF PhoneInv, ActiveTokens
  <2>2. IsFiniteSet(was) /\ IsFiniteSet(is) /\ Cardinality(is) <= Cardinality(was)
    BY <2>1, FS_Subset, NoticeAssumption
  <2>3. Cardinality(is) \in Nat /\ Cardinality(was) \in Nat
    BY <2>2, FS_CardinalityType
  <2> QED
    BY <2>1, <2>2, <2>3, NoticeAssumption
<1>4. newest' \in [People -> Tokens \cup {NoToken}]
  BY DEF NoLonger, PhoneInv
<1>5. ASSUME NEW u \in People, newest'[u] # NoToken PROVE newest'[u] \in ActiveTokens(u)'
  BY <1>2, <1>5 DEF NoLonger, PhoneInv
<1>6. InOrder'
  <2>1. {t \in Tokens : phone[t].active}' \in SUBSET {t \in Tokens : phone[t].active}
    OBVIOUS
  <2>2. CASE touched' = touched
    BY <2>1, <2>2 DEF PhoneInv, InOrder, StrictOrder, TotalOn
  <2>3. ASSUME NEW t \in Tokens, touched' = After(t) PROVE InOrder'
    <3>1. StrictOrder(touched, Tokens)
      BY DEF PhoneInv, InOrder
    <3>2. StrictOrder(touched', Tokens)
      BY <2>3, <3>1, AfterOrders
    <3>3. TotalOn(touched', {x \in Tokens : phone'[x].active})
      BY <2>1, <2>3, <3>1, AfterOrders DEF PhoneInv, InOrder, TotalOn
    <3> QED
      BY <3>2, <3>3 DEF InOrder
  <2> QED
    BY <2>2, <2>3
<1> QED
  BY <1>1, <1>3, <1>4, <1>5, <1>6 DEF PhoneInv

LEMMA PhoneNextKeeps ==
  ASSUME PhoneInv, [NoticeNext]_<<call, noticeVars>>
  PROVE  PhoneInv'
<1>0. ASSUME NEW p \in Calls, NEW op, NEW saw, NEW who, Go(p, op, saw, who)
      PROVE  CallTable' /\ call'[p] = [op |-> op, saw |-> saw, who |-> who] /\ \A q \in Calls \ {p} : call'[q] = call[q]
  BY <1>0 DEF Go, PhoneInv, CallTable
<1>1. ASSUME NEW p \in Calls, End(p)
      PROVE  CallTable' /\ \A q \in Calls : call'[q] = call[q] \/ NoticeCall(q)'
  <2>1. CallTable' /\ call'[p] = Idle /\ \A q \in Calls \ {p} : call'[q] = call[q]
    BY <1>1, EndMoves DEF PhoneInv
  <2> QED
    BY <2>1 DEF NoticeCall, At, Idle
<1>2. ASSUME NEW p \in Calls, NEW t, At(p, "deliver") \/ At(p, "giveUp"), Rest(p, t)
      PROVE  CallTable' /\ \A q \in Calls : call'[q] = call[q] \/ NoticeCall(q)'
  <2>1. CASE End(p)
    BY <2>1, <1>1
  <2>2. CASE Go(p, "deliver", call[p].saw \ {t}, NoToken)
    <3>1. CallTable' /\ call'[p] = [op |-> "deliver", saw |-> call[p].saw \ {t}, who |-> NoToken]
          /\ \A q \in Calls \ {p} : call'[q] = call[q]
      BY <2>2, <1>0
    <3>2. NoticeCall(p)'
      BY <1>2, <3>1 DEF NoticeCall, At, PhoneInv
    <3> QED
      BY <3>1, <3>2
  <2> QED
    BY <1>2, <2>1, <2>2 DEF Rest
<1>3. ASSUME NEW k \in Notes, createForUser(k) \/ markRead(k) PROVE PhoneInv'
  BY <1>3, PhoneFrame DEF createForUser, markRead, PhoneInv, CallTable
<1>4. ASSUME NEW u \in People, updatePreferences(u) PROVE PhoneInv'
  BY <1>4, PhoneFrame DEF updatePreferences, PhoneInv, CallTable
<1>5. ASSUME NEW u \in People, NEW ts \in SUBSET Tokens, unregisterPushToken(u, ts) PROVE PhoneInv'
  <2>1. NoLonger(ts) /\ UNCHANGED <<touched, call>>
        /\ phone' = [t \in Tokens |-> IF t \in ts THEN [phone[t] EXCEPT !.active = FALSE] ELSE phone[t]]
    BY <1>5 DEF unregisterPushToken
  <2>2. phone' \in [Tokens -> PhoneRows]
        /\ \A x \in Tokens : phone'[x].of = phone[x].of /\ (phone'[x].active => phone[x].active)
    BY <2>1 DEF PhoneInv, PhoneRows
  <2>3. CallTable'
    BY <2>1 DEF PhoneInv, CallTable
  <2> QED
    BY <2>1, <2>2, <2>3, PhoneFalls
<1>6. ASSUME NEW p \in Calls, NEW k \in Notes, sendExpiryReminders(p, k) PROVE PhoneInv'
  <2>1. Go(p, "createOnce", "fresh", k) /\ UNCHANGED <<phone, touched, newest>>
    BY <1>6 DEF sendExpiryReminders, BeginCreateOnce
  <2>2. CallTable' /\ call'[p] = [op |-> "createOnce", saw |-> "fresh", who |-> k] /\ \A q \in Calls \ {p} : call'[q] = call[q]
    BY <2>1, <1>0
  <2>3. NoticeCall(p)'
    BY <2>2 DEF NoticeCall, At
  <2> QED
    BY <2>1, <2>2, <2>3, PhoneFrame
<1>7. ASSUME NEW p \in Calls, NEW k \in Notes, send(p, k) PROVE PhoneInv'
  <2>1. UNCHANGED <<phone, touched, newest>>
    BY <1>7 DEF send
  <2>2. CASE UNCHANGED call
    BY <2>1, <2>2, PhoneFrame DEF PhoneInv, CallTable
  <2>3. CASE Go(p, "deliver", ActiveTokens(Addressee(k)), NoToken)
    <3>1. CallTable' /\ call'[p] = [op |-> "deliver", saw |-> ActiveTokens(Addressee(k)), who |-> NoToken]
          /\ \A q \in Calls \ {p} : call'[q] = call[q]
      BY <2>3, <1>0
    <3>2. ActiveTokens(Addressee(k)) \in SUBSET Tokens
      BY DEF ActiveTokens
    <3>3. NoticeCall(p)'
      BY <3>1, <3>2 DEF NoticeCall, At
    <3> QED
      BY <2>1, <3>1, <3>3, PhoneFrame
  <2> QED
    BY <1>7, <2>2, <2>3 DEF send
<1>8. ASSUME NEW p \in Calls, NEW t \in Tokens, NEW u \in People, BeginRegister(p, t, u) PROVE PhoneInv'
  <2>1. Go(p, "register", Keepers(u, t), <<t, u>>) /\ UNCHANGED <<phone, touched, newest>>
    BY <1>8 DEF BeginRegister
  <2>2. CallTable' /\ call'[p] = [op |-> "register", saw |-> Keepers(u, t), who |-> <<t, u>>]
        /\ \A q \in Calls \ {p} : call'[q] = call[q]
    BY <2>1, <1>0
  <2>3. NoticeCall(p)'
    BY <2>2, KeepersFit DEF NoticeCall, At
  <2> QED
    BY <2>1, <2>2, <2>3, PhoneFrame
<1>9. ASSUME NEW p \in Calls, createOnce(p) PROVE PhoneInv'
  <2>1. Go(p, "pushOnce", "fresh", call[p].who) /\ UNCHANGED <<phone, touched, newest>> /\ call[p].who \in Notes
    BY <1>9 DEF createOnce, PhoneInv, NoticeCall
  <2>2. CallTable' /\ call'[p] = [op |-> "pushOnce", saw |-> "fresh", who |-> call[p].who]
        /\ \A q \in Calls \ {p} : call'[q] = call[q]
    BY <2>1, <1>0
  <2>3. NoticeCall(p)'
    BY <2>1, <2>2 DEF NoticeCall, At
  <2> QED
    BY <2>1, <2>2, <2>3, PhoneFrame
<1>10. ASSUME NEW p \in Calls, pushOnce(p) \/ DeliveryFails(p) PROVE PhoneInv'
  BY <1>10, <1>1, PhoneFrame DEF pushOnce, DeliveryFails, noticeVars
<1>11. ASSUME NEW p \in Calls, registerPushToken(p) PROVE PhoneInv'
  <2> PICK t, u, keep : t = call[p].who[1] /\ u = call[p].who[2] /\ keep = call[p].saw
    OBVIOUS
  <2>1. t \in Tokens /\ u \in People /\ keep \in SUBSET Tokens /\ t \in keep /\ Cardinality(keep) <= TokenCap
    BY <1>11 DEF registerPushToken, PhoneInv, NoticeCall
  <2>2. phone' = [x \in Tokens |->
           IF x = t THEN [of |-> u, active |-> t \in keep, fails |-> 0]
           ELSE IF phone[x].of = u /\ x \notin keep THEN [phone[x] EXCEPT !.active = FALSE] ELSE phone[x]]
    BY <1>11 DEF registerPushToken
  <2>3. newest' = [v \in People |-> IF v = u THEN t ELSE IF newest[v] = t THEN NoToken ELSE newest[v]]
    BY <1>11 DEF registerPushToken
  <2>4. touched' = After(t)
    BY <1>11 DEF registerPushToken, Touch
  <2>5. CallTable' /\ \A q \in Calls : NoticeCall(q)'
    <3>1. CallTable' /\ \A q \in Calls : call'[q] = call[q] \/ NoticeCall(q)'
      BY <1>11, <1>1 DEF registerPushToken
    <3> QED
      BY <3>1 DEF PhoneInv, NoticeCall, At
  <2>6. phone' \in [Tokens -> PhoneRows]
    BY <2>1, <2>2 DEF PhoneInv, PhoneRows
  <2>7. ASSUME NEW x \in Tokens
        PROVE  /\ phone'[t].of = u /\ phone'[t].active = TRUE
               /\ x # t /\ phone'[x].active => phone[x].active
               /\ x # t => phone'[x].of = phone[x].of
               /\ x # t /\ phone'[x].active /\ phone[x].of = u => x \in keep
               /\ x # t /\ phone[x].of # u => phone'[x] = phone[x]
    BY <2>1, <2>2 DEF PhoneInv, PhoneRows
  <2>8. ActiveTokens(u)' \in SUBSET keep /\ t \in ActiveTokens(u)'
    BY <2>1, <2>7 DEF ActiveTokens
  <2>9. ASSUME NEW v \in People, v # u PROVE ActiveTokens(v)' = ActiveTokens(v) \ {t}
    BY <2>1, <2>7, <2>9 DEF ActiveTokens
  <2>10. ASSUME NEW v \in People PROVE (Cardinality(ActiveTokens(v)) <= TokenCap)'
    <3> PICK is : is = ActiveTokens(v)'
      OBVIOUS
    <3>1. PICK bound \in SUBSET Tokens : is \in SUBSET bound /\ Cardinality(bound) <= TokenCap
      <4>1. CASE v = u
        BY <4>1, <2>1, <2>8
      <4>2. CASE v # u
        BY <4>2, <2>9 DEF PhoneInv, ActiveTokens
      <4> QED
        BY <4>1, <4>2
    <3>2. IsFiniteSet(bound) /\ IsFiniteSet(is) /\ Cardinality(is) <= Cardinality(bound)
      BY <3>1, FS_Subset, NoticeAssumption
    <3>3. Cardinality(is) \in Nat /\ Cardinality(bound) \in Nat
      BY <3>2, FS_CardinalityType
    <3> QED
      BY <3>1, <3>2, <3>3, NoticeAssumption
  <2>11. newest' \in [People -> Tokens \cup {NoToken}]
    BY <2>1, <2>3 DEF PhoneInv
  <2>12. ASSUME NEW v \in People, newest'[v] # NoToken PROVE newest'[v] \in ActiveTokens(v)'
    BY <2>1, <2>3, <2>8, <2>9, <2>12 DEF PhoneInv
  <2>13. InOrder'
    <3>1. StrictOrder(touched, Tokens)
      BY DEF PhoneInv, InOrder
    <3>2. StrictOrder(touched', Tokens)
      BY <2>1, <2>4, <3>1, AfterOrders
    <3>3. TotalOn(touched', {x \in Tokens : phone'[x].active})
      BY <2>1, <2>4, <2>7, <3>1, AfterOrders DEF PhoneInv, InOrder, TotalOn
    <3> QED
      BY <3>2, <3>3 DEF InOrder
  <2> QED
    BY <2>5, <2>6, <2>10, <2>11, <2>12, <2>13 DEF PhoneInv
<1>12. ASSUME NEW p \in Calls, deliver(p) PROVE PhoneInv'
  <2>1. PICK t \in call[p].saw :
          \/ Rest(p, t) /\ UNCHANGED <<phone, touched, newest>>
          \/ /\ phone' = [phone EXCEPT ![t].active = FALSE]
             /\ Touch(t) /\ NoLonger({t}) /\ Rest(p, t)
          \/ /\ phone' = [phone EXCEPT ![t].fails = IF @ < FailureLimit THEN @ + 1 ELSE @]
             /\ Touch(t) /\ NoLonger({t})
             /\ Rest(p, t) \/ Go(p, "giveUp", call[p].saw, t)
    BY <1>12 DEF deliver
  <2>2. t \in Tokens /\ call[p].saw \in SUBSET Tokens
    BY <1>12, <2>1 DEF deliver, PhoneInv, NoticeCall
  <2>3. CallTable' /\ \A q \in Calls : call'[q] = call[q] \/ NoticeCall(q)'
    <3>1. CASE Rest(p, t)
      BY <1>12, <3>1, <1>2 DEF deliver
    <3>2. CASE Go(p, "giveUp", call[p].saw, t)
      <4>1. CallTable' /\ call'[p] = [op |-> "giveUp", saw |-> call[p].saw, who |-> t]
            /\ \A q \in Calls \ {p} : call'[q] = call[q]
        BY <3>2, <1>0
      <4>2. NoticeCall(p)'
        BY <2>2, <4>1 DEF NoticeCall, At
      <4> QED
        BY <4>1, <4>2
    <3> QED
      BY <2>1, <3>1, <3>2
  <2>4. CASE UNCHANGED <<phone, touched, newest>>
    BY <2>3, <2>4, PhoneFrame
  <2>5. phone \in [Tokens -> PhoneRows]
    BY DEF PhoneInv
  <2>6. ASSUME NEW row \in PhoneRows, row.of = phone[t].of, row.active => phone[t].active,
               phone' = [phone EXCEPT ![t] = row], Touch(t), NoLonger({t})
        PROVE  PhoneInv'
    BY <2>2, <2>3, <2>5, <2>6, PhoneFalls DEF Touch
  <2>7. CASE phone' = [phone EXCEPT ![t].active = FALSE] /\ Touch(t) /\ NoLonger({t})
    <3>1. [phone[t] EXCEPT !.active = FALSE] \in PhoneRows
      BY <2>2, <2>5 DEF PhoneRows
    <3> QED
      BY <2>2, <2>5, <2>6, <2>7, <3>1 DEF PhoneRows
  <2>8. CASE /\ phone' = [phone EXCEPT ![t].fails = IF @ < FailureLimit THEN @ + 1 ELSE @]
             /\ Touch(t) /\ NoLonger({t})
    <3> PICK n : n = IF phone[t].fails < FailureLimit THEN phone[t].fails + 1 ELSE phone[t].fails
      OBVIOUS
    <3>1. n \in Nat
      BY <2>2, <2>5 DEF PhoneRows
    <3> PICK row : row = [phone[t] EXCEPT !.fails = n]
      OBVIOUS
    <3>2. row \in PhoneRows /\ row.of = phone[t].of /\ row.active = phone[t].active
      BY <2>2, <2>5, <3>1 DEF PhoneRows
    <3>3. phone' = [phone EXCEPT ![t] = row]
      BY <2>8
    <3> QED
      BY <2>6, <2>8, <3>2, <3>3
  <2> QED
    BY <2>1, <2>4, <2>7, <2>8
<1>13. ASSUME NEW p \in Calls, markTokenFailed(p) PROVE PhoneInv'
  <2> PICK t : t = call[p].who
    OBVIOUS
  <2>1. t \in Tokens /\ phone' = [phone EXCEPT ![t].active = FALSE] /\ touched' = After(t) /\ NoLonger({t}) /\ Rest(p, t)
    BY <1>13 DEF markTokenFailed, Touch, PhoneInv, NoticeCall
  <2>2. phone' \in [Tokens -> PhoneRows]
        /\ (\A x \in Tokens : phone'[x].of = phone[x].of /\ (phone'[x].active => phone[x].active))
        /\ \A x \in Tokens \ {t} : phone'[x] = phone[x]
    BY <2>1 DEF PhoneInv, PhoneRows
  <2>3. CallTable' /\ \A q \in Calls : call'[q] = call[q] \/ NoticeCall(q)'
    BY <1>13, <2>1, <1>2 DEF markTokenFailed
  <2> QED
    BY <2>1, <2>2, <2>3, PhoneFalls
<1>14. CASE UNCHANGED <<call, noticeVars>>
  BY <1>14, PhoneFrame DEF noticeVars, PhoneInv, CallTable
<1>15. CASE NoticeNext
  BY <1>3, <1>4, <1>5, <1>6, <1>7, <1>8, <1>9, <1>10, <1>11, <1>12, <1>13, <1>15 DEF NoticeNext
<1> QED
  BY <1>14, <1>15

Sweeping(p) == At(p, "createOnce") \/ At(p, "pushOnce")

\* As long as no two sweeps overlap: a notification that is not there was never pushed, none was
\* pushed twice, and the reminder a sweep has in hand was not pushed yet.
PushInv ==
  /\ inbox \in [Notes -> {"none", "unread", "read"}]
  /\ pushes \in [Notes -> Nat]
  /\ ~crowded =>
       /\ \A k \in Notes : pushes[k] <= 1 /\ (inbox[k] = "none" => pushes[k] = 0)
       /\ \A p \in Calls : Sweeping(p) => call[p].who \in Notes \cap Reminders /\ pushes[call[p].who] = 0
       /\ \A p \in Calls : At(p, "pushOnce") => inbox[call[p].who] # "none"
       /\ \A p, q \in Calls : Sweeping(p) /\ Sweeping(q) => p = q

\* Steps of the phones leave the inbox and the sweeps alone.
LEMMA PushFrame ==
  ASSUME PushInv, UNCHANGED <<inbox, pushes>>, crowded => crowded',
         \A q \in Calls : call'[q] = call[q] \/ ~Sweeping(q)'
  PROVE  PushInv'
BY DEF PushInv, Sweeping, At

LEMMA PushNextKeeps ==
  ASSUME PhoneInv, PushInv, [NoticeNext]_<<call, noticeVars>>
  PROVE  PushInv'
<1>0. ASSUME NEW p \in Calls, NEW op, NEW saw, NEW who, Go(p, op, saw, who)
      PROVE  call'[p] = [op |-> op, saw |-> saw, who |-> who] /\ \A q \in Calls \ {p} : call'[q] = call[q]
  BY <1>0 DEF Go, PhoneInv, CallTable
<1>1. ASSUME NEW p \in Calls, End(p)
      PROVE  call'[p] = Idle /\ \A q \in Calls \ {p} : call'[q] = call[q]
  BY <1>1, EndMoves DEF PhoneInv
<1>go. ASSUME NEW p \in Calls, NEW op \in {"register", "deliver", "giveUp"}, NEW saw, NEW who, Go(p, op, saw, who)
      PROVE  \A q \in Calls : call'[q] = call[q] \/ ~Sweeping(q)'
  BY <1>go DEF Go, PhoneInv, CallTable, Sweeping, At
<1>end. ASSUME NEW p \in Calls, End(p) PROVE \A q \in Calls : call'[q] = call[q] \/ ~Sweeping(q)'
  BY <1>1, <1>end DEF Sweeping, At, Idle
<1>3. ASSUME NEW k \in Notes, createForUser(k) PROVE PushInv'
  <2>1. k \notin Reminders /\ inbox[k] = "none" /\ UNCHANGED <<call, crowded>>
    BY <1>3 DEF createForUser
  <2>2. inbox' = [inbox EXCEPT ![k] = "unread"]
    BY <1>3 DEF createForUser
  <2>3. pushes' = pushes \/ pushes' = [pushes EXCEPT ![k] = @ + 1]
    BY <1>3 DEF createForUser, enqueuePush
  <2> QED
    BY <2>1, <2>2, <2>3 DEF PushInv, Sweeping, At
<1>4. ASSUME NEW k \in Notes, markRead(k) PROVE PushInv'
  BY <1>4 DEF markRead, PushInv, Sweeping, At
<1>5. ASSUME NEW u \in People, updatePreferences(u) PROVE PushInv'
  BY <1>5, PushFrame DEF updatePreferences
<1>6. ASSUME NEW u \in People, NEW ts \in SUBSET Tokens, unregisterPushToken(u, ts) PROVE PushInv'
  BY <1>6, PushFrame DEF unregisterPushToken
<1>7. ASSUME NEW p \in Calls, NEW k \in Notes, sendExpiryReminders(p, k) PROVE PushInv'
  <2>1. k \in Reminders /\ inbox[k] = "none" /\ Go(p, "createOnce", "fresh", k) /\ UNCHANGED <<inbox, pushes>>
    BY <1>7 DEF sendExpiryReminders, BeginCreateOnce
  <2>2. crowded' = (crowded \/ \E q \in Calls : Sweeping(q))
    BY <1>7 DEF sendExpiryReminders, BeginCreateOnce, Sweeping, At
  <2>3. call'[p] = [op |-> "createOnce", saw |-> "fresh", who |-> k] /\ \A q \in Calls \ {p} : call'[q] = call[q]
    BY <2>1, <1>0
  <2>4. CASE crowded'
    BY <2>1, <2>4 DEF PushInv
  <2>5. CASE ~crowded'
    <3>1. ~crowded /\ \A q \in Calls : ~Sweeping(q)
      BY <2>2, <2>5
    <3>2. \A q \in Calls : Sweeping(q)' => q = p
      BY <3>1, <2>3 DEF Sweeping, At
    <3>3. pushes[k] = 0 /\ ~At(p, "pushOnce")' /\ call'[p].who = k
      BY <2>1, <2>3, <3>1 DEF PushInv, At
    <3>4. \A q \in Calls : At(q, "pushOnce")' => Sweeping(q)'
      BY DEF Sweeping
    <3> QED
      BY <2>1, <3>1, <3>2, <3>3, <3>4 DEF PushInv
  <2> QED
    BY <2>4, <2>5
<1>8. ASSUME NEW p \in Calls, NEW k \in Notes, send(p, k) PROVE PushInv'
  <2>1. UNCHANGED <<inbox, pushes, crowded>>
    BY <1>8 DEF send
  <2>2. UNCHANGED call \/ Go(p, "deliver", ActiveTokens(Addressee(k)), NoToken)
    BY <1>8 DEF send
  <2> QED
    BY <2>1, <2>2, <1>go, PushFrame
<1>9. ASSUME NEW p \in Calls, NEW t \in Tokens, NEW u \in People, BeginRegister(p, t, u) PROVE PushInv'
  <2>1. Go(p, "register", Keepers(u, t), <<t, u>>) /\ UNCHANGED <<inbox, pushes>> /\ (crowded => crowded')
    BY <1>9 DEF BeginRegister
  <2> QED
    BY <2>1, <1>go, PushFrame
<1>10. ASSUME NEW p \in Calls, createOnce(p) PROVE PushInv'
  <2> PICK k : k = call[p].who
    OBVIOUS
  <2>1. k \in Notes /\ Go(p, "pushOnce", "fresh", k) /\ UNCHANGED <<pushes, crowded>>
    BY <1>10 DEF createOnce, PhoneInv, NoticeCall
  <2>2. inbox' = [inbox EXCEPT ![k] = IF @ = "none" THEN "unread" ELSE @]
    BY <1>10 DEF createOnce
  <2>3. call'[p] = [op |-> "pushOnce", saw |-> "fresh", who |-> k] /\ \A q \in Calls \ {p} : call'[q] = call[q]
    BY <2>1, <1>0
  <2>4. Sweeping(p) /\ Sweeping(p)' /\ \A q \in Calls \ {p} : Sweeping(q)' = Sweeping(q) /\ At(q, "pushOnce")' = At(q, "pushOnce")
    BY <1>10, <2>3 DEF createOnce, Sweeping, At
  <2>5. inbox' \in [Notes -> {"none", "unread", "read"}] /\ \A n \in Notes : inbox'[n] = "none" => inbox[n] = "none" /\ n # k
    BY <2>1, <2>2 DEF PushInv
  <2>6. CASE ~crowded
    <3>1. \A n \in Notes : pushes[n] <= 1 /\ (inbox'[n] = "none" => pushes[n] = 0)
      BY <2>5, <2>6 DEF PushInv
    <3>2. k \in Reminders /\ pushes[k] = 0 /\ \A q \in Calls : Sweeping(q) => q = p
      BY <2>4, <2>6 DEF PushInv
    <3>3. \A q \in Calls : At(q, "pushOnce")' => Sweeping(q)'
      BY DEF Sweeping
    <3>4. \A q \in Calls : Sweeping(q)' => q = p
      BY <2>4, <3>2
    <3> QED
      BY <2>1, <2>3, <2>5, <2>6, <3>1, <3>2, <3>3, <3>4 DEF PushInv
  <2>7. CASE crowded
    BY <2>1, <2>5, <2>7 DEF PushInv
  <2> QED
    BY <2>6, <2>7
<1>11. ASSUME NEW p \in Calls, pushOnce(p) PROVE PushInv'
  <2> PICK k : k = call[p].who
    OBVIOUS
  <2>1. k \in Notes /\ End(p) /\ UNCHANGED <<inbox, crowded>> /\ Sweeping(p) /\ At(p, "pushOnce")
    BY <1>11 DEF pushOnce, PhoneInv, NoticeCall, Sweeping
  <2>2. pushes' = pushes \/ pushes' = [pushes EXCEPT ![k] = @ + 1]
    BY <1>11 DEF pushOnce, enqueuePush
  <2>3. call'[p] = Idle /\ \A q \in Calls \ {p} : call'[q] = call[q]
    BY <2>1, <1>1
  <2>4. ~Sweeping(p)' /\ \A q \in Calls \ {p} : Sweeping(q)' = Sweeping(q) /\ At(q, "pushOnce")' = At(q, "pushOnce")
    BY <2>3 DEF Sweeping, At, Idle
  <2>5. pushes' \in [Notes -> Nat]
    BY <2>1, <2>2 DEF PushInv
  <2>6. CASE ~crowded
    <3>1. \A q \in Calls : ~Sweeping(q)'
      BY <2>1, <2>4, <2>6 DEF PushInv
    <3>2. pushes[k] = 0 /\ inbox[k] # "none"
      BY <2>1, <2>6 DEF PushInv
    <3>3. \A n \in Notes : pushes'[n] <= 1 /\ (inbox[n] = "none" => pushes'[n] = 0)
      BY <2>1, <2>2, <2>6, <3>2 DEF PushInv
    <3>4. \A q \in Calls : At(q, "pushOnce")' => Sweeping(q)'
      BY DEF Sweeping
    <3> QED
      BY <2>1, <2>5, <3>1, <3>3, <3>4 DEF PushInv
  <2>7. CASE crowded
    BY <2>1, <2>5, <2>7 DEF PushInv
  <2> QED
    BY <2>6, <2>7
<1>12. ASSUME NEW p \in Calls, registerPushToken(p) PROVE PushInv'
  BY <1>12, <1>end, PushFrame DEF registerPushToken
<1>13. ASSUME NEW p \in Calls, NEW t, Rest(p, t), UNCHANGED <<inbox, pushes, crowded>> PROVE PushInv'
  BY <1>13, <1>go, <1>end, PushFrame DEF Rest
<1>14. ASSUME NEW p \in Calls, deliver(p) PROVE PushInv'
  <2>1. UNCHANGED <<inbox, pushes, crowded>>
    BY <1>14 DEF deliver
  <2>2. PICK t \in call[p].saw : Rest(p, t) \/ Go(p, "giveUp", call[p].saw, t)
    BY <1>14 DEF deliver
  <2> QED
    BY <2>1, <2>2, <1>go, <1>13, PushFrame
<1>15. ASSUME NEW p \in Calls, markTokenFailed(p) PROVE PushInv'
  BY <1>15, <1>13 DEF markTokenFailed
<1>16. ASSUME NEW p \in Calls, DeliveryFails(p) PROVE PushInv'
  BY <1>16, <1>end, PushFrame DEF DeliveryFails, noticeVars
<1>17. CASE UNCHANGED <<call, noticeVars>>
  BY <1>17, PushFrame DEF noticeVars
<1>18. CASE NoticeNext
  BY <1>3, <1>4, <1>5, <1>6, <1>7, <1>8, <1>9, <1>10, <1>11, <1>12, <1>14, <1>15, <1>16, <1>18 DEF NoticeNext
<1> QED
  BY <1>17, <1>18

\* The phone a user registered last rings, whoever else registers, signs out or fails, and
\* nobody has more active phones than the cap; a reminder is pushed once, unless two sweeps
\* overlap (registerPushToken, markTokenFailed, createOnce).
THEOREM LastPhoneRings == NoticeSpec => []NewestPhoneRings
<1>1. HandlersInit /\ NoticeInit => PushInv
  BY DEF HandlersInit, NoticeInit, PushInv, Sweeping, At, Idle
<1>2. PhoneInv /\ PushInv => NewestPhoneRings
  BY DEF PhoneInv, PushInv, NewestPhoneRings
<1> QED
  BY <1>1, <1>2, PhoneInitHolds, PhoneNextKeeps, PushNextKeeps, PTL DEF NoticeSpec
=============================================================================
