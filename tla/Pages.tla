------------------------------- MODULE Pages -------------------------------
(***************************************************************************)
(* What a student's pages say can be opened (courses.service.ts with       *)
(* course.serializer.ts, LibraryService) beside what opens when asked for  *)
(* (LessonsService.detail and the links of Documents).  The lock drawn on  *)
(* a page and the door behind it are decided by different code.            *)
(***************************************************************************)
EXTENDS Documents

\* CoursesService.list and listMine: the catalogue, and the student's own courses.
list == seat.targeted /\ seat.course = "PUBLISHED"
listMine == seat.targeted /\ seat.state \in {"ACTIVE", "LAPSED"}

\* detail: the page is served to those the course is meant for (resolve), PUBLISHED or ARCHIVED.
detail == seat.targeted /\ seat.course \in {"PUBLISHED", "ARCHIVED"}

\* loadSections: what of the section and its lecture is on the page.
loadSections == seat.section = "PUBLISHED"
loadLectures == loadSections /\ seat.lecture = "PUBLISHED"

\* Mutant: whoever may open the course may open all of its sections.
sections_CourseWide == decideContent

\* sections, and the same test in detail: content of a section needs its scope as well.
sections == decideContent /\ allowedSection

\* The locks drawn on a section (toSection), a lecture (toLessonSummary) and a document (toAttachment).
toSection == seat.dripped \/ ~sections
toLessonSummary == (~sections \/ seat.dripped) /\ ~seat.sample
toAttachment == ~decideContent /\ ~paper.preview

\* attachments: what the page lists of the documents (STUDENT_VISIBLE_ATTACHMENTS).
attachments == detail /\ paper.at \in {"lecture", "section", "course"} /\ PaperShown

\* LessonsService.detail: the lecture opens.
lessonDetail ==
  /\ SignedIn /\ loadLectures
  /\ decideContent \/ (seat.sample /\ PreviewAllowed)
  /\ ~seat.sample => allowedSection /\ ~seat.dripped

-----------------------------------------------------------------------------
\* browse: the shop's shelf, while the shop is open.
browse == stock.storefront /\ stock.visible /\ stock.material = "PUBLISHED"

\* fullView's accessOf; a part of the shop has a price.
accessOf ==
  CASE stock.held = "live"    -> "OWNED"
    [] stock.held # "live" /\ stock.preview -> "PREVIEW"
    [] stock.held = "revoked" /\ ~stock.preview -> "REVOKED"
    [] OTHER                  -> "PURCHASABLE"

\* ownerView: only what the student owns and is on the shelf.
ownerView == IF stock.held = "live" /\ OnShelf THEN {"OWNED"} ELSE {}

\* materialForStudent: the full view, or to a former reader the owner's.
materialForStudent ==
  CASE browse                                             -> IF OnShelf THEN {accessOf} ELSE {}
    [] ~browse /\ stock.material = "PUBLISHED" /\ stock.held = "live" /\ stock.part # "GONE" -> ownerView
    [] OTHER                                              -> {}

\* myLibrary: everything held, with what has been withdrawn marked.
myLibrary ==
  IF stock.held = "live" /\ stock.part # "GONE" THEN {IF TakenBack THEN "WITHDRAWN" ELSE "READABLE"} ELSE {}

-----------------------------------------------------------------------------
\* The device in the student's hand is the one of the session, and known.
InHand == SignedIn /\ client.on \in client.phones

\* The section of the document is not drawn as outside the student's scope.
SectionOpen == paper.at = "course" \/ paper.preview \/ sections

\* A course of the catalogue has a page; a lecture drawn unlocked on a published course
\* opens, and one drawn locked does not; a document opens exactly when it is listed unlocked
\* and its section is within the student's scope; what opens belongs to a course under My
\* courses, and has a page unless the course is HIDDEN (the page is refused, the lecture is
\* not), but for samples, which also open on a course that was paused.
CoursePageIsTrue ==
  /\ list => detail
  /\ (SignedIn /\ list /\ loadLectures) => (lessonDetail <=> ~toLessonSummary)
  /\ lessonDetail /\ ~seat.sample => listMine /\ ~toSection /\ (detail \/ seat.course = "HIDDEN")
  /\ (InHand /\ list) => (MayIssueAttachment(client.on) <=> attachments /\ ~toAttachment /\ SectionOpen)

\* A part shown as owned or readable opens, one that opens is in My library as readable, a
\* preview opens to anyone it is shown to, and a part offered for sale or shown as revoked
\* does not open.
LibraryPageIsTrue ==
  InHand =>
    /\ ("OWNED" \in materialForStudent \/ "READABLE" \in myLibrary) => MayIssueOwned(client.on)
    /\ MayIssueOwned(client.on) => myLibrary = {"READABLE"}
    /\ "PREVIEW" \in materialForStudent <=> MayIssuePreview
    /\ materialForStudent \cap {"REVOKED", "PURCHASABLE"} # {} => ~MayIssueOwned(client.on) /\ ~MayIssuePreview

\* What the pages promise is what the doors do, whatever was hidden, revoked, sold, released or
\* withdrawn since: on a course, except that a HIDDEN one opens a lecture without a page and a
\* paused one its samples, and in the library (CoursesService, LessonsService.detail,
\* AttachmentsService.issueTicket; LibraryService.materialForStudent, myLibrary,
\* LibraryDocumentsService.issueTicket).
PagesTellTheTruth == IF shelf = "library" THEN LibraryPageIsTrue ELSE CoursePageIsTrue
=============================================================================
