----------------------------- MODULE Documents -----------------------------
(***************************************************************************)
(* Links to documents: the attachments of a course (attachments.service.ts)*)
(* and the documents of the library (library-documents.service.ts).  A     *)
(* link is signed once and then judged on every request by the edge, which *)
(* asks ticketLiveness (playback.service.ts): the decision that issued the *)
(* link is made a second time, by other code, over a database that has     *)
(* moved on.                                                               *)
(*                                                                         *)
(* One student with one session and two devices; one lecture, attachment   *)
(* or library part.  What staff and sweeps do to courses, enrollments,     *)
(* materials, sessions and devices is modelled by the modules of those     *)
(* parts; here each fact they leave behind changes by itself.              *)
(***************************************************************************)
EXTENDS Naturals

CONSTANTS Phones       \* the student's devices

VARIABLES
  shelf,       \* what this behaviour is about: a document of a course or of the library, a lecture
  seat,        \* the course, the student's enrollment and its scope, the section (dripped: not
               \* released yet) and a lecture of it (sample: a free preview)
  paper,       \* the attachment
  stock,       \* the library part, its material and the student's entitlement
  client,      \* the session, its device, and the devices that are ACTIVE
  issued       \* the link that has not run out

docVars == <<shelf, seat, paper, stock, client, issued>>

Statuses == {"PUBLISHED", "DRAFT", "ARCHIVED"}

DocInit ==
  /\ shelf \in {"course", "lecture", "library"}
  /\ seat = [course |-> "PUBLISHED", targeted |-> TRUE, state |-> "ACTIVE", scope |-> "whole",
             lecture |-> "PUBLISHED", section |-> "PUBLISHED", dripped |-> FALSE, sample |-> FALSE]
  /\ paper = [at |-> "none", preview |-> FALSE, protected |-> TRUE]
  /\ stock = [part |-> "PUBLISHED", listed |-> TRUE, preview |-> FALSE, material |-> "PUBLISHED",
              visible |-> TRUE, storefront |-> TRUE, held |-> "none"]
  /\ \E d \in Phones : client = [session |-> "ACTIVE", on |-> d, phones |-> {d}]
  /\ issued = {}

-----------------------------------------------------------------------------
\* CourseAccessService.decide, with resolve's targeting: a HIDDEN course is off the catalogue and
\* unchanged for those already in; a SUSPENDED one (a DRAFT is refused where it is) is paused.
decideContent ==
  /\ seat.targeted /\ seat.course \in {"PUBLISHED", "HIDDEN"}
  /\ seat.state = "ACTIVE"

\* The preview exception of assertContentAccess: to anyone the course is meant for, unless it is
\* archived, or paused for a student whose enrollment stands.
PreviewAllowed ==
  /\ seat.targeted /\ seat.course # "ARCHIVED"
  /\ ~(seat.course = "SUSPENDED" /\ seat.state = "ACTIVE")

assertContentAccess == decideContent \/ (paper.preview /\ PreviewAllowed)

\* allowedSectionIds / grantedByWholeCourseCard: the section, or the whole course.
allowedSection ==
  seat.scope \in {"whole", "granted"} \/ (seat.scope = "part" /\ seat.section # "ARCHIVED")

PaperShown ==
  /\ paper.at = "lecture" => seat.lecture = "PUBLISHED"
  /\ paper.at \in {"lecture", "section"} => seat.section = "PUBLISHED"

PaperScoped == paper.at \in {"lecture", "section"} => allowedSection

\* assertAuthorizedForProtectedContent: the device of the session, and ACTIVE.
assertAuthorizedForProtectedContent(d) == d = client.on /\ d \in client.phones

SignedIn == client.session = "ACTIVE"

\* AttachmentsService.issueTicket's checks.
MayIssueAttachment(d) ==
  /\ SignedIn /\ paper.at \in {"lecture", "section", "course"}
  /\ assertContentAccess /\ PaperShown
  /\ ~paper.preview => PaperScoped
  /\ paper.protected => assertAuthorizedForProtectedContent(d)

\* Mutant: the section is not looked at again.
attachmentTicketLiveness_NoSection ==
  /\ paper.at \in {"lecture", "section", "course"} /\ PaperShown
  /\ ~paper.preview => decideContent
  /\ SignedIn
  /\ paper.protected => client.phones # {}

\* attachmentTicketLiveness: any session and any device of the student will do.
attachmentTicketLiveness ==
  /\ paper.at \in {"lecture", "section", "course"} /\ PaperShown
  /\ ~paper.preview => decideContent /\ PaperScoped
  /\ SignedIn
  /\ paper.protected => client.phones # {}

-----------------------------------------------------------------------------
TakenBack == stock.part \in {"ARCHIVED", "GONE"} \/ stock.material \in {"ARCHIVED", "GONE"}

\* isPublished of the part and of its material.
OnShelf == stock.part = "PUBLISHED" /\ stock.listed /\ stock.material = "PUBLISHED"

\* LibraryDocumentsService.issueTicket: a link to what the student owns ...
MayIssueOwned(d) ==
  /\ SignedIn /\ stock.held = "live" /\ ~TakenBack
  /\ ~stock.preview => assertAuthorizedForProtectedContent(d)

\* ... or to a preview.
MayIssuePreview ==
  /\ SignedIn /\ stock.held # "live"
  /\ stock.preview /\ stock.storefront /\ stock.visible /\ OnShelf

\* libraryTicketLiveness, bound to the session and the device of the link.
libraryTicketLiveness(d) ==
  /\ ~TakenBack /\ stock.held = "live" /\ SignedIn
  /\ ~stock.preview => (client.on = d /\ d \in client.phones)

\* The same for a legacyProbe, of an edge that was deployed before links were bound: any session
\* and any device of the student will do.
libraryLegacyLiveness ==
  /\ ~TakenBack /\ stock.held = "live" /\ SignedIn
  /\ ~stock.preview => client.phones # {}

\* libraryPreviewTicketLiveness.
libraryPreviewTicketLiveness ==
  stock.storefront /\ stock.preview /\ OnShelf /\ stock.visible /\ SignedIn

-----------------------------------------------------------------------------
\* A link; one at a time, since what is said of a link does not depend on the others.
issueLink(d) ==
  /\ issued = {}
  /\ LET kinds == (IF shelf = "course" /\ MayIssueAttachment(d) THEN {"attachment"} ELSE {})
                    \cup (IF shelf = "library" /\ MayIssueOwned(d) THEN {"owned"} ELSE {})
                    \cup (IF shelf = "library" /\ MayIssuePreview THEN {"preview"} ELSE {})
     IN  \E k \in kinds : issued' = {<<k, d>>}
  /\ UNCHANGED <<shelf, seat, paper, stock, client>>

LinkRunsOut(l) == l \in issued /\ issued' = issued \ {l} /\ UNCHANGED <<shelf, seat, paper, stock, client>>

\* AttachmentsService.create: of a lecture, of a section or of the course.
createAttachment(at, preview, protected) ==
  /\ shelf = "course" /\ paper.at = "none"
  /\ paper' = [at |-> at, preview |-> preview, protected |-> protected]
  /\ UNCHANGED <<shelf, seat, stock, client, issued>>

updateAttachment(preview, protected) ==
  /\ shelf = "course" /\ paper.at \in {"lecture", "section", "course"}
  /\ paper' = [paper EXCEPT !.preview = preview, !.protected = protected]
  /\ UNCHANGED <<shelf, seat, stock, client, issued>>

removeAttachment ==
  /\ shelf = "course" /\ paper.at \in {"lecture", "section", "course"}
  /\ paper' = [at |-> "removed", preview |-> FALSE, protected |-> TRUE]
  /\ UNCHANGED <<shelf, seat, stock, client, issued>>

\* The course, its content and the enrollment change (CourseAdmin, Content, Enrollments).
SeatChanges ==
  /\ shelf \in {"course", "lecture"}
  /\ \/ \E c \in {"PUBLISHED", "HIDDEN", "SUSPENDED", "ARCHIVED"} : seat' = [seat EXCEPT !.course = c]
     \/ \E s \in {"ACTIVE", "LAPSED", "REVOKED"} : seat' = [seat EXCEPT !.state = s]
     \/ \E s \in {"whole", "granted", "part", "other"} : seat' = [seat EXCEPT !.scope = s]
     \/ \E s \in Statuses : seat' = [seat EXCEPT !.section = s]
     \/ \E s \in {"PUBLISHED", "DRAFT"} : seat' = [seat EXCEPT !.lecture = s]
     \/ \E b \in BOOLEAN :
          \/ seat' = [seat EXCEPT !.targeted = b]
          \/ shelf = "lecture" /\ (seat' = [seat EXCEPT !.dripped = b] \/ seat' = [seat EXCEPT !.sample = b])
  /\ UNCHANGED <<shelf, paper, stock, client, issued>>

\* The material, the shop and the entitlement change (Library).
StockChanges ==
  /\ shelf = "library"
  /\ \/ \E s \in Statuses \cup {"GONE"} : stock' = [stock EXCEPT !.part = s] \/ stock' = [stock EXCEPT !.material = s]
     \/ \E h \in {"live", "revoked"} : stock' = [stock EXCEPT !.held = h]
     \/ \E b \in BOOLEAN :
          \/ stock' = [stock EXCEPT !.listed = b] \/ stock' = [stock EXCEPT !.preview = b]
          \/ stock' = [stock EXCEPT !.visible = b] \/ stock' = [stock EXCEPT !.storefront = b]
  /\ UNCHANGED <<shelf, seat, paper, client, issued>>

\* Sign-out, an administrator's revocation, a change of device and a new sign-in (Sessions).
ClientChanges ==
  /\ \/ \E s \in {"ACTIVE", "ENDED"} : client' = [client EXCEPT !.session = s]
     \/ \E d \in Phones : client' = [client EXCEPT !.phones = {d}] \/ client' = [session |-> "ACTIVE", on |-> d, phones |-> {d}]
     \/ client' = [client EXCEPT !.phones = {}]
  /\ UNCHANGED <<shelf, seat, paper, stock, issued>>

DocNext ==
  \/ \E d \in Phones : issueLink(d)
  \/ \E l \in issued : LinkRunsOut(l)
  \/ \E at \in {"lecture", "section", "course"}, preview, protected \in BOOLEAN : createAttachment(at, preview, protected)
  \/ \E preview, protected \in BOOLEAN : updateAttachment(preview, protected)
  \/ removeAttachment \/ SeatChanges \/ StockChanges \/ ClientChanges

DocSpec == DocInit /\ [][DocNext]_docVars

-----------------------------------------------------------------------------
\* What ticketLiveness answers for a link, to an edge of today or (legacy) of before.
ticketLiveness(l, legacy) ==
  CASE l[1] = "attachment" -> attachmentTicketLiveness
    [] l[1] = "owned"      -> IF legacy THEN libraryLegacyLiveness ELSE libraryTicketLiveness(l[2])
    [] OTHER               -> libraryPreviewTicketLiveness

\* The device of the session has been taken away.
DeviceLost == client.on \notin client.phones

\* A link that still opens is one the student could still be given: whatever was hidden,
\* revoked, sold, emptied or withdrawn after it was signed, the edge's second decision agrees
\* with the first (issueTicket of both services, ticketLiveness).  For an attachment, and for
\* any link asked about by an edge of before, this is so but for the device; and for previews of
\* a course, where the second decision asks less.
LiveLinkIsStillEarned ==
  \A l \in issued, legacy \in BOOLEAN : ticketLiveness(l, legacy) =>
    CASE l[1] = "owned"   -> MayIssueOwned(l[2]) \/ (legacy /\ (DeviceLost \/ \E d \in Phones : MayIssueOwned(d)))
      [] l[1] = "preview" -> MayIssuePreview \/ stock.held = "live"
      [] OTHER            -> paper.preview \/ DeviceLost \/ \E d \in Phones : MayIssueAttachment(d)
=============================================================================
