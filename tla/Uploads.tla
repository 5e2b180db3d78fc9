------------------------------ MODULE Uploads ------------------------------
(***************************************************************************)
(* Files that staff upload: documents of a course, put straight into the   *)
(* store through a signed link or through the API, and course images       *)
(* (storage.controller.ts, storage.service.ts, cloudinary.service.ts, with *)
(* their registration in attachments.service.ts and                        *)
(* courses.admin.service.ts).  The store and the database share no         *)
(* transaction: a file is uploaded, then registered; a row is changed,     *)
(* then the file it left is deleted.                                       *)
(***************************************************************************)
EXTENDS Handlers

CONSTANTS
  Keys,        \* object keys, each minted once (randomUUID)
  Owners,      \* courses
  Rows         \* attachment rows

VARIABLES
  minted,      \* minted[k]: the course and the kind of file a key was minted for
  object,      \* object[k]: what the store holds: nothing, a file, or one over the limit
  signed,      \* keys whose upload link has not run out
  picture,     \* picture[c]: courses.thumbnailKey
  document,    \* document[i]: attachments.objectKey of a row that is not deleted
  used,        \* history: keys that have been registered
  rewritten,   \* history: keys written through their link once registered, or about to be
  reused       \* history: a key that had been registered was registered again

uploadVars == <<minted, object, signed, picture, document, used, rewritten, reused>>

NoKey == "none"

ASSUME UploadAssumption == NoKey \notin Keys

UploadInit ==
  /\ minted = [k \in Keys |-> <<"none", "none">>]
  /\ object = [k \in Keys |-> "absent"] /\ signed = {}
  /\ picture = [c \in Owners |-> NoKey] /\ document = [i \in Rows |-> NoKey]
  /\ used = {} /\ rewritten = {} /\ reused = FALSE

-----------------------------------------------------------------------------
\* attachment: a key of the course's namespace and a link to write it.
presignUpload(k, c) ==
  /\ minted[k] = <<"none", "none">>
  /\ minted' = [minted EXCEPT ![k] = <<c, "document">>]
  /\ signed' = signed \cup {k}
  /\ UNCHANGED <<object, picture, document, used, rewritten, reused, call>>

\* The browser writes through the link, as often as it likes: the link knows no size.
PutThroughLink(k, size) ==
  /\ k \in signed
  /\ object' = [object EXCEPT ![k] = size]
  /\ rewritten' = IF k \in used \/ \E p \in Calls : At(p, "register") /\ call[p].saw = k
                  THEN rewritten \cup {k} ELSE rewritten
  /\ UNCHANGED <<minted, signed, picture, document, used, reused, call>>

LinkExpires(k) ==
  /\ k \in signed
  /\ signed' = signed \ {k}
  /\ UNCHANGED <<minted, object, picture, document, used, rewritten, reused, call>>

\* attachmentContent / courseThumbnailContent: through the API, within the declared length.
putStream(k, c, kind) ==
  /\ minted[k] = <<"none", "none">>
  /\ minted' = [minted EXCEPT ![k] = <<c, kind>>]
  /\ object' = [object EXCEPT ![k] = "file"]
  /\ UNCHANGED <<signed, picture, document, used, rewritten, reused, call>>

-----------------------------------------------------------------------------
\* assertObjectKeyInNamespace.
InNamespace(k, c) == minted[k] = <<c, "document">>

\* Mutant: the size that was declared is believed.
assertUploadWithinLimit_Declared(k) == object[k] # "absent"

assertUploadWithinLimit(k) == object[k] = "file"

\* AttachmentsService.create: the key and the file behind it are checked ...
BeginRegisterDocument(p, i, c, k) ==
  /\ At(p, "idle") /\ document[i] = NoKey
  /\ InNamespace(k, c) /\ assertUploadWithinLimit(k)
  /\ Go(p, "register", k, i)
  /\ UNCHANGED uploadVars

\* ... and the row is written.
registerDocument(p) ==
  LET k == call[p].saw  i == call[p].who IN
  /\ At(p, "register") /\ document[i] = NoKey
  /\ document' = [document EXCEPT ![i] = k]
  /\ reused' = (reused \/ k \in used) /\ used' = used \cup {k}
  /\ End(p)
  /\ UNCHANGED <<minted, object, signed, picture, rewritten>>

\* AttachmentsService.remove: the row ...
BeginRemoveDocument(p, i) ==
  /\ At(p, "idle") /\ document[i] # NoKey
  /\ document' = [document EXCEPT ![i] = NoKey]
  /\ Go(p, "delete", document[i], i)
  /\ UNCHANGED <<minted, object, signed, picture, used, rewritten, reused>>

\* ... then the file, unless the store is away.
deleteObject(p) ==
  /\ At(p, "delete")
  /\ \/ object' = [object EXCEPT ![call[p].saw] = "absent"]
     \/ UNCHANGED object
  /\ End(p)
  /\ UNCHANGED <<minted, signed, picture, document, used, rewritten, reused>>

-----------------------------------------------------------------------------
\* assertCourseThumbnailKey: no picture at all, or anything that is not a document's key.  The
\* store is not asked: a caller may name a picture nobody uploaded ("invented"), which stays
\* missing, as keys are random and minted once.
assertCourseThumbnailKey(k) == k # NoKey => minted[k][2] # "document"

Named(k) == IF k # NoKey /\ minted[k][2] = "none" THEN [minted EXCEPT ![k] = <<"none", "invented">>] ELSE minted

\* Course c shows k from now on.
Show(c, k) ==
  /\ picture' = [picture EXCEPT ![c] = k]
  /\ reused' = (reused \/ (k \in used /\ picture[c] # k)) /\ used' = used \cup ({k} \ {NoKey})

\* CoursesAdminService.create: a course nothing has been said about yet comes with its picture.
NotYet(c) ==
  /\ picture[c] = NoKey /\ \A k \in Keys : minted[k][1] # c
  /\ \A p \in Calls : call[p].op \in {"setPicture", "discard"} => call[p].who[1] # c

createWithPicture(c, k) ==
  /\ NotYet(c) /\ assertCourseThumbnailKey(k)
  /\ minted' = Named(k)
  /\ Show(c, k)
  /\ UNCHANGED <<object, signed, document, rewritten, call>>

\* CoursesAdminService.update with a picture: the row is read ...
BeginSetPicture(p, c, k) ==
  /\ At(p, "idle") /\ assertCourseThumbnailKey(k)
  /\ minted' = Named(k)
  /\ Go(p, "setPicture", picture[c], <<c, k>>)
  /\ UNCHANGED <<object, signed, picture, document, used, rewritten, reused>>

\* ... and written.
setPicture(p) ==
  /\ At(p, "setPicture")
  /\ Show(call[p].who[1], call[p].who[2])
  /\ Go(p, "discard", call[p].saw, call[p].who)
  /\ UNCHANGED <<minted, object, signed, document, rewritten>>

\* discardReplacedThumbnail: only an image of this course that has really been replaced (one that
\* was made up is not there to be deleted).
Replaced(previous, next, c) == previous # NoKey /\ next # previous /\ minted[previous] = <<c, "image">>

discardReplacedThumbnail(p) ==
  LET previous == call[p].saw IN
  /\ At(p, "discard")
  /\ \/ /\ Replaced(previous, call[p].who[2], call[p].who[1])
        /\ object' = [object EXCEPT ![previous] = "absent"]
     \/ UNCHANGED object
  /\ End(p)
  /\ UNCHANGED <<minted, signed, picture, document, used, rewritten, reused>>

UploadNext ==
  \/ \E k \in Keys :
       \/ \E c \in Owners : presignUpload(k, c) \/ putStream(k, c, "document") \/ putStream(k, c, "image")
       \/ \E size \in {"file", "oversize"} : PutThroughLink(k, size)
       \/ LinkExpires(k)
  \/ \E c \in Owners, k \in Keys : createWithPicture(c, k)
  \/ \E p \in Calls :
       \/ \E i \in Rows, c \in Owners, k \in Keys : BeginRegisterDocument(p, i, c, k)
       \/ \E i \in Rows : BeginRemoveDocument(p, i)
       \/ \E c \in Owners, k \in Keys \cup {NoKey} : BeginSetPicture(p, c, k)
       \/ registerDocument(p) \/ deleteObject(p) \/ setPicture(p) \/ discardReplacedThumbnail(p)

UploadSpec == HandlersInit /\ UploadInit /\ [][UploadNext]_<<call, uploadVars>>

-----------------------------------------------------------------------------
\* What was uploaded and registered is in the store, however many requests replace and remove at
\* once, unless a key was registered a second time; and no document is over the limit unless its
\* link was used again behind the check (AttachmentsService.create and remove,
\* discardReplacedThumbnail).  Documents are registered from the store, so every document is
\* there; a picture need not be, if its key was made up (assertCourseThumbnailKey).
RegisteredFileIsThere ==
  /\ ~reused =>
       /\ \A c \in Owners :
            picture[c] # NoKey /\ minted[picture[c]][2] = "image" => object[picture[c]] # "absent"
       /\ \A i \in Rows : document[i] # NoKey => object[document[i]] # "absent"
  /\ \A i \in Rows : document[i] \notin rewritten \cup {NoKey} => object[document[i]] # "oversize"
=============================================================================
