------------------------------ MODULE Content ------------------------------
(***************************************************************************)
(* What a course contains and who may still be playing it: sections,       *)
(* lectures, the videos attached to them (one video may serve several      *)
(* lectures), the tickets issued for them and the counters the course      *)
(* keeps (sections.service.ts, lessons.service.ts, lesson-video.service.ts,*)
(* videos.service.ts).                                                     *)
(*                                                                         *)
(* A handler reads in one step and writes in a later one; most of them end *)
(* with recountCourse, which again counts in one statement and stores in   *)
(* another.  Positions are Ordering's, the video pipeline is Videos'.      *)
(***************************************************************************)
EXTENDS Handlers, Naturals, FiniteSets, Functions

CONSTANTS Lectures, Sections, Clips,
          SectionOf(_)   \* the section a lecture is created in

ASSUME ContentAssumption == \A l \in Lectures : SectionOf(l) \in Sections

VARIABLES
  section,     \* section[s]: status and deletedAt
  lecture,     \* lecture[l]: status, deletedAt and whether durationSeconds is set
  clip,        \* clip[v]: the videos row: status, deletedAt, the lecture that owns it
  links,       \* lesson_videos
  playing,     \* the active tickets, <<lecture, video>>
  counters,    \* courses.sectionCount, lessonCount, totalDurationSeconds
  crossed      \* history: a handler wrote what another had read and not yet written

contentVars == <<section, lecture, clip, links, playing, counters, crossed>>

Row(status) == [status |-> status, gone |-> FALSE]
Zeroes == [sections |-> 0, lectures |-> 0, duration |-> 0]

ContentInit ==
  /\ section = [s \in Sections |-> Row("NONE")]
  /\ lecture = [l \in Lectures |-> [status |-> "NONE", gone |-> FALSE, long |-> 0]]
  /\ clip = [v \in Clips |-> [status |-> "NONE", gone |-> FALSE, owner |-> "none"]]
  /\ links = {} /\ playing = {} /\ counters = Zeroes /\ crossed = FALSE

Live(row) == row.status # "NONE" /\ ~row.gone
Open(row) == row.status = "PUBLISHED" /\ ~row.gone
LinkedTo(v) == {l \in Lectures : <<l, v>> \in links}
LiveLinks(v) == {l \in LinkedTo(v) : Live(lecture[l])}
Free(p) == At(p, "idle")

\* What a handler that has read is about to write, or has counted.
Footprint(c) ==
  CASE c.op = "idle" \/ c.op = "recount" -> {}
    [] c.op = "store" -> {"counters"}
    [] c.op \in {"updateSection", "removeSection"} -> {c.who} \cup {l \in Lectures : SectionOf(l) = c.who}
    [] c.op = "createLecture" -> {c.who, SectionOf(c.who)}
    [] c.op \in {"updateLecture", "revoke", "removeLecture"} -> {c.who}
    [] c.op = "removeVideo" -> LinkedTo(c.who[2]) \cup {c.who[2]}
    [] OTHER -> {c.who[1], c.who[2]}

\* p writes these rows, and with them what the counters count.
Writes(p, rows) ==
  crossed' = (crossed \/ \E q \in Calls \ {p} : Footprint(call[q]) \cap (rows \cup {"counters"}) # {})

\* p writes what it is about, and goes on with recountCourse.
ThenRecount(p) == Go(p, "recount", "none", "none") /\ Writes(p, Footprint(call[p]))

Reads(p, op, saw, who) ==
  /\ Free(p) /\ Go(p, op, saw, who)
  /\ UNCHANGED contentVars

-----------------------------------------------------------------------------
\* recountCourse counts what is published and not deleted ...
Counted ==
  [sections |-> Cardinality({s \in Sections : Open(section[s])}),
   lectures |-> Cardinality({l \in Lectures : Open(lecture[l])}),
   duration |-> SumFunctionOnSet([l \in Lectures |-> lecture[l].long],
                                 {l \in Lectures : Open(lecture[l])})]

recountCourse(p) ==
  /\ At(p, "recount")
  /\ Go(p, "store", Counted, "none")
  /\ UNCHANGED contentVars

\* ... and stores what it counted.
StoreCounters(p) ==
  /\ At(p, "store")
  /\ counters' = call[p].saw
  /\ End(p)
  /\ UNCHANGED <<section, lecture, clip, links, playing, crossed>>

-----------------------------------------------------------------------------
\* SectionsService.create: published unless said otherwise.
createSection(p, s) ==
  /\ Free(p) /\ section[s].status = "NONE"
  /\ \E st \in {"PUBLISHED", "DRAFT"} : section' = [section EXCEPT ![s] = Row(st)]
  /\ Go(p, "recount", "none", "none") /\ Writes(p, {s})
  /\ UNCHANGED <<lecture, clip, links, playing, counters>>

BeginUpdateSection(p, s) == Live(section[s]) /\ Reads(p, "updateSection", "none", s)

\* update hides or shows a section; no ticket is revoked.
updateSection(p) ==
  /\ At(p, "updateSection")
  /\ \E st \in {"PUBLISHED", "DRAFT"} : section' = [section EXCEPT ![call[p].who].status = st]
  /\ ThenRecount(p)
  /\ UNCHANGED <<lecture, clip, links, playing, counters>>

BeginRemoveSection(p, s) == Live(section[s]) /\ Reads(p, "removeSection", "none", s)

\* The videos owned by these lectures and attached to no other.
Orphans(gone) == {v \in Clips : clip[v].owner \in gone /\ LinkedTo(v) \subseteq gone}

\* Mutant: the tickets of a removed section's lectures run on.
CloseLectures_RunOn(gone) ==
  /\ lecture' = [l \in Lectures |->
                   IF l \in gone /\ Live(lecture[l])
                   THEN [lecture[l] EXCEPT !.gone = TRUE, !.status = "ARCHIVED"] ELSE lecture[l]]
  /\ clip' = [v \in Clips |-> IF v \in Orphans(gone) THEN [clip[v] EXCEPT !.status = "ARCHIVED"] ELSE clip[v]]
  /\ UNCHANGED playing

\* The lectures of a removed section go, with the videos only they play and their tickets.
CloseLectures(gone) ==
  /\ lecture' = [l \in Lectures |->
                   IF l \in gone /\ Live(lecture[l])
                   THEN [lecture[l] EXCEPT !.gone = TRUE, !.status = "ARCHIVED"] ELSE lecture[l]]
  /\ clip' = [v \in Clips |-> IF v \in Orphans(gone) THEN [clip[v] EXCEPT !.status = "ARCHIVED"] ELSE clip[v]]
  /\ playing' = {t \in playing : t[1] \notin gone}

\* SectionsService.remove.
removeSection(p) ==
  LET s == call[p].who IN
  /\ At(p, "removeSection")
  /\ section' = [section EXCEPT ![s] = [status |-> "ARCHIVED", gone |-> TRUE]]
  /\ CloseLectures({l \in Lectures : SectionOf(l) = s /\ lecture[l].status # "NONE"})
  /\ ThenRecount(p)
  /\ UNCHANGED <<links, counters>>

-----------------------------------------------------------------------------
BeginCreateLecture(p, l) ==
  /\ lecture[l].status = "NONE" /\ Live(section[SectionOf(l)])
  /\ \A q \in Calls : call[q].op = "createLecture" => call[q].who # l
  /\ Reads(p, "createLecture", "none", l)

\* LessonsService.create: a draft unless said otherwise, even if the section has gone since.
createLecture(p) ==
  /\ At(p, "createLecture")
  /\ \E st \in {"PUBLISHED", "DRAFT"} : lecture' = [lecture EXCEPT ![call[p].who].status = st]
  /\ ThenRecount(p)
  /\ UNCHANGED <<section, clip, links, playing, counters>>

BeginUpdateLecture(p, l) ==
  Live(lecture[l]) /\ Reads(p, "updateLecture", lecture[l].status, l)

\* update writes the status, whatever it has become ...
updateLecture(p) ==
  LET l == call[p].who IN
  /\ At(p, "updateLecture")
  /\ \E st \in {"PUBLISHED", "DRAFT"} :
       /\ lecture' = [lecture EXCEPT ![l].status = st]
       /\ IF call[p].saw = "PUBLISHED" /\ st # "PUBLISHED"
          THEN Go(p, "revoke", "none", l)
          ELSE Go(p, "recount", "none", "none")
  /\ Writes(p, Footprint(call[p]))
  /\ UNCHANGED <<section, clip, links, playing, counters>>

\* ... and, in another statement, closes the tickets of a lecture it saw published.
RevokeTickets(p) ==
  /\ At(p, "revoke")
  /\ playing' = {t \in playing : t[1] # call[p].who}
  /\ ThenRecount(p)
  /\ UNCHANGED <<section, lecture, clip, links, counters>>

BeginRemoveLecture(p, l) == Live(lecture[l]) /\ Reads(p, "removeLecture", "none", l)

\* LessonsService.remove.
removeLecture(p) ==
  LET l == call[p].who IN
  /\ At(p, "removeLecture")
  /\ lecture' = [lecture EXCEPT ![l].gone = TRUE, ![l].status = "ARCHIVED"]
  /\ clip' = [v \in Clips |-> IF v \in Orphans({l}) THEN [clip[v] EXCEPT !.status = "ARCHIVED"] ELSE clip[v]]
  /\ playing' = {t \in playing : t[1] # l}
  /\ ThenRecount(p)
  /\ UNCHANGED <<section, links, counters>>

-----------------------------------------------------------------------------
OwnedBy(l) == {v \in Clips : clip[v].owner = l}

\* initUpload: a new video of the lecture, or another source for the one it owns, unless the
\* lecture plays a shared video or its own one is shared.
BeginUpload(p, l, v) ==
  /\ Live(lecture[l])
  /\ IF OwnedBy(l) # {} THEN v \in OwnedBy(l) ELSE clip[v].status = "NONE"
  /\ \A w \in Clips \ {v} : <<l, w>> \in links => clip[w].gone
  /\ clip[v].owner = l /\ ~clip[v].gone => LiveLinks(v) \subseteq {l}
  /\ \A q \in Calls : call[q].op = "upload" => call[q].who # <<l, v>>
  /\ Reads(p, "upload", "none", <<l, v>>)

initUpload(p) ==
  LET l == call[p].who[1]  v == call[p].who[2] IN
  /\ At(p, "upload") /\ (clip[v].status # "NONE" => clip[v].owner # "none")
  /\ clip' = [clip EXCEPT ![v] = [status |-> "UPLOADING", gone |-> FALSE,
                                  owner |-> IF @.status = "NONE" THEN l ELSE @.owner]]
  /\ links' = links \cup {<<l, v>>}
  /\ End(p) /\ Writes(p, Footprint(call[p]))
  /\ UNCHANGED <<section, lecture, playing, counters>>

\* The pipeline finishes (markReady): every lecture of the video gets its duration.
markReady(p, v) ==
  /\ Free(p) /\ clip[v].status = "UPLOADING" /\ ~clip[v].gone
  /\ clip' = [clip EXCEPT ![v].status = "READY"]
  /\ lecture' = [l \in Lectures |->
                   IF l \in LinkedTo(v) \/ clip[v].owner = l THEN [lecture[l] EXCEPT !.long = 1] ELSE lecture[l]]
  /\ Go(p, "recount", "none", "none") /\ Writes(p, {v} \cup LinkedTo(v))
  /\ UNCHANGED <<section, links, playing, counters>>

\* attach: another non-deleted video may not be in the way; one already attached is left.
BeginAttach(p, l, v) ==
  /\ Live(lecture[l]) /\ Live(clip[v])
  /\ <<l, v>> \notin links
  /\ \A w \in Clips \ {v} : <<l, w>> \in links => clip[w].gone
  /\ Reads(p, "attach", "none", <<l, v>>)

\* A video that has a duration gives it to the lectures that play it, and their course is
\* recounted; one that was never transcoded has none.
propagateDurationToAttachedLessons(p, v, playedBy) ==
  IF clip[v].status \in {"READY", "ARCHIVED"}
    THEN /\ lecture' = [l \in Lectures |-> IF l \in playedBy THEN [lecture[l] EXCEPT !.long = 1] ELSE lecture[l]]
         /\ Go(p, "recount", "none", "none")
    ELSE UNCHANGED lecture /\ End(p)

attach(p) ==
  LET l == call[p].who[1]  v == call[p].who[2] IN
  /\ At(p, "attach")
  /\ links' = links \cup {<<l, v>>}
  /\ propagateDurationToAttachedLessons(p, v, LinkedTo(v) \cup {l})
  /\ Writes(p, Footprint(call[p]))
  /\ UNCHANGED <<section, clip, playing, counters>>

\* remove: resolveRemovalTarget; a video other lectures play is only detached.
BeginRemoveVideo(p, v) ==
  /\ Live(clip[v])
  /\ \E named \in BOOLEAN :
       \E l \in IF LiveLinks(v) = {} THEN {"none"} ELSE LiveLinks(v) :
         /\ named => LiveLinks(v) # {}
         /\ ~named => Cardinality(LiveLinks(v)) <= 1
         /\ Reads(p, IF LiveLinks(v) \ {l} # {} THEN "detach" ELSE "removeVideo", clip[v].owner, <<l, v>>)

BeginDetach(p, v) ==
  Live(clip[v]) /\ \E l \in LiveLinks(v) : Reads(p, "detach", clip[v].owner, <<l, v>>)

\* clearDurationOfVideolessLessons.
Cleared(v, among) ==
  [l \in Lectures |->
     IF l \in among /\ (\A w \in Clips \ {v} : <<l, w>> \in links => clip[w].gone)
     THEN [lecture[l] EXCEPT !.long = 0] ELSE lecture[l]]

\* remove's transaction; the links stay.
removeVideo(p) ==
  LET v == call[p].who[2] IN
  /\ At(p, "removeVideo")
  /\ clip' = [clip EXCEPT ![v].status = "ARCHIVED", ![v].gone = TRUE]
  /\ playing' = {t \in playing : t[2] # v}
  /\ lecture' = Cleared(v, LinkedTo(v))
  /\ ThenRecount(p)
  /\ UNCHANGED <<section, links, counters>>

detachFromLesson(p) ==
  LET l == call[p].who[1]  v == call[p].who[2] IN
  /\ At(p, "detach")
  /\ links' = links \ {<<l, v>>}
  /\ playing' = playing \ {<<l, v>>}
  /\ clip' = [clip EXCEPT ![v].owner = IF call[p].saw = l THEN "none" ELSE @]
  /\ lecture' = Cleared(v, {l})
  /\ ThenRecount(p)
  /\ UNCHANGED <<section, counters>>

\* Playback: a ticket for a lecture a student may see and its ready video.
BeginTicket(p, l, v) ==
  /\ Open(lecture[l]) /\ section[SectionOf(l)].status = "PUBLISHED"
  /\ clip[v].status = "READY" /\ ~clip[v].gone /\ <<l, v>> \in links
  /\ Reads(p, "ticket", "none", <<l, v>>)

issueTicket(p) ==
  /\ At(p, "ticket")
  /\ playing' = playing \cup {call[p].who}
  /\ End(p) /\ Writes(p, Footprint(call[p]))
  /\ UNCHANGED <<section, lecture, clip, links, counters>>

-----------------------------------------------------------------------------
ContentBegins(p) ==
  \/ \E s \in Sections : createSection(p, s) \/ BeginUpdateSection(p, s) \/ BeginRemoveSection(p, s)
  \/ \E l \in Lectures : BeginCreateLecture(p, l) \/ BeginUpdateLecture(p, l) \/ BeginRemoveLecture(p, l)
  \/ \E v \in Clips : markReady(p, v) \/ BeginRemoveVideo(p, v) \/ BeginDetach(p, v)
  \/ \E l \in Lectures, v \in Clips : BeginUpload(p, l, v) \/ BeginAttach(p, l, v) \/ BeginTicket(p, l, v)

ContentWrites(p) ==
  \/ recountCourse(p) \/ StoreCounters(p)
  \/ updateSection(p) \/ removeSection(p)
  \/ createLecture(p) \/ updateLecture(p) \/ RevokeTickets(p) \/ removeLecture(p)
  \/ initUpload(p) \/ attach(p) \/ removeVideo(p) \/ detachFromLesson(p) \/ issueTicket(p)

ContentNext == \E p \in Calls : ContentBegins(p) \/ ContentWrites(p)

ContentSpec == HandlersInit /\ ContentInit /\ [][ContentNext]_<<call, contentVars>>

-----------------------------------------------------------------------------
Settled == ~crossed /\ \A p \in Calls : Free(p)

\* Whatever sequence of publishing, hiding, sharing, replacing and removing went before, and
\* as long as no two handlers crossed: no ticket outlives the lecture, the attachment or the
\* video it plays, and none is cut off because another lecture that shares the video was
\* removed (update, remove, detachFromLesson); and the counters the catalogue shows are those
\* of the published content (recountCourse).
ContentInOrder ==
  Settled =>
    /\ \A t \in playing : Open(lecture[t[1]]) /\ t \in links /\ clip[t[2]].status # "ARCHIVED"
    /\ counters = Counted
=============================================================================
