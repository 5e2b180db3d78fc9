------------------------------ MODULE Progress ------------------------------
(***************************************************************************)
(* A student's progress in one lecture (src/modules/progress, and          *)
(* LessonsService.markComplete).  The player reports what was watched,     *)
(* late, twice or in batches; the server credits it only against what the  *)
(* heartbeats recorded on the lecture's tickets.                           *)
(*                                                                         *)
(* The unit of time is POSITION_TOLERANCE_SECONDS.                         *)
(***************************************************************************)
EXTENDS Handlers, Integers, FiniteSets, FiniteSetsExt, Functions

CONSTANTS
  Plays,        \* the tickets issued for the lecture, one rotated from the other
  Duration,     \* of the lecture
  MaxDelta,     \* MAX_DELTA_SECONDS
  MaxWatched,   \* bound on what the heartbeats record
  Threshold     \* the percentage the completion rule asks for

ASSUME ProgressAssumption ==
  /\ IsFiniteSet(Plays) /\ Plays # {}
  /\ Duration \in Nat \ {0} /\ MaxDelta \in Nat /\ MaxWatched \in Nat /\ Threshold \in 1..100

VARIABLES
  rule,       \* the completion rule of the lecture
  seen,       \* seen[t]: what the heartbeats of a ticket recorded
  furthest,   \* history: the furthest position any heartbeat reported
  mark,       \* the watch_progress row
  doneCount   \* enrollments.completedLessons, this lecture's share

progressVars == <<rule, seen, furthest, mark, doneCount>>

NoMark == [exists |-> FALSE, pos |-> 0, percent |-> 0, watched |-> 0, completed |-> FALSE]

ProgressInit ==
  /\ rule \in [type : {"WATCH_PERCENT", "WATCH_FULL", "MANUAL"}, contiguous : BOOLEAN]
  /\ seen = [t \in Plays |-> [watched |-> 0, pos |-> 0]]
  /\ furthest = 0 /\ mark = NoMark /\ doneCount = 0

\* Math.round of a percentage of the duration.
PercentOf(x) == (200 * x + Duration) \div (2 * Duration)

-----------------------------------------------------------------------------
\* observePlayback: every ticket counts, revoked and rotated ones too.
observePlayback ==
  [watched |-> SumFunction([t \in Plays |-> seen[t].watched]),
   pos     |-> Max({seen[t].pos : t \in Plays})]

\* PlaybackService.heartbeat: a unit more was watched, at any position.
Heartbeat(t, pos) ==
  /\ observePlayback.watched < MaxWatched
  /\ seen' = [seen EXCEPT ![t] = [watched |-> @.watched + 1, pos |-> pos]]
  /\ furthest' = Max({furthest, pos})
  /\ UNCHANGED <<rule, mark, doneCount, call>>

\* upsertBatch collapses two reports of the lecture into one.
Collapsed(a, b) == [watched |-> a.watched + b.watched, pos |-> Max({a.pos, b.pos})]

\* Mutant: each report banks its cap, whatever was observed.
Credit_Capped(claimed, observed, before) == Min({claimed, MaxDelta})

\* What a report banks: capped, and only what was observed and not credited yet.
Credit(claimed, observed, before) ==
  Min({claimed, MaxDelta, Max({0, observed - before})})

clampToObserved(claimed, observed) == Min({claimed, Duration, observed + 1})

\* The rule is met; upsert and meetsRule say it alike, but for a MANUAL rule.
Reached(percent, watched) ==
  LET effective == IF rule.contiguous THEN PercentOf(watched) ELSE percent IN
  effective >= IF rule.type = "WATCH_FULL" THEN 99 ELSE Threshold

\* upsert reads the row and the tickets ...
BeginReport(p, input) ==
  /\ At(p, "idle")
  /\ LET o == observePlayback
         pos == clampToObserved(input.pos, o.pos)
         watched == mark.watched + Credit(input.watched, o.watched, mark.watched)
         percent == Min({100, Max({mark.percent, PercentOf(pos)})})
     IN  Go(p, "report",
            [exists |-> TRUE, pos |-> pos, percent |-> percent, watched |-> watched,
             completed |-> mark.completed \/ (rule.type # "MANUAL" /\ Reached(percent, watched))],
            mark.completed)
  /\ UNCHANGED progressVars

Reports == [watched : 0..MaxDelta, pos : 0..Duration]

report(p) == \E r \in Reports : BeginReport(p, r)

\* Offline replay: two queued reports of one lecture.
Batches == {Collapsed(a, b) : a, b \in Reports}

upsertBatch(p) == \E r \in Batches : BeginReport(p, r)

\* ... and writes what it computed, over whatever the row has become.
upsert(p) ==
  /\ At(p, "report")
  /\ mark' = call[p].saw
  /\ doneCount' = IF call[p].saw.completed /\ ~call[p].who THEN 1 ELSE doneCount
  /\ End(p)
  /\ UNCHANGED <<rule, seen, furthest>>

\* markComplete: by hand, or when the rule is met.
BeginMarkComplete(p) ==
  /\ At(p, "idle")
  /\ rule.type # "MANUAL" => mark.exists /\ Reached(mark.percent, mark.watched)
  /\ Go(p, "markComplete", "none", "none")
  /\ UNCHANGED progressVars

markComplete(p) ==
  /\ At(p, "markComplete")
  /\ mark' = IF mark.exists THEN [mark EXCEPT !.completed = TRUE, !.percent = 100]
             ELSE [exists |-> TRUE, pos |-> Duration, percent |-> 100, watched |-> Duration, completed |-> TRUE]
  /\ doneCount' = 1
  /\ End(p)
  /\ UNCHANGED <<rule, seen, furthest>>

ProgressNext ==
  \/ \E t \in Plays, pos \in 0..Duration : Heartbeat(t, pos)
  \/ \E p \in Calls : report(p) \/ upsertBatch(p) \/ upsert(p) \/ BeginMarkComplete(p) \/ markComplete(p)

ProgressSpec == HandlersInit /\ ProgressInit /\ [][ProgressNext]_<<call, progressVars>>

-----------------------------------------------------------------------------
\* However reports are repeated, replayed, collapsed and overtaken by one another, nobody
\* banks more than the heartbeats recorded, and nobody has completed a lecture without having
\* been seen to watch it: to the threshold in time where the rule asks for time, and to within
\* the tolerance of it otherwise ("it cannot be self-awarded").
ProgressOnEvidence ==
  rule.type # "MANUAL" =>
    LET watched == observePlayback.watched
        needed == IF rule.type = "WATCH_FULL" THEN 99 ELSE Threshold IN
    /\ mark.watched <= watched
    /\ mark.completed => PercentOf(IF rule.contiguous THEN watched ELSE furthest + 1) >= needed
=============================================================================
