--------------------------- MODULE Announcements ---------------------------
(***************************************************************************)
(* One announcement and the workers that send it                           *)
(* (src/modules/notifications/announcements.service.ts).  A worker reads   *)
(* the row, claims the occurrence by inserting its dispatch row, marks the *)
(* announcement SENDING, fans it out and advances the schedule, and may    *)
(* die between any two of these; later ticks find its claim.               *)
(*                                                                         *)
(* Time is counted in leases: a claim older than one tick of the clock is  *)
(* taken for abandoned.  Timezones and calendar rules are abstracted to    *)
(* one occurrence every Period.                                            *)
(***************************************************************************)
EXTENDS Handlers, Naturals, FiniteSets, FiniteSetsExt

CONSTANTS
  MaxTime,        \* bound on the clock
  Period,         \* time between two occurrences of a recurring announcement
  MaxCount        \* bound on occurrenceCount

ASSUME AnnouncementAssumption == MaxTime \in Nat /\ Period \in Nat \ {0} /\ MaxCount \in Nat

Times == 0..MaxTime
Never == MaxTime + 1     \* no next occurrence

VARIABLES
  clock,
  ann,       \* the announcements row
  claims,    \* the announcement_dispatches rows
  fanouts,   \* history: fanouts[t] counts the times the occurrence of t was fanned out
  raced      \* history: two requests on a one-off crossed, or it was sent by hand beside another send

annVars == <<clock, ann, claims, fanouts, raced>>

NoAnnouncement == [status |-> "NONE", next |-> Never, count |-> 0, frequency |-> "ONCE", timed |-> FALSE]

AnnInit ==
  /\ clock = 0 /\ ann = NoAnnouncement /\ claims = {}
  /\ fanouts = [t \in Times |-> 0] /\ raced = FALSE

-----------------------------------------------------------------------------
\* nextOccurrence: a one-off has had its only one; the search ends at the bound.
nextOccurrence(a, after) ==
  LET ts == {t \in Times : t > after /\ t % Period = 0} IN
  IF (a.frequency = "ONCE" /\ a.count > 0) \/ ts = {} THEN Never ELSE Min(ts)

\* advance: where the row goes after an occurrence, whatever it says by now.
advance(a, now) ==
  LET b == [a EXCEPT !.count = @ + 1]
      next == IF a.timed THEN nextOccurrence(b, now) ELSE Never
  IN  [b EXCEPT !.next = next, !.status = IF next # Never THEN "SCHEDULED" ELSE "SENT"]

\* advance writes these columns over the row as it is now.
Advanced(a) == [ann EXCEPT !.count = advance(a, clock).count, !.next = advance(a, clock).next,
                           !.status = advance(a, clock).status]

\* What a request is doing from the moment it has listed or read the row until it has written
\* it, or marked it as being sent.
Pending == {"due", "publish", "published", "dispatch", "update", "cancel", "claimed"}

\* p writes the row of a one-off, or claims, while another acts on it as it was before.
Races(p) == raced' = (raced \/ (ann.frequency = "ONCE" /\ \E q \in Calls \ {p} : call[q].op \in Pending))

-----------------------------------------------------------------------------
\* create: a draft (publishNow false), a schedule, or one to be sent at once; the dispatch that
\* create makes itself for the last is a sendNow.
create(f, timed) ==
  /\ ann.status = "NONE"
  /\ LET a == [ann EXCEPT !.frequency = f, !.timed = timed] IN
     IF timed
     THEN /\ nextOccurrence(a, clock) # Never
          /\ ann' = [a EXCEPT !.status = "SCHEDULED", !.next = nextOccurrence(a, clock)]
     ELSE /\ f = "ONCE"
          /\ \/ ann' = [a EXCEPT !.status = "DRAFT"]
             \/ ann' = [a EXCEPT !.status = "SCHEDULED", !.next = clock]
  /\ UNCHANGED <<clock, claims, fanouts, raced, call>>

\* update: only one that was never sent; its schedule is rebuilt.
BeginUpdate(p) ==
  /\ At(p, "idle") /\ ann.status \in {"DRAFT", "SCHEDULED", "CANCELLED"} /\ ann.count = 0
  /\ Go(p, "update", ann, "none")
  /\ UNCHANGED annVars

update(p) ==
  LET a == call[p].saw IN
  /\ At(p, "update")
  /\ IF a.timed
     THEN /\ nextOccurrence([a EXCEPT !.count = 0], clock) # Never
          /\ ann' = [ann EXCEPT !.status = "SCHEDULED", !.next = nextOccurrence([a EXCEPT !.count = 0], clock)]
     ELSE ann' = [ann EXCEPT !.status = "DRAFT", !.next = Never]
  /\ End(p) /\ Races(p)
  /\ UNCHANGED <<clock, claims, fanouts>>

\* cancel: only one still to come.
BeginCancel(p) ==
  /\ At(p, "idle") /\ ann.status \in {"SCHEDULED", "DRAFT"}
  /\ Go(p, "cancel", ann, "none")
  /\ UNCHANGED annVars

cancel(p) ==
  /\ At(p, "cancel")
  /\ ann' = [ann EXCEPT !.status = "CANCELLED", !.next = Never]
  /\ End(p) /\ Races(p)
  /\ UNCHANGED <<clock, claims, fanouts>>

-----------------------------------------------------------------------------
\* dispatchDue finds the row due ...
dispatchDue(p) ==
  /\ At(p, "idle")
  /\ ann.status \in {"SCHEDULED", "SENDING"} /\ ann.next <= clock
  /\ Go(p, "due", "none", "none")
  /\ UNCHANGED annVars

\* ... and dispatch reads it again: the occurrence claimed is the next one it finds then.
BeginDispatch(p) ==
  /\ At(p, "due")
  /\ IF ann.status = "CANCELLED" THEN End(p)
     ELSE Go(p, "dispatch", ann, IF ann.next # Never THEN ann.next ELSE clock)
  /\ UNCHANGED annVars

\* send-now dispatches the row as it is, sent or not: without a next occurrence the instant is
\* that of the press.
sendNow(p) ==
  /\ At(p, "idle") /\ ann.status \notin {"NONE", "CANCELLED"}
  /\ Go(p, "dispatch", ann, IF ann.next # Never THEN ann.next ELSE clock)
  /\ raced' = (raced \/ (ann.frequency = "ONCE" /\ ann.next = Never /\ claims # {}))
  /\ UNCHANGED <<clock, ann, claims, fanouts>>

\* publishLegacy reads the row: only one that was never sent ...
publishLegacy(p) ==
  /\ At(p, "idle") /\ ann.status \in {"DRAFT", "SCHEDULED"} /\ ann.count = 0
  /\ Go(p, "publish", ann, "none")
  /\ raced' = (raced \/ (ann.frequency = "ONCE" /\ ann.next # Never))
  /\ UNCHANGED <<clock, ann, claims, fanouts>>

\* ... then its claims: the instant is that of an unfinished one, if there is one ...
PublishedAt(a) ==
  LET open == {c \in claims : ~c.finished} IN
  IF open # {} THEN {c.at : c \in open}
  ELSE IF a.frequency = "ONCE" \/ a.next = Never THEN {clock} ELSE {a.next}

PinInstant(p) ==
  /\ At(p, "publish")
  /\ \E t \in PublishedAt(call[p].saw) : Go(p, "published", call[p].saw, t)
  /\ UNCHANGED annVars

\* ... and dispatch reads the row again, for that instant.
BeginPublished(p) ==
  /\ At(p, "published")
  /\ IF ann.status = "CANCELLED" THEN End(p) ELSE Go(p, "dispatch", ann, call[p].who)
  /\ UNCHANGED annVars

ClaimOf(t) == {c \in claims : c.at = t}

\* dispatch claims the occurrence, or finds it claimed.
dispatch(p) ==
  LET t == call[p].who IN
  /\ At(p, "dispatch")
  /\ IF ClaimOf(t) = {}
     THEN /\ claims' = claims \cup {[at |-> t, started |-> clock, finished |-> FALSE]}
          /\ Go(p, "claimed", call[p].saw, t) /\ Races(p)
     ELSE /\ Go(p, "recover", call[p].saw, t)
          /\ UNCHANGED <<claims, raced>>
  /\ UNCHANGED <<clock, ann, fanouts>>

MarkSending(p) ==
  /\ At(p, "claimed")
  /\ ann' = [ann EXCEPT !.status = "SENDING"]
  /\ Go(p, "sending", call[p].saw, call[p].who) /\ Races(p)
  /\ UNCHANGED <<clock, claims, fanouts>>

\* fanOut reaches the students, in pages; it may stop half way, or refuse the audience.
fanOut(p) ==
  /\ At(p, "sending")
  /\ fanouts' = [fanouts EXCEPT ![call[p].who] = @ + 1]
  /\ \E next \in {"fanned", "failed"} : Go(p, next, call[p].saw, call[p].who)
  /\ UNCHANGED <<clock, ann, claims, raced>>

Finished(t) == {IF c.at = t THEN [c EXCEPT !.finished = TRUE] ELSE c : c \in claims}

\* The occurrence is finished and the schedule advanced in one transaction.
FinishDispatch(p) ==
  /\ At(p, "fanned") /\ call[p].saw.count < MaxCount
  /\ claims' = Finished(call[p].who)
  /\ ann' = Advanced(call[p].saw)
  /\ End(p) /\ Races(p)
  /\ UNCHANGED <<clock, fanouts>>

\* A failure keeps the claim, and advances in a second statement.
NoteFailure(p) ==
  /\ At(p, "failed")
  /\ claims' = Finished(call[p].who)
  /\ Go(p, "advance", call[p].saw, call[p].who)
  /\ UNCHANGED <<clock, ann, fanouts, raced>>

AdvanceAfterFailure(p) ==
  /\ At(p, "advance") /\ call[p].saw.count < MaxCount
  /\ ann' = Advanced(call[p].saw)
  /\ End(p) /\ Races(p)
  /\ UNCHANGED <<clock, claims, fanouts>>

Stale(c) == ~c.finished /\ clock > c.started + 1

\* recoverAbandonedClaims: for an old unfinished claim it reads the row ...
recoverAbandonedClaims(p) ==
  /\ At(p, "idle")
  /\ \E c \in claims : Stale(c) /\ Go(p, "recover", ann, c.at)
  /\ UNCHANGED annVars

\* Mutant: an abandoned occurrence is sent again.
recoverClaimedOccurrence_Resend(p) ==
  LET t == call[p].who IN
  /\ At(p, "recover") /\ call[p].saw.count < MaxCount
  /\ IF \A c \in ClaimOf(t) : c.finished \/ Stale(c)
     THEN Go(p, "claimed", call[p].saw, t)
     ELSE End(p)
  /\ UNCHANGED annVars

\* ... and advances the schedule without sending; a live owner is left alone.  The claim
\* stays as it is.
recoverClaimedOccurrence(p) ==
  LET t == call[p].who IN
  /\ At(p, "recover") /\ call[p].saw.count < MaxCount
  /\ IF \A c \in ClaimOf(t) : c.finished \/ Stale(c)
     THEN ann' = Advanced(call[p].saw) /\ Races(p)
     ELSE UNCHANGED <<ann, raced>>
  /\ End(p)
  /\ UNCHANGED <<clock, claims, fanouts>>

\* A worker dies between two statements.
Dies(p) ==
  /\ call[p].op \in {"claimed", "sending", "fanned", "advance"}
  /\ End(p) /\ UNCHANGED annVars

Tick ==
  /\ clock < MaxTime /\ clock' = clock + 1
  /\ UNCHANGED <<ann, claims, fanouts, raced, call>>

AnnNext ==
  \/ \E f \in {"ONCE", "DAILY"}, timed \in BOOLEAN : create(f, timed)
  \/ \E p \in Calls :
       \/ BeginUpdate(p) \/ update(p) \/ BeginCancel(p) \/ cancel(p)
       \/ dispatchDue(p) \/ BeginDispatch(p) \/ sendNow(p)
       \/ publishLegacy(p) \/ PinInstant(p) \/ BeginPublished(p) \/ dispatch(p)
       \/ MarkSending(p) \/ fanOut(p) \/ FinishDispatch(p) \/ NoteFailure(p) \/ AdvanceAfterFailure(p)
       \/ recoverAbandonedClaims(p) \/ recoverClaimedOccurrence(p) \/ Dies(p)
  \/ Tick

AnnSpec == HandlersInit /\ AnnInit /\ [][AnnNext]_<<call, annVars>>

-----------------------------------------------------------------------------
\* No occurrence is fanned out twice, whatever meets, dies and is taken over, and whoever presses
\* what.  A one-off announcement is fanned out once at all, except in the cases raced marks: a
\* request wrote while another acted on the row as it had listed or read it (a worker that
\* listed the row before it was sent and reads it afterwards sends it again), send-now was
\* pressed once more when a claim was there already, or a scheduled one was also published by
\* hand.  ("A send happens at most once"; publishLegacy: "an existing unfinished claim wins".)
NothingSentTwice ==
  /\ \A t \in Times : fanouts[t] <= 1
  /\ ann.frequency = "ONCE" /\ ~raced => Cardinality({t \in Times : fanouts[t] > 0}) <= 1
=============================================================================
