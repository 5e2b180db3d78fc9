------------------------------ MODULE Playback ------------------------------
(***************************************************************************)
(* Watching a protected video (src/modules/playback): counted plays,       *)
(* tickets, the heartbeats that renew them, and the sweeps.                *)
(*                                                                         *)
(* One student and one video.  A request reads and writes in steps of its  *)
(* own, and call[c] keeps what it has read; only the access check of a     *)
(* heartbeat and the writes that follow it are one step.  Time is counted  *)
(* in heartbeat intervals, and no request or sweep lasts that long.  Other *)
(* streams of the student are outside: acquireStreamSlot lets a request    *)
(* pass or ends it.                                                        *)
(***************************************************************************)
EXTENDS Naturals, FiniteSets, FiniteSetsExt

CONSTANTS
  Issues, Beats,   \* requests in flight: for a ticket, or of a running player
  MaxTickets,      \* bound on the rows of playback_tickets
  MaxAttempts,     \* bound on the rows of video_plays
  maxPlaysPerVideo,
  ticketTtl, heartbeatGrace, playResumeWindow   \* in heartbeat intervals

\* env.validation asks for ticketTtl < playResumeWindow; a heartbeat is accepted
\* for two intervals more, which the defaults (10 and 90 intervals) leave room for.
ASSUME PlaybackAssumption ==
  /\ Issues \cap Beats = {}
  /\ MaxTickets \in Nat /\ MaxAttempts \in Nat /\ maxPlaysPerVideo \in Nat
  /\ ticketTtl \in Nat /\ heartbeatGrace \in Nat /\ playResumeWindow \in Nat
  /\ ticketTtl + 2 < playResumeWindow

VARIABLES
  access,   \* the enrollment still covers the lesson
  play,     \* play[n]: the row of video_plays with attemptNumber n
  ticket,   \* ticket[t]: playback_tickets, in the order they were issued
  stale,    \* the tickets a running reclaimStaleSlots has read
  call,     \* call[c]: what a request in flight has read
  crossed   \* history: a play was opened or resumed between two statements of another claimPlay

rows == <<play, ticket>>
playbackVars == <<access, rows, stale, call, crossed>>

TicketIds == 1..MaxTickets
Attempts == 1..MaxAttempts
Calls == Issues \cup Beats
Lapsed == ticketTtl + 3             \* no ticket this old is told from an older one
Forgotten == playResumeWindow + 1   \* nor a play
Quiet == heartbeatGrace + 1         \* nor a silence

NoPlay == [status |-> "NONE", idle |-> 0, long |-> FALSE]

NoTicket == [status |-> "NONE", play |-> 0, from |-> 0, age |-> 0, quiet |-> 0]

Idle == [at |-> "idle"]

PlaybackInit ==
  /\ access = TRUE
  /\ play = [n \in Attempts |-> NoPlay]
  /\ ticket = [t \in TicketIds |-> NoTicket]
  /\ stale = {}
  /\ call = [c \in Calls |-> Idle]
  /\ crossed = FALSE

Goto(c, row) == call' = [call EXCEPT ![c] = row]
At(c, at) == Goto(c, [call[c] EXCEPT !.at = at])
KeepWorld == UNCHANGED <<access, stale, crossed>>

\* playbackTicket.create.
Mint(n, from) ==
  LET free == {t \in TicketIds : ticket[t].status = "NONE"}
  IN  /\ free # {}
      /\ ticket' = [ticket EXCEPT ![Min(free)] =
                      [NoTicket EXCEPT !.status = "ACTIVE", !.play = n, !.from = from]]

\* playbackTicket.update of the status, whatever it was.
Ended(t) == [ticket[t] EXCEPT !.status = "ENDED", !.age = 0, !.quiet = 0]
End(t) == ticket' = [ticket EXCEPT ![t] = Ended(t)]

\* updateMany over the ACTIVE tickets of T.
EndActive(T) ==
  ticket' = [t \in TicketIds |->
               IF t \in T /\ ticket[t].status = "ACTIVE" THEN Ended(t) ELSE ticket[t]]

Touched(n) == [play EXCEPT ![n].idle = IF play[n].status = "OPEN" THEN 0 ELSE @]

-----------------------------------------------------------------------------
\* Issuing a ticket.

\* A published lesson (not a preview) that the enrollment covers.
authorizeLessonForPlayback == access

\* issueTicket: the lesson, the device and the stream slot.
issueTicket(c) ==
  /\ call[c] = Idle /\ authorizeLessonForPlayback
  /\ Goto(c, [at |-> "find"])
  /\ KeepWorld /\ UNCHANGED rows

\* Mutant: a play is resumed only before the ticket of its last visit has lapsed.
Resumable_Ticket(n) == play[n].status = "OPEN" /\ play[n].idle <= ticketTtl

\* claimPlay: an open play with recent activity.
Resumable(n) == play[n].status = "OPEN" /\ play[n].idle <= playResumeWindow

\* c takes a play while another claimPlay is at one of these places.
Crosses(c, places) == crossed' = (crossed \/ \E d \in Issues \ {c} : call[d].at \in places)

\* claimPlay: the latest of them is resumed.
PlayFinds(c) ==
  LET open == {n \in Attempts : Resumable(n)}
  IN  /\ call[c].at = "find"
      /\ IF open = {}
         THEN At(c, "close") /\ UNCHANGED <<play, crossed>>
         ELSE /\ Goto(c, [at |-> "mint", play |-> Max(open)]) /\ play' = Touched(Max(open))
              /\ Crosses(c, {"close"})
      /\ UNCHANGED <<access, stale, ticket>>

\* claimPlay: whatever else is open is closed.
PlayCloses(c) ==
  /\ call[c].at = "close"
  /\ play' = [n \in Attempts |->
                IF play[n].status = "OPEN" THEN [play[n] EXCEPT !.status = "CLOSED", !.idle = 0]
                ELSE play[n]]
  /\ At(c, "count")
  /\ KeepWorld /\ UNCHANGED ticket

\* countedPlays.
countedPlays == {n \in Attempts : play[n].status = "OPEN" \/ play[n].long}

\* Mutant: the limit is off by one.
UnderLimit_OffByOne == Cardinality(countedPlays) <= maxPlaysPerVideo

UnderLimit == Cardinality(countedPlays) < maxPlaysPerVideo

\* claimPlay: is another play allowed?
PlayCounts(c) ==
  /\ call[c].at = "count"
  /\ IF UnderLimit THEN At(c, "number") ELSE Goto(c, Idle)
  /\ KeepWorld /\ UNCHANGED rows

Highest == Max({0} \cup {n \in Attempts : play[n].status # "NONE"})

\* claimPlay: the next attempt number.
PlayNumbers(c) ==
  /\ call[c].at = "number" /\ Highest < MaxAttempts
  /\ Goto(c, [at |-> "create", play |-> Highest + 1])
  /\ KeepWorld /\ UNCHANGED rows

\* claimPlay: the row, unless another request took the number; then all over again.
PlayCreates(c) ==
  LET n == call[c].play
  IN  /\ call[c].at = "create"
      /\ IF play[n].status = "NONE"
         THEN play' = [play EXCEPT ![n].status = "OPEN"] /\ At(c, "mint") /\ Crosses(c, {"close", "number"})
         ELSE UNCHANGED <<play, crossed>> /\ Goto(c, [at |-> "find"])
      /\ UNCHANGED <<access, stale, ticket>>

\* mintTicket, for a new stream.
mintTicket(c) ==
  /\ call[c].at = "mint"
  /\ Mint(call[c].play, 0)
  /\ Goto(c, Idle)
  /\ KeepWorld /\ UNCHANGED play

\* A gate refuses (the stream limit, the DRM gate), or the process dies.
RequestDies(c) ==
  /\ call[c] # Idle
  /\ Goto(c, Idle)
  /\ KeepWorld /\ UNCHANGED rows

-----------------------------------------------------------------------------
\* The running player.

\* A heartbeat is accepted: two intervals after its expiry at the latest.
Beating(t) == ticket[t].status = "ACTIVE" /\ ticket[t].age <= ticketTtl + 2

\* heartbeat: the ticket is read; one close to its end (late) is to be rotated.
heartbeat(c, t) ==
  /\ call[c] = Idle /\ Beating(t)
  /\ Goto(c, [at |-> "access", ticket |-> t, late |-> ticket[t].age + 2 > ticketTtl])
  /\ KeepWorld /\ UNCHANGED rows

\* revokeTicket, whatever the status of the ticket, and the end of the stream.
Terminate(c) ==
  /\ End(call[c].ticket)
  /\ Goto(c, Idle)
  /\ KeepWorld /\ UNCHANGED play

\* heartbeat: with access to the section the ticket and the play are kept alive, and
\* without it the stream ends; a recording the player reports ends it too.
BeatChecks(c) ==
  LET t == call[c].ticket
      n == ticket[t].play
  IN  /\ call[c].at = "access"
      /\ \/ /\ access
            /\ ticket' = [ticket EXCEPT ![t].quiet = 0]
            /\ \E long \in BOOLEAN : play' = [Touched(n) EXCEPT ![n].long = @ \/ long]
            /\ IF call[c].late THEN At(c, "rotate") ELSE Goto(c, Idle)
            /\ KeepWorld
         \/ Terminate(c)

\* heartbeat: on an authorized device the old ticket is released, whatever has
\* become of it meanwhile.
RotateReleases(c) ==
  /\ call[c].at = "rotate"
  /\ \/ End(call[c].ticket) /\ At(c, "renew") /\ KeepWorld /\ UNCHANGED play
     \/ Terminate(c)

\* mintTicket, for a rotation: rotatedFromId is unique, so a second one fails.
RotateMints(c) ==
  LET t == call[c].ticket
  IN  /\ call[c].at = "renew"
      /\ \A k \in TicketIds : ticket[k].from # t
      /\ Mint(ticket[t].play, t)
      /\ Goto(c, Idle)
      /\ KeepWorld /\ UNCHANGED play

\* release: the ticket is read, and ended in another statement.
release(c, t) ==
  /\ call[c] = Idle /\ ticket[t].status = "ACTIVE"
  /\ Goto(c, [at |-> "end", ticket |-> t, late |-> FALSE])
  /\ KeepWorld /\ UNCHANGED rows

\* release: the play stays open.
ReleaseWrites(c) ==
  LET t == call[c].ticket
  IN  /\ call[c].at = "end"
      /\ End(t)
      /\ play' = Touched(ticket[t].play)
      /\ Goto(c, Idle)
      /\ KeepWorld

\* release of a ticket that has ended already touches its play all the same.
ReleaseAgain(t) ==
  /\ ticket[t].status = "ENDED"
  /\ play' = Touched(ticket[t].play)
  /\ UNCHANGED <<access, ticket, stale, call, crossed>>

\* recordSecurityEvent: the last of several capture reports.
recordSecurityEvent(t) ==
  /\ ticket[t].status # "NONE"
  /\ End(t)
  /\ UNCHANGED <<access, play, stale, call, crossed>>

-----------------------------------------------------------------------------
\* Administrators, time and sweeps.

\* Access is withdrawn, with the tickets, or given back.
withdrawAccess ==
  /\ access /\ access' = FALSE
  /\ EndActive(TicketIds)
  /\ UNCHANGED <<play, stale, call, crossed>>

grantAccess ==
  /\ ~access /\ access' = TRUE
  /\ UNCHANGED <<rows, stale, call, crossed>>

\* Mutant: only tickets whose player is still heard are looked at.
LapsedTickets_Heard == {t \in TicketIds : ticket[t].age >= ticketTtl /\ ticket[t].quiet = 0}

LapsedTickets == {t \in TicketIds : ticket[t].age >= ticketTtl}

\* expireLapsedTickets.
expireLapsedTickets ==
  /\ \E t \in LapsedTickets : ticket[t].status = "ACTIVE"
  /\ EndActive(LapsedTickets)
  /\ UNCHANGED <<access, play, stale, call, crossed>>

\* reclaimStaleSlots: the tickets nobody has heard of, read once, ended one by one.
ReclaimReads ==
  LET silent == {t \in TicketIds : ticket[t].status = "ACTIVE" /\ ticket[t].quiet > heartbeatGrace}
  IN  /\ stale = {} /\ silent # {}
      /\ stale' = silent
      /\ UNCHANGED <<access, rows, call, crossed>>

reclaimStaleSlots ==
  \E t \in stale :
    /\ End(t)
    /\ stale' = stale \ {t}
    /\ UNCHANGED <<access, play, call, crossed>>

Older(age, last) == IF age < last THEN age + 1 ELSE age

\* An interval passes, between requests and sweeps.
Tick ==
  /\ \A c \in Calls : call[c] = Idle
  /\ stale = {}
  /\ play' = [n \in Attempts |->
       IF play[n].status = "OPEN" THEN [play[n] EXCEPT !.idle = Older(@, Forgotten)]
       ELSE play[n]]
  /\ ticket' = [t \in TicketIds |->
       IF ticket[t].status = "ACTIVE"
       THEN [ticket[t] EXCEPT !.age = Older(@, Lapsed), !.quiet = Older(@, Quiet)]
       ELSE ticket[t]]
  /\ UNCHANGED <<access, stale, call, crossed>>

-----------------------------------------------------------------------------
IssueStep(c) ==
  \/ PlayFinds(c) \/ PlayCloses(c) \/ PlayCounts(c) \/ PlayNumbers(c) \/ PlayCreates(c)
  \/ mintTicket(c)

BeatStep(c) ==
  BeatChecks(c) \/ RotateReleases(c) \/ RotateMints(c) \/ ReleaseWrites(c)

RequestStep(c) == IssueStep(c) \/ BeatStep(c) \/ RequestDies(c)

ArrivalStep ==
  \/ \E c \in Issues : issueTicket(c)
  \/ \E c \in Beats, t \in TicketIds : heartbeat(c, t) \/ release(c, t)
  \/ \E t \in TicketIds : ReleaseAgain(t) \/ recordSecurityEvent(t)

AdminStep == withdrawAccess \/ grantAccess

SweepStep == expireLapsedTickets \/ ReclaimReads \/ reclaimStaleSlots

PlaybackNext ==
  (\E c \in Calls : RequestStep(c)) \/ ArrivalStep \/ AdminStep \/ SweepStep \/ Tick

\* A request in flight ends, and a player that keeps sending them is served at last;
\* the sweeps are repeated, and no stream of requests stops the clock.  Students and
\* administrators owe nothing.
Fairness ==
  /\ \A c \in Calls : WF_playbackVars(RequestStep(c))
  /\ \A c \in Beats : SF_playbackVars(BeatStep(c))
  /\ SF_playbackVars(Tick)
  /\ WF_playbackVars(expireLapsedTickets) /\ WF_playbackVars(reclaimStaleSlots)

PlaybackSpec == PlaybackInit /\ [][PlaybackNext]_playbackVars /\ Fairness

-----------------------------------------------------------------------------
\* The limit of maxPlaysPerVideo is a limit: plays that are open or were watched long enough
\* never exceed it, although heartbeats write what was watched on their own, and although
\* requests for a ticket count at once ("racing the endpoint cannot manufacture a fourth play").
\* The unique attempt number stops the requests that took the same one.  It does not stop the
\* two that crossed marks: a play opened after another request has counted and before it takes
\* its number, and one taken before another request closes whatever is open.
PlaysWithinLimit == ~crossed => Cardinality(countedPlays) <= maxPlaysPerVideo

\* "Backgrounding the app, losing the network, or letting a ticket expire ... must not cost a
\* play": while a player is accepted its play is open, so that what it watches is charged once
\* and to the play the next ticket resumes; unless two requests crossed.
RunningPlayIsOpen ==
  ~crossed => \A t \in TicketIds : Beating(t) => play[ticket[t].play].status = "OPEN"

\* "Re-checking access on every heartbeat is what makes revocation real": access that stays lost
\* ends every ticket, also one whose access was checked before it was lost.
LostAccessEndsPlayback ==
  []<>access \/ <>[](\A t \in TicketIds : ticket[t].status # "ACTIVE")
=============================================================================
