---------------------------- MODULE PlaybackProofs --------------------------
(***************************************************************************)
(* Proofs about Playback, for any number of plays, tickets and requests,   *)
(* any limit and any periods, up to the first time two requests for a      *)
(* ticket cross.                                                           *)
(***************************************************************************)
EXTENDS Playback, FiniteSetTheorems, WellFoundedInduction, TLAPS

PlayRows == [status : {"NONE", "OPEN", "CLOSED"}, idle : 0..Forgotten, long : BOOLEAN]

TicketRows ==
  [status : {"NONE", "ACTIVE", "ENDED"}, play : 0..MaxAttempts, from : 0..MaxTickets,
   age : 0..Lapsed, quiet : 0..Quiet]

IssueRows ==
  {Idle} \cup [at : {"find", "close", "count", "number"}]
         \cup [at : {"create", "mint"}, play : Attempts]

BeatRows == {Idle} \cup [at : {"access", "rotate", "renew", "end"}, ticket : TicketIds, late : BOOLEAN]

\* Where a request for a ticket is about to close what is open, and where a player was found running.
Closing(c) == call[c].at = "close"
Playing(c) == call[c].at \in {"access", "rotate", "renew"}

\* An open play heard of at most k intervals ago.
Alive(n, k) == play[n].status = "OPEN" /\ play[n].idle <= k

NobodyPlays ==
  /\ \A t \in TicketIds : ~Beating(t)
  /\ \A c \in Beats : ~Playing(c)
  /\ \A c \in Issues : call[c].at # "mint"

WithinLimit == Cardinality(countedPlays) <= maxPlaysPerVideo

\* Attempts are numbered from one on.
Below(n) == \A k \in Attempts : k < n => play[k].status # "NONE"

Rows ==
  /\ play \in [Attempts -> PlayRows] /\ ticket \in [TicketIds -> TicketRows]
  /\ call \in [Calls -> IssueRows \cup BeatRows]
  /\ stale \in SUBSET {t \in TicketIds : ticket[t].status # "NONE"}
  /\ \A n \in Attempts : play[n].status = "NONE" => play[n] = NoPlay
  /\ \A t \in TicketIds : ticket[t].status # "NONE" => ticket[t].play \in Attempts

\* The play of an accepted ticket was heard of when the ticket was renewed, or later.
PlayFollowsTicket == \A t \in TicketIds : Beating(t) => Alive(ticket[t].play, ticket[t].age)

\* Two requests that have taken the same number: the row of the first refuses the second.
IssueSound(c) ==
  /\ call[c] \in IssueRows
  /\ call[c].at = "mint" => Alive(call[c].play, 0)
  /\ call[c].at = "number" => UnderLimit
  /\ call[c].at = "create" => Below(call[c].play) /\ (play[call[c].play].status # "NONE" \/ UnderLimit)

BeatSound(c) ==
  /\ call[c] \in BeatRows
  /\ call[c] # Idle => ticket[call[c].ticket].status # "NONE"
  /\ call[c].at = "access" => Alive(ticket[call[c].ticket].play, ticketTtl + 2)
  /\ call[c].at \in {"rotate", "renew"} => Alive(ticket[call[c].ticket].play, 0)

\* The inductive invariant: what a request has read of plays and tickets still holds when it
\* writes, because a play is closed only while no player runs or is about to.
PlaybackInv ==
  /\ Rows /\ PlayFollowsTicket
  /\ \A c \in Issues : IssueSound(c)
  /\ \A c \in Beats : BeatSound(c)
  /\ \A c \in Issues : Closing(c) => NobodyPlays
  /\ \A n \in Attempts : play[n].status # "NONE" => Below(n)
  /\ WithinLimit

\* FiniteSetsExt's Min and Max pick a member.
LEMMA EarliestIsMember == ASSUME NEW S \in SUBSET Nat, S # {} PROVE Min(S) \in S
<1> DEFINE Less == OpToRel(<, Nat)
<1>1. IsWellFoundedOn(Less, Nat)
  BY NatLessThanWellFounded DEF OpToRel
<1>2. PICK m \in S : \A k \in S : <<k, m>> \notin Less
  <2> HIDE DEF Less
  <2> QED
    BY <1>1, WFMin
<1>3. \A k \in S : m =< k
  <2>1. \A k \in S : ~(k < m)
    BY <1>2 DEF OpToRel
  <2> QED
    BY <2>1
<1> QED
  BY <1>3 DEF Min

LEMMA LatestIsMember ==
  ASSUME NEW last \in Nat, NEW S \in SUBSET (0..last), S # {}
  PROVE  Max(S) \in S
<1> DEFINE Left == {last - k : k \in S}
           Less == OpToRel(<, Nat)
<1>1. IsWellFoundedOn(Less, Nat)
  BY NatLessThanWellFounded DEF OpToRel
<1>2. Left \in SUBSET Nat /\ Left # {}
  <2>1. \A k \in S : last - k \in Nat
    OBVIOUS
  <2> QED
    BY <2>1, Zenon
<1>3. PICK m \in Left : \A k \in Left : <<k, m>> \notin Less
  <2> HIDE DEF Less, Left
  <2> QED
    BY <1>1, <1>2, WFMin
<1>4. PICK top \in S : m = last - top
  OBVIOUS
<1>5. \A k \in S : top >= k
  <2> SUFFICES ASSUME NEW k \in S PROVE top >= k
    OBVIOUS
  <2>1. ~(last - k < m)
    BY <1>2, <1>3 DEF OpToRel
  <2> QED
    BY <2>1, <1>4
<1> QED
  BY <1>5 DEF Max

-----------------------------------------------------------------------------
\* Most steps end tickets, keep them alive, or let a play be heard of.
PlaysKept ==
  /\ play' \in [Attempts -> PlayRows]
  /\ \A n \in Attempts :
       /\ play'[n].status = play[n].status /\ play'[n].idle <= play[n].idle
       /\ play'[n].status = "NONE" => play'[n] = play[n]
       /\ (play'[n].status = "OPEN" \/ play'[n].long) <=> (play[n].status = "OPEN" \/ play[n].long)

TicketsKept ==
  /\ ticket' \in [TicketIds -> TicketRows]
  /\ \A t \in TicketIds :
       /\ ticket'[t].status = "NONE" <=> ticket[t].status = "NONE"
       /\ ticket'[t].play = ticket[t].play
       /\ ticket'[t].status = "ACTIVE" => ticket[t].status = "ACTIVE" /\ ticket'[t].age = ticket[t].age

LEMMA Numbers ==
  /\ MaxTickets \in Nat /\ MaxAttempts \in Nat /\ maxPlaysPerVideo \in Nat
  /\ ticketTtl \in Nat /\ heartbeatGrace \in Nat /\ playResumeWindow \in Nat
  /\ Lapsed \in Nat /\ Forgotten \in Nat /\ Quiet \in Nat
  /\ Lapsed = ticketTtl + 3 /\ Forgotten = playResumeWindow + 1 /\ Lapsed <= playResumeWindow
  /\ 0 \in 0..Lapsed /\ 0 \in 0..Forgotten /\ 0 \in 0..Quiet
  /\ 0 \in 0..MaxAttempts /\ 0 \in 0..MaxTickets
BY PlaybackAssumption DEF Lapsed, Forgotten, Quiet

LEMMA UnchangedPlays == ASSUME Rows, UNCHANGED play PROVE PlaysKept
<1>1. \A n \in Attempts : play[n].idle \in Nat
  BY Numbers DEF Rows, PlayRows
<1> QED
  BY <1>1 DEF Rows, PlaysKept

LEMMA UnchangedTickets == ASSUME Rows, UNCHANGED ticket PROVE TicketsKept
BY DEF Rows, TicketsKept

LEMMA TouchedPlays ==
  ASSUME Rows, NEW n \in Attempts, NEW long \in BOOLEAN,
         play' = [Touched(n) EXCEPT ![n].long = long],
         long = play[n].long \/ play[n].status = "OPEN"
  PROVE  PlaysKept /\ (play[n].status = "OPEN" => Alive(n, 0)')
<1>1. \A k \in Attempts : play[k] \in PlayRows
  BY DEF Rows
<1> DEFINE idle == IF play[n].status = "OPEN" THEN 0 ELSE play[n].idle
<1>2. play'[n] = [status |-> play[n].status, idle |-> idle, long |-> long]
  <2> DEFINE heard == [play[n] EXCEPT !.idle = idle]
  <2>1. Touched(n)[n] = heard /\ n \in DOMAIN Touched(n)
    BY DEF Rows, Touched
  <2> HIDE DEF idle
  <2>2. heard = [status |-> play[n].status, idle |-> idle, long |-> play[n].long]
    BY <1>1 DEF PlayRows
  <2> HIDE DEF heard
  <2>3. play'[n] = [heard EXCEPT !.long = long]
    BY <2>1
  <2> QED
    BY <2>2, <2>3
<1>3. \A k \in Attempts \ {n} : play'[k] = play[k]
  BY DEF Rows, Touched
<1>4. /\ play'[n].status = play[n].status /\ play'[n].long = long
      /\ play'[n].idle = idle
  <2> HIDE DEF idle
  <2> QED
    BY <1>2
<1>5. play'[n] \in PlayRows
  <2>1. idle \in 0..Forgotten /\ play[n].status \in {"NONE", "OPEN", "CLOSED"}
    BY <1>1, Numbers DEF PlayRows
  <2> HIDE DEF idle
  <2> QED
    BY <1>2, <2>1 DEF PlayRows
<1>6. play' \in [Attempts -> PlayRows]
  <2>1. play' = [k \in Attempts |-> play'[k]]
    BY DEF Rows, Touched
  <2> QED
    BY <1>1, <1>3, <1>5, <2>1
<1>7. play'[n].idle <= play[n].idle /\ \A k \in Attempts : play[k].idle <= play[k].idle
  BY <1>1, <1>4, Numbers DEF PlayRows
<1>8. play[n].status = "NONE" => play[n] = NoPlay /\ ~long
  BY DEF Rows, NoPlay
<1>9. play[n].status = "NONE" => play'[n] = play[n]
  BY <1>2, <1>8 DEF NoPlay
<1> QED
  BY <1>3, <1>4, <1>6, <1>7, <1>9 DEF PlaysKept, Alive

\* A request or a sweep that ends tickets, keeps them alive or lets plays be heard of disturbs
\* nobody, if what it read itself is still true and it finds a player running only where one was.
LEMMA StepKeeps ==
  ASSUME PlaybackInv, PlaysKept, TicketsKept,
         call' \in [Calls -> IssueRows \cup BeatRows],
         stale' \in SUBSET {t \in TicketIds : ticket[t].status # "NONE"},
         \A c \in Issues : call'[c] = call[c] \/ IssueSound(c)',
         \A c \in Beats : call'[c] = call[c] \/ BeatSound(c)',
         \A c \in Beats : Playing(c)' => Playing(c) \/ \E t \in TicketIds : Beating(t),
         \A c \in Issues : Closing(c)' => Closing(c) \/ NobodyPlays,
         \A c \in Issues : call'[c].at = "mint" => call[c].at = "mint" \/ \A d \in Issues : ~Closing(d)'
  PROVE  PlaybackInv'
<1>1. Rows'
  BY DEF PlaybackInv, Rows, PlaysKept, TicketsKept
<1>2. ASSUME NEW n \in Attempts, NEW k \in Nat, Alive(n, k) PROVE Alive(n, k)'
  <2>1. play[n].idle \in Nat /\ play'[n].idle \in Nat
    BY Numbers DEF PlaybackInv, Rows, PlaysKept, PlayRows
  <2> QED
    BY <1>2, <2>1 DEF Alive, PlaysKept
<1>3. \A t \in TicketIds : Beating(t)' => Beating(t) /\ ticket'[t].age = ticket[t].age
  BY DEF Beating, TicketsKept
<1>4. PlayFollowsTicket'
  <2> SUFFICES ASSUME NEW t \in TicketIds, Beating(t)'
               PROVE  Alive(ticket[t].play, ticket[t].age)'
    BY DEF PlayFollowsTicket
  <2>1. Alive(ticket[t].play, ticket[t].age) /\ ticket[t].play \in Attempts /\ ticket[t].age \in Nat
    BY <1>3, Numbers DEF PlaybackInv, PlayFollowsTicket, Rows, Beating, TicketRows
  <2>2. ticket'[t].play = ticket[t].play /\ ticket'[t].age = ticket[t].age
    BY <1>3 DEF TicketsKept
  <2>3. PICK n \in Attempts : n = ticket[t].play
    BY <2>1
  <2>4. PICK k \in Nat : k = ticket[t].age
    BY <2>1
  <2>5. Alive(n, k)'
    BY <1>2, <2>1, <2>3, <2>4
  <2> QED
    BY <2>2, <2>3, <2>4, <2>5 DEF Alive
<1>5. countedPlays' = countedPlays
  BY DEF countedPlays, PlaysKept
<1>6. ASSUME NEW c \in Issues PROVE IssueSound(c)'
  <2> SUFFICES ASSUME call'[c] = call[c] PROVE IssueSound(c)'
    OBVIOUS
  <2>1. IssueSound(c)
    BY DEF PlaybackInv
  <2>2. UnderLimit => UnderLimit'
    BY <1>5 DEF UnderLimit
  <2>3. ASSUME call[c].at = "mint" PROVE Alive(call[c].play, 0)'
    <3>1. Alive(call[c].play, 0) /\ call[c].play \in Attempts
      BY <2>1, <2>3 DEF IssueSound, IssueRows, Idle
    <3>2. PICK n \in Attempts : n = call[c].play
      BY <3>1
    <3>3. Alive(n, 0)'
      BY <1>2, <3>1, <3>2
    <3> QED
      BY <3>2, <3>3 DEF Alive
  <2>4. ASSUME call[c].at = "create"
        PROVE  Below(call[c].play)' /\ (play'[call[c].play].status # "NONE" \/ UnderLimit')
    <3>1. call[c].play \in Attempts
      BY <2>1, <2>4 DEF IssueSound, IssueRows, Idle
    <3> QED
      BY <2>1, <2>2, <2>4, <3>1 DEF IssueSound, PlaysKept, Below
  <2> QED
    BY <2>1, <2>2, <2>3, <2>4 DEF IssueSound
<1>7. ASSUME NEW c \in Beats PROVE BeatSound(c)'
  <2> SUFFICES ASSUME call'[c] = call[c] PROVE BeatSound(c)'
    OBVIOUS
  <2>1. BeatSound(c)
    BY DEF PlaybackInv
  <2>2. CASE call[c] = Idle
    BY <2>1, <2>2 DEF BeatSound, Idle
  <2>3. CASE call[c] # Idle
    <3>1. PICK t \in TicketIds : t = call[c].ticket
      BY <2>1, <2>3 DEF BeatSound, BeatRows
    <3>2. ticket[t].status # "NONE" /\ ticket[t].play \in Attempts
      BY <2>1, <2>3, <3>1 DEF BeatSound, PlaybackInv, Rows
    <3>3. PICK n \in Attempts : n = ticket[t].play
      BY <3>2
    <3>4. ticket'[t].status # "NONE" /\ ticket'[t].play = n
      BY <3>2, <3>3 DEF TicketsKept
    <3>5. call[c].at = "access" => Alive(n, ticketTtl + 2)'
      <4>1. ticketTtl + 2 \in Nat
        BY Numbers
      <4> QED
        BY <1>2, <2>1, <3>1, <3>3, <4>1 DEF BeatSound
    <3>6. call[c].at \in {"rotate", "renew"} => Alive(n, 0)'
      BY <1>2, <2>1, <3>1, <3>3 DEF BeatSound
    <3> QED
      BY <2>1, <3>1, <3>4, <3>5, <3>6 DEF BeatSound, Alive
  <2> QED
    BY <2>2, <2>3
<1>8. ASSUME NEW c \in Issues, Closing(c)' PROVE NobodyPlays'
  <2>1. NobodyPlays
    BY <1>8 DEF PlaybackInv
  <2> QED
    BY <2>1, <1>3, <1>8 DEF NobodyPlays
<1>9. WithinLimit'
  BY <1>5 DEF PlaybackInv, WithinLimit
<1>10. \A n \in Attempts : play'[n].status # "NONE" => Below(n)'
  BY DEF PlaybackInv, PlaysKept, Below
<1> QED
  BY <1>1, <1>4, <1>6, <1>7, <1>8, <1>9, <1>10 DEF PlaybackInv

\* The writes on tickets.
LEMMA EndKeeps ==
  ASSUME Rows, NEW t \in TicketIds, ticket[t].status # "NONE", End(t)
  PROVE  TicketsKept
<1>1. ticket[t] \in TicketRows
  BY DEF Rows
<1>2. Ended(t) \in TicketRows /\ Ended(t).status = "ENDED" /\ Ended(t).play = ticket[t].play
  BY <1>1, Numbers DEF Ended, TicketRows
<1> QED
  BY <1>2 DEF End, Rows, TicketsKept

LEMMA EndActiveKeeps ==
  ASSUME Rows, NEW T, EndActive(T)
  PROVE  TicketsKept
<1>1. \A t \in TicketIds : ticket[t] \in TicketRows
  BY DEF Rows
<1>2. \A t \in TicketIds :
        Ended(t) \in TicketRows /\ Ended(t).status = "ENDED" /\ Ended(t).play = ticket[t].play
  BY <1>1, Numbers DEF Ended, TicketRows
<1> QED
  BY <1>1, <1>2 DEF EndActive, TicketsKept

LEMMA HeardKeeps ==
  ASSUME Rows, NEW t \in TicketIds, ticket' = [ticket EXCEPT ![t].quiet = 0]
  PROVE  TicketsKept
<1>1. ticket[t] \in TicketRows /\ ticket'[t] = [ticket[t] EXCEPT !.quiet = 0]
  BY DEF Rows
<1>2. /\ ticket'[t] \in TicketRows /\ ticket'[t].status = ticket[t].status
      /\ ticket'[t].play = ticket[t].play /\ ticket'[t].age = ticket[t].age
  BY <1>1, Numbers DEF TicketRows
<1> QED
  BY <1>2 DEF Rows, TicketsKept

\* A step of one request.
LEMMA IssueMoves ==
  ASSUME PlaybackInv, PlaysKept, TicketsKept, UNCHANGED stale,
         NEW c \in Issues, NEW row \in IssueRows, Goto(c, row), IssueSound(c)',
         Closing(c)' => Closing(c) \/ NobodyPlays,
         row.at = "mint" => \A d \in Issues \ {c} : ~Closing(d)
  PROVE  PlaybackInv'
<1>1. /\ call' \in [Calls -> IssueRows \cup BeatRows]
      /\ \A d \in Calls \ {c} : call'[d] = call[d]
      /\ stale' \in SUBSET {t \in TicketIds : ticket[t].status # "NONE"}
  BY DEF Goto, PlaybackInv, Rows
<1>2. /\ \A d \in Issues \ {c} : call'[d] = call[d]
      /\ \A d \in Beats : call'[d] = call[d]
  BY <1>1, PlaybackAssumption DEF Calls
<1>3. /\ \A d \in Beats : Playing(d)' => Playing(d)
      /\ \A d \in Issues : Closing(d)' => Closing(d) \/ NobodyPlays
  BY <1>2 DEF Playing, Closing
<1>4. ASSUME NEW d \in Issues, call'[d].at = "mint"
      PROVE  call[d].at = "mint" \/ \A e \in Issues : ~Closing(e)'
  <2>1. CASE d # c
    BY <1>2, <1>4, <2>1
  <2>2. CASE d = c
    <3>1. call'[c] = row
      BY DEF Goto, PlaybackInv, Rows, Calls
    <3> QED
      BY <1>2, <1>4, <2>2, <3>1 DEF Closing
  <2> QED
    BY <2>1, <2>2
<1> QED
  BY <1>1, <1>2, <1>3, <1>4, StepKeeps

LEMMA BeatMoves ==
  ASSUME PlaybackInv, PlaysKept, TicketsKept, UNCHANGED stale,
         NEW c \in Beats, NEW row \in BeatRows, Goto(c, row), BeatSound(c)',
         Playing(c)' => Playing(c) \/ \E t \in TicketIds : Beating(t)
  PROVE  PlaybackInv'
<1>1. /\ call' \in [Calls -> IssueRows \cup BeatRows]
      /\ \A d \in Calls \ {c} : call'[d] = call[d]
      /\ stale' \in SUBSET {t \in TicketIds : ticket[t].status # "NONE"}
  BY DEF Goto, PlaybackInv, Rows
<1>2. /\ \A d \in Beats \ {c} : call'[d] = call[d]
      /\ \A d \in Issues : call'[d] = call[d]
  BY <1>1, PlaybackAssumption DEF Calls
<1>3. /\ \A d \in Issues : Closing(d)' => Closing(d)
      /\ \A d \in Beats : Playing(d)' => Playing(d) \/ \E t \in TicketIds : Beating(t)
  BY <1>2 DEF Playing, Closing
<1> QED
  BY <1>1, <1>2, <1>3, StepKeeps

\* A step of a sweep or of an administrator, while requests are in flight.
LEMMA SweepMoves ==
  ASSUME PlaybackInv, PlaysKept, TicketsKept, UNCHANGED call,
         stale' \in SUBSET {t \in TicketIds : ticket[t].status # "NONE"}
  PROVE  PlaybackInv'
<1>1. /\ call' \in [Calls -> IssueRows \cup BeatRows]
      /\ \A d \in Beats : Playing(d)' => Playing(d)
      /\ \A d \in Issues : Closing(d)' => Closing(d)
  BY DEF PlaybackInv, Rows, Playing, Closing
<1> QED
  BY <1>1, StepKeeps

LEMMA IssueShape ==
  ASSUME PlaybackInv, NEW c \in Issues
  PROVE  /\ call[c].at \in {"find", "close", "count", "number"} => call[c] = [at |-> call[c].at]
         /\ call[c].at \in {"create", "mint"} =>
              /\ call[c].play \in Attempts
              /\ call[c] = [at |-> call[c].at, play |-> call[c].play]
         /\ call[c].at \notin {"access", "rotate", "renew", "end"}
         /\ c \in DOMAIN call
<1>1. call[c] \in IssueRows /\ c \in DOMAIN call
  BY DEF PlaybackInv, IssueSound, Rows, Calls
<1> QED
  BY <1>1 DEF IssueRows, Idle

LEMMA BeatShape ==
  ASSUME PlaybackInv, NEW c \in Beats
  PROVE  /\ call[c] # Idle =>
              /\ call[c].ticket \in TicketIds /\ call[c].late \in BOOLEAN
              /\ call[c] = [at |-> call[c].at, ticket |-> call[c].ticket, late |-> call[c].late]
              /\ call[c].at \in {"access", "rotate", "renew", "end"}
         /\ call[c] = Idle => call[c].at = "idle"
         /\ c \in DOMAIN call
<1>1. call[c] \in BeatRows /\ c \in DOMAIN call
  BY DEF PlaybackInv, BeatSound, Rows, Calls
<1> QED
  BY <1>1 DEF BeatRows, Idle

\* A request moved on to its next step keeps the rest of what it knows.
LEMMA BeatMovesOn ==
  ASSUME PlaybackInv, NEW c \in Beats, call[c] # Idle, NEW next, At(c, next)
  PROVE  Goto(c, [at |-> next, ticket |-> call[c].ticket, late |-> call[c].late])
<1> DEFINE row == call[c]
           at == call[c].at
           t == call[c].ticket
           late == call[c].late
<1>1. row = [at |-> at, ticket |-> t, late |-> late]
  BY BeatShape, Zenon
<1>2. Goto(c, [row EXCEPT !.at = next])
  BY DEF At
<1> HIDE DEF row, at, t, late
<1>3. [row EXCEPT !.at = next] = [at |-> next, ticket |-> t, late |-> late]
  BY <1>1
<1>4. Goto(c, [at |-> next, ticket |-> t, late |-> late])
  BY <1>2, <1>3
<1> QED
  BY <1>4 DEF t, late

\* A request ends and leaves everything as it is.
LEMMA DiesKeeps ==
  ASSUME PlaybackInv, PlaysKept, TicketsKept, UNCHANGED stale, NEW c \in Calls, Goto(c, Idle)
  PROVE  PlaybackInv'
<1>1. call'[c] = Idle
  BY DEF Goto, PlaybackInv, Rows
<1>2. CASE c \in Issues
  <2>1. IssueSound(c)' /\ ~Closing(c)' /\ Idle \in IssueRows /\ Idle.at # "mint"
    BY <1>1 DEF IssueSound, Closing, Idle, IssueRows
  <2> QED
    BY <1>2, <2>1, IssueMoves
<1>3. CASE c \in Beats
  <2>1. BeatSound(c)' /\ ~Playing(c)' /\ Idle \in BeatRows
    BY <1>1 DEF BeatSound, Playing, Idle, BeatRows
  <2> QED
    BY <1>3, <2>1, BeatMoves
<1> QED
  BY <1>2, <1>3 DEF Calls

-----------------------------------------------------------------------------
\* The requests of the player.
LEMMA heartbeatKeeps ==
  ASSUME PlaybackInv, NEW c \in Beats, NEW t \in TicketIds, heartbeat(c, t)
  PROVE  PlaybackInv'
<1>1. PlaysKept /\ TicketsKept /\ UNCHANGED stale
  BY UnchangedPlays, UnchangedTickets DEF heartbeat, PlaybackInv, rows, KeepWorld
<1>2. PICK late \in BOOLEAN : Goto(c, [at |-> "access", ticket |-> t, late |-> late])
  <2> DEFINE isLate == ticket[t].age + 2 > ticketTtl
  <2>1. Goto(c, [at |-> "access", ticket |-> t, late |-> isLate])
    BY Zenon DEF heartbeat
  <2>2. isLate \in BOOLEAN
    OBVIOUS
  <2> HIDE DEF isLate
  <2> QED
    BY <2>1, <2>2, Zenon
<1>3. /\ call'[c] = [at |-> "access", ticket |-> t, late |-> late]
      /\ [at |-> "access", ticket |-> t, late |-> late] \in BeatRows
  BY <1>2, BeatShape DEF Goto, BeatRows
<1>4. Beating(t) /\ ticket' = ticket /\ play' = play
  BY DEF heartbeat, rows
<1>5. Alive(ticket[t].play, ticketTtl + 2) /\ ticket[t].status # "NONE"
  <2>1. Alive(ticket[t].play, ticket[t].age) /\ ticket[t].age <= ticketTtl + 2 /\ ticket[t].play \in Attempts
    BY <1>4 DEF PlaybackInv, PlayFollowsTicket, Beating, Rows
  <2>2. play[ticket[t].play].idle \in Nat /\ ticket[t].age \in Nat
    BY <2>1, Numbers DEF PlaybackInv, Rows, PlayRows, TicketRows
  <2> QED
    BY <1>4, <2>1, <2>2, Numbers DEF Alive, Beating
<1>6. BeatSound(c)'
  BY <1>3, <1>4, <1>5 DEF BeatSound, Alive
<1> QED
  BY <1>1, <1>2, <1>3, <1>4, <1>6, BeatMoves

\* What a request of the player knows of its ticket and of its play.
LEMMA BeatKnows ==
  ASSUME PlaybackInv, NEW c \in Beats, call[c] # Idle
  PROVE  /\ call[c].ticket \in TicketIds /\ ticket[call[c].ticket].status # "NONE"
         /\ ticket[call[c].ticket].play \in Attempts
         /\ call[c].at \in {"access", "rotate", "renew"} =>
              play[ticket[call[c].ticket].play].status = "OPEN"
<1>1. BeatSound(c) /\ call[c].ticket \in TicketIds
  BY BeatShape DEF PlaybackInv
<1> QED
  BY <1>1 DEF BeatSound, PlaybackInv, Rows, Alive

LEMMA TerminateKeeps ==
  ASSUME PlaybackInv, NEW c \in Beats, call[c] # Idle, Terminate(c), UNCHANGED stale
  PROVE  PlaybackInv'
<1>1. PlaysKept
  BY UnchangedPlays DEF Terminate, PlaybackInv
<1>2. TicketsKept
  BY BeatKnows, EndKeeps DEF Terminate, PlaybackInv
<1>3. Goto(c, Idle) /\ c \in Calls
  BY DEF Terminate, Calls
<1> QED
  BY <1>1, <1>2, <1>3, DiesKeeps

LEMMA BeatChecksKeeps ==
  ASSUME PlaybackInv, NEW c \in Beats, BeatChecks(c)
  PROVE  PlaybackInv'
<1> DEFINE t == call[c].ticket
           n == ticket[t].play
<1>1. call[c].at = "access" /\ call[c] # Idle
  <2>1. call[c].at = "access"
    BY Zenon DEF BeatChecks
  <2> QED
    BY <2>1, BeatShape
<1>2. t \in TicketIds /\ ticket[t].status # "NONE" /\ n \in Attempts /\ play[n].status = "OPEN"
  BY <1>1, BeatKnows
<1>3. CASE Terminate(c)
  BY <1>1, <1>3, TerminateKeeps DEF Terminate, KeepWorld
<1>4. CASE /\ access
           /\ ticket' = [ticket EXCEPT ![t].quiet = 0]
           /\ \E long \in BOOLEAN : play' = [Touched(n) EXCEPT ![n].long = @ \/ long]
           /\ IF call[c].late THEN At(c, "rotate") ELSE Goto(c, Idle)
           /\ KeepWorld
  <2>1. TicketsKept
    BY <1>2, <1>4, HeardKeeps DEF PlaybackInv
  <2>2. PICK k \in Attempts : k = n
    BY <1>2
  <2>3. PICK long \in BOOLEAN : play' = [Touched(k) EXCEPT ![k].long = @ \/ long]
    BY <1>4, <2>2
  <2>4. /\ play[k].long \in BOOLEAN /\ Touched(k)[k].long = play[k].long
        /\ k \in DOMAIN Touched(k)
    BY DEF PlaybackInv, Rows, Touched, PlayRows
  <2>5. PICK kept \in BOOLEAN : kept = (play[k].long \/ long)
    BY <2>4
  <2>6. play' = [Touched(k) EXCEPT ![k].long = kept]
    BY <2>3, <2>4, <2>5
  <2>7. PlaysKept /\ Alive(k, 0)'
    BY <1>2, <2>2, <2>5, <2>6, TouchedPlays DEF PlaybackInv
  <2>8. CASE call[c].late
    <3>1. At(c, "rotate")
      BY <1>4, <2>8
    <3>2. Goto(c, [at |-> "rotate", ticket |-> t, late |-> call[c].late])
      BY <1>1, <3>1, BeatMovesOn
    <3>3. /\ [at |-> "rotate", ticket |-> t, late |-> call[c].late] \in BeatRows
          /\ call'[c] = [at |-> "rotate", ticket |-> t, late |-> call[c].late]
      BY <1>1, <3>2, BeatShape DEF Goto, BeatRows
    <3>4. ticket'[t].status # "NONE" /\ ticket'[t].play = k
      BY <1>2, <2>1, <2>2 DEF TicketsKept
    <3>5. BeatSound(c)'
      BY <2>7, <3>3, <3>4 DEF BeatSound
    <3>6. Playing(c) /\ UNCHANGED stale
      BY <1>1, <1>4 DEF Playing, KeepWorld
    <3> QED
      BY <2>1, <2>7, <3>2, <3>3, <3>5, <3>6, BeatMoves
  <2>9. CASE ~call[c].late
    <3>1. Goto(c, Idle) /\ UNCHANGED stale /\ c \in Calls
      BY <1>4, <2>9 DEF KeepWorld, Calls
    <3> QED
      BY <2>1, <2>7, <3>1, DiesKeeps
  <2> QED
    BY <2>8, <2>9
<1> QED
  BY <1>3, <1>4 DEF BeatChecks

LEMMA RotateReleasesKeeps ==
  ASSUME PlaybackInv, NEW c \in Beats, RotateReleases(c)
  PROVE  PlaybackInv'
<1> DEFINE t == call[c].ticket
           row == [at |-> "renew", ticket |-> t, late |-> call[c].late]
<1>1. call[c].at = "rotate" /\ call[c] # Idle
  BY DEF RotateReleases, Idle
<1>2. CASE Terminate(c)
  BY <1>1, <1>2, TerminateKeeps DEF Terminate, KeepWorld
<1>3. CASE End(t) /\ At(c, "renew") /\ KeepWorld /\ UNCHANGED play
  <2>1. t \in TicketIds /\ ticket[t].status # "NONE" /\ BeatSound(c)
    BY <1>1, BeatKnows DEF PlaybackInv
  <2>2. PlaysKept /\ TicketsKept /\ UNCHANGED stale
    BY <1>3, <2>1, UnchangedPlays, EndKeeps DEF PlaybackInv, KeepWorld
  <2>3. Goto(c, row)
    BY <1>1, <1>3, BeatMovesOn
  <2>4. row \in BeatRows /\ call'[c] = row
    BY <1>1, <2>3, BeatShape DEF Goto, BeatRows
  <2>5. ticket'[t].status # "NONE" /\ ticket'[t].play = ticket[t].play /\ Alive(ticket[t].play, 0)
    BY <1>1, <2>1, <2>2 DEF TicketsKept, BeatSound
  <2>6. BeatSound(c)'
    BY <1>3, <2>4, <2>5 DEF BeatSound, Alive
  <2> QED
    BY <1>1, <2>2, <2>3, <2>4, <2>6, BeatMoves DEF Playing
<1> QED
  BY <1>2, <1>3 DEF RotateReleases

LEMMA releaseKeeps ==
  ASSUME PlaybackInv, NEW c \in Beats, NEW t \in TicketIds, release(c, t)
  PROVE  PlaybackInv'
<1> DEFINE row == [at |-> "end", ticket |-> t, late |-> FALSE]
<1>1. PlaysKept /\ TicketsKept /\ UNCHANGED stale /\ UNCHANGED ticket
  BY UnchangedPlays, UnchangedTickets DEF release, PlaybackInv, rows, KeepWorld
<1>2. Goto(c, row) /\ row \in BeatRows /\ ticket[t].status # "NONE"
  BY DEF release, BeatRows
<1>3. call'[c] = row
  BY <1>2, BeatShape DEF Goto
<1>4. BeatSound(c)' /\ ~Playing(c)'
  BY <1>1, <1>2, <1>3 DEF BeatSound, Playing
<1> QED
  BY <1>1, <1>2, <1>4, BeatMoves

LEMMA HeardPlays ==
  ASSUME PlaybackInv, NEW n \in Attempts, play' = Touched(n)
  PROVE  PlaysKept /\ (play[n].status = "OPEN" => Alive(n, 0)')
<1>1. play[n].long \in BOOLEAN /\ n \in DOMAIN Touched(n) /\ Touched(n)[n].long = play[n].long
  BY DEF PlaybackInv, Rows, Touched, PlayRows
<1>2. Touched(n) = [Touched(n) EXCEPT ![n].long = play[n].long]
  <2>1. /\ Touched(n) = [play EXCEPT ![n] = [play[n] EXCEPT !.idle = IF play[n].status = "OPEN" THEN 0 ELSE @]]
        /\ play \in [Attempts -> PlayRows]
    BY DEF Touched, PlaybackInv, Rows
  <2>2. PICK r \in PlayRows : Touched(n) = [play EXCEPT ![n] = r]
    BY <2>1, Numbers DEF PlayRows
  <2>3. r.long = play[n].long
    BY <1>1, <2>1, <2>2
  <2>4. [r EXCEPT !.long = r.long] = r
    BY DEF PlayRows
  <2>5. Touched(n) \in [Attempts -> PlayRows] /\ Touched(n)[n] = r
    BY <2>1, <2>2
  <2> QED
    BY <2>3, <2>4, <2>5
<1> QED
  BY <1>1, <1>2, TouchedPlays DEF PlaybackInv

LEMMA ReleaseWritesKeeps ==
  ASSUME PlaybackInv, NEW c \in Beats, ReleaseWrites(c)
  PROVE  PlaybackInv'
<1>1. call[c] # Idle /\ c \in Calls
  BY DEF ReleaseWrites, Idle, Calls
<1>2. PICK t \in TicketIds, n \in Attempts : t = call[c].ticket /\ n = ticket[t].play /\ ticket[t].status # "NONE"
  BY <1>1, BeatKnows
<1>3. TicketsKept
  BY <1>2, EndKeeps DEF ReleaseWrites, PlaybackInv
<1>4. PlaysKept
  BY <1>2, HeardPlays DEF ReleaseWrites
<1> QED
  BY <1>1, <1>3, <1>4, DiesKeeps DEF ReleaseWrites, KeepWorld

LEMMA ReleaseAgainKeeps ==
  ASSUME PlaybackInv, NEW t \in TicketIds, ReleaseAgain(t)
  PROVE  PlaybackInv'
<1>1. ticket[t].play \in Attempts
  BY DEF ReleaseAgain, PlaybackInv, Rows
<1>2. PlaysKept
  BY <1>1, HeardPlays DEF ReleaseAgain
<1>3. TicketsKept
  BY UnchangedTickets DEF ReleaseAgain, PlaybackInv
<1> QED
  BY <1>2, <1>3, SweepMoves DEF ReleaseAgain, PlaybackInv, Rows

-----------------------------------------------------------------------------
\* The requests for a ticket.
LEMMA issueTicketKeeps ==
  ASSUME PlaybackInv, NEW c \in Issues, issueTicket(c)
  PROVE  PlaybackInv'
<1>1. PlaysKept /\ TicketsKept /\ UNCHANGED stale
  BY UnchangedPlays, UnchangedTickets DEF issueTicket, PlaybackInv, rows, KeepWorld
<1>2. Goto(c, [at |-> "find"]) /\ [at |-> "find"] \in IssueRows
  BY DEF issueTicket, IssueRows
<1>3. call'[c] = [at |-> "find"]
  BY <1>2, IssueShape DEF Goto
<1>4. IssueSound(c)' /\ ~Closing(c)'
  BY <1>2, <1>3 DEF IssueSound, Closing
<1> QED
  BY <1>1, <1>2, <1>4, IssueMoves

\* Where no play is left to resume, no player runs.
LEMMA NoneResumable ==
  ASSUME PlaybackInv, \A n \in Attempts : ~Resumable(n)
  PROVE  NobodyPlays
<1>1. ASSUME NEW n \in Attempts, NEW k \in Nat, k <= ticketTtl + 2, Alive(n, k) PROVE FALSE
  <2>1. play[n].idle \in Nat /\ play[n].idle <= k /\ play[n].status = "OPEN"
    BY <1>1, Numbers DEF PlaybackInv, Rows, PlayRows, Alive
  <2>2. play[n].idle <= playResumeWindow
    BY <1>1, <2>1, Numbers, PlaybackAssumption
  <2> QED
    BY <2>1, <2>2 DEF Resumable
<1>2. ASSUME NEW t \in TicketIds, Beating(t) PROVE FALSE
  <2>1. /\ Alive(ticket[t].play, ticket[t].age) /\ ticket[t].play \in Attempts
        /\ ticket[t].age \in Nat /\ ticket[t].age <= ticketTtl + 2
    BY <1>2, Numbers DEF PlaybackInv, PlayFollowsTicket, Rows, Beating, TicketRows
  <2> QED
    BY <1>1, <2>1
<1>3. ASSUME NEW c \in Beats, Playing(c) PROVE FALSE
  <2>1. call[c] # Idle
    BY <1>3 DEF Playing, Idle
  <2>2. PICK n \in Attempts : n = ticket[call[c].ticket].play
    BY <2>1, BeatKnows
  <2>3. Alive(n, ticketTtl + 2) \/ Alive(n, 0)
    BY <1>3, <2>2 DEF PlaybackInv, BeatSound, Playing
  <2>4. ticketTtl + 2 \in Nat /\ 0 <= ticketTtl + 2 /\ ticketTtl + 2 <= ticketTtl + 2
    BY Numbers
  <2> QED
    BY <1>1, <2>3, <2>4
<1>4. ASSUME NEW c \in Issues, call[c].at = "mint" PROVE FALSE
  <2>1. PICK n \in Attempts : n = call[c].play
    BY <1>4, IssueShape
  <2>2. Alive(n, 0) /\ 0 <= ticketTtl + 2
    BY <1>4, <2>1, Numbers DEF PlaybackInv, IssueSound
  <2> QED
    BY <1>1, <2>2
<1> QED
  BY <1>2, <1>3, <1>4 DEF NobodyPlays

LEMMA PlayFindsKeeps ==
  ASSUME PlaybackInv, ~crossed', NEW c \in Issues, PlayFinds(c)
  PROVE  PlaybackInv'
<1> DEFINE open == {n \in Attempts : Resumable(n)}
<1>1. TicketsKept /\ UNCHANGED stale /\ call[c].at = "find" /\ call[c] = [at |-> "find"]
  BY UnchangedTickets, IssueShape DEF PlayFinds, PlaybackInv
<1>2. CASE open = {}
  <2>1. At(c, "close") /\ UNCHANGED play
    BY <1>2 DEF PlayFinds
  <2>2. Goto(c, [at |-> "close"]) /\ [at |-> "close"] \in IssueRows
    BY <1>1, <2>1 DEF At, IssueRows
  <2>3. call'[c] = [at |-> "close"]
    BY <2>2, IssueShape DEF Goto
  <2>4. IssueSound(c)' /\ NobodyPlays /\ PlaysKept
    BY <1>2, <2>1, <2>2, <2>3, NoneResumable, UnchangedPlays DEF IssueSound, PlaybackInv
  <2> QED
    BY <1>1, <2>2, <2>4, IssueMoves
<1>3. CASE open # {}
  <2>1. open \in SUBSET (0..MaxAttempts)
    BY Numbers DEF Attempts
  <2>2. PICK n \in Attempts : n = Max(open) /\ Resumable(n)
    <3> HIDE DEF open
    <3>1. Max(open) \in open
      BY <1>3, <2>1, LatestIsMember, Numbers
    <3> QED
      BY <3>1 DEF open
  <2>3. Goto(c, [at |-> "mint", play |-> n]) /\ play' = Touched(n)
    BY <1>3, <2>2 DEF PlayFinds
  <2>4. PlaysKept /\ Alive(n, 0)'
    BY <2>2, <2>3, HeardPlays DEF Resumable
  <2>5. [at |-> "mint", play |-> n] \in IssueRows /\ call'[c] = [at |-> "mint", play |-> n]
    BY <2>3, IssueShape DEF Goto, IssueRows
  <2>6. IssueSound(c)' /\ ~Closing(c)'
    BY <2>4, <2>5 DEF IssueSound, Closing
  <2>7. \A d \in Issues \ {c} : ~Closing(d)
    <3>1. Crosses(c, {"close"})
      BY <1>3 DEF PlayFinds
    <3> QED
      BY <3>1 DEF Crosses, Closing
  <2> QED
    BY <1>1, <2>3, <2>4, <2>5, <2>6, <2>7, IssueMoves
<1> QED
  BY <1>2, <1>3

LEMMA PlayCountsKeeps ==
  ASSUME PlaybackInv, NEW c \in Issues, PlayCounts(c)
  PROVE  PlaybackInv'
<1>1. /\ PlaysKept /\ TicketsKept /\ UNCHANGED stale /\ call[c].at = "count" /\ call[c] = [at |-> "count"]
      /\ UNCHANGED play
  BY UnchangedPlays, UnchangedTickets, IssueShape DEF PlayCounts, PlaybackInv, KeepWorld, rows
<1>2. CASE UnderLimit
  <2>1. Goto(c, [at |-> "number"]) /\ [at |-> "number"] \in IssueRows
    BY <1>1, <1>2 DEF PlayCounts, At, IssueRows
  <2>2. call'[c] = [at |-> "number"]
    BY <2>1, IssueShape DEF Goto
  <2>3. UnderLimit'
    BY <1>1, <1>2 DEF UnderLimit, countedPlays
  <2>4. IssueSound(c)' /\ ~Closing(c)'
    BY <1>1, <2>1, <2>2, <2>3 DEF IssueSound, Closing
  <2> QED
    BY <1>1, <2>1, <2>4, IssueMoves
<1>3. CASE ~UnderLimit
  BY <1>1, <1>3, DiesKeeps DEF PlayCounts, Calls
<1> QED
  BY <1>2, <1>3

LEMMA PlayNumbersKeeps ==
  ASSUME PlaybackInv, NEW c \in Issues, PlayNumbers(c)
  PROVE  PlaybackInv'
<1>1. PlaysKept /\ TicketsKept /\ UNCHANGED stale /\ call[c].at = "number" /\ UNCHANGED play
  BY UnchangedPlays, UnchangedTickets DEF PlayNumbers, PlaybackInv, KeepWorld, rows
<1>2. Highest \in 0..MaxAttempts /\ (Highest = 0 \/ play[Highest].status # "NONE")
  <2> DEFINE used == {0} \cup {n \in Attempts : play[n].status # "NONE"}
  <2>1. used \in SUBSET (0..MaxAttempts) /\ used # {}
    BY Numbers DEF Attempts
  <2> HIDE DEF used
  <2>2. Max(used) \in used
    BY <2>1, LatestIsMember, Numbers
  <2> QED
    BY <2>1, <2>2 DEF used, Highest
<1>3. PICK n \in Attempts : n = Highest + 1
  BY <1>2, Numbers DEF PlayNumbers, Attempts
<1>4. Goto(c, [at |-> "create", play |-> n]) /\ [at |-> "create", play |-> n] \in IssueRows
  BY <1>3 DEF PlayNumbers, IssueRows
<1>5. call'[c] = [at |-> "create", play |-> n]
  BY <1>4, IssueShape DEF Goto
<1>6. UnderLimit'
  BY <1>1 DEF PlaybackInv, IssueSound, UnderLimit, countedPlays
<1>8. Below(n)'
  <2> SUFFICES ASSUME NEW k \in Attempts, k < n PROVE play[k].status # "NONE"
    BY <1>1 DEF Below
  <2>1. Highest \in Attempts /\ (k = Highest \/ k < Highest)
    BY <1>2, <1>3, Numbers DEF Attempts
  <2> QED
    BY <1>2, <2>1, Numbers DEF PlaybackInv, Below, Attempts
<1>7. IssueSound(c)' /\ ~Closing(c)'
  BY <1>1, <1>4, <1>5, <1>6, <1>8 DEF IssueSound, Closing
<1> QED
  BY <1>1, <1>4, <1>7, IssueMoves

\* A step of a request for a ticket on the plays: it leaves the open ones alone, or no player runs.
LEMMA SearchMoves ==
  ASSUME PlaybackInv, UNCHANGED <<stale, ticket>>,
         NobodyPlays \/ \A n \in Attempts : play[n].status = "OPEN" => play'[n] = play[n],
         play' \in [Attempts -> PlayRows],
         \A n \in Attempts : play'[n].status = "NONE" => play'[n] = NoPlay,
         \A n \in Attempts : play'[n].status # "NONE" => Below(n)',
         NEW c \in Issues, NEW row \in IssueRows, Goto(c, row), \A d \in Issues : IssueSound(d)', WithinLimit',
         row.at # "close",
         row.at = "mint" => \A d \in Issues \ {c} : ~Closing(d)
  PROVE  PlaybackInv'
<1>1. Rows'
  BY DEF PlaybackInv, Rows, Goto
<1>2. /\ \A d \in Beats : call'[d] = call[d]
      /\ \A d \in Issues \ {c} : call'[d] = call[d]
      /\ call'[c] = row
  BY PlaybackAssumption DEF Goto, PlaybackInv, Rows, Calls
<1>3. \A d \in Issues : Closing(d)' => NobodyPlays'
  BY <1>2 DEF PlaybackInv, Closing, NobodyPlays, Beating, Playing
<1>4. ASSUME NEW n \in Attempts, NEW k \in Nat, Alive(n, k) PROVE Alive(n, k)' \/ NobodyPlays
  BY <1>4 DEF Alive
<1>5. PlayFollowsTicket'
  <2> SUFFICES ASSUME NEW t \in TicketIds, Beating(t)
               PROVE  Alive(ticket[t].play, ticket[t].age)'
    BY DEF PlayFollowsTicket, Beating
  <2>1. PICK n \in Attempts, k \in Nat : n = ticket[t].play /\ k = ticket[t].age /\ Alive(n, k)
    BY Numbers DEF PlaybackInv, PlayFollowsTicket, Rows, Beating, TicketRows
  <2>2. Alive(n, k)'
    BY <1>4, <2>1 DEF NobodyPlays
  <2> QED
    BY <2>1, <2>2 DEF Alive
<1>6. ASSUME NEW d \in Beats PROVE BeatSound(d)'
  <2>1. BeatSound(d) /\ call'[d] = call[d]
    BY <1>2 DEF PlaybackInv
  <2>2. CASE ~Playing(d)
    BY <2>1, <2>2 DEF BeatSound, Playing
  <2>3. CASE Playing(d)
    <3>1. call[d] # Idle /\ ~NobodyPlays
      BY <2>3 DEF Playing, Idle, NobodyPlays
    <3>2. PICK n \in Attempts : n = ticket[call[d].ticket].play
      BY <3>1, BeatKnows
    <3>3. ticketTtl + 2 \in Nat
      BY Numbers
    <3>4. /\ call[d].at = "access" => Alive(n, ticketTtl + 2)'
          /\ call[d].at \in {"rotate", "renew"} => Alive(n, 0)'
      BY <1>4, <2>1, <3>1, <3>2, <3>3 DEF BeatSound
    <3> QED
      BY <2>1, <3>2, <3>4 DEF BeatSound, Alive
  <2> QED
    BY <2>2, <2>3
<1> QED
  BY <1>1, <1>3, <1>5, <1>6 DEF PlaybackInv

LEMMA PlayClosesKeeps ==
  ASSUME PlaybackInv, NEW c \in Issues, PlayCloses(c)
  PROVE  PlaybackInv'
<1>1. call[c].at = "close" /\ call[c] = [at |-> "close"] /\ UNCHANGED <<stale, ticket>> /\ NobodyPlays
  BY IssueShape DEF PlayCloses, KeepWorld, PlaybackInv, Closing
<1>2. \A n \in Attempts : play[n] \in PlayRows
  BY DEF PlaybackInv, Rows
<1>3. \A n \in Attempts :
        /\ play'[n] \in PlayRows /\ play'[n].status # "OPEN" /\ play'[n].long = play[n].long
        /\ play'[n].status = "NONE" => play'[n] = play[n]
  BY <1>2, Numbers DEF PlayCloses, PlayRows
<1>4. play' \in [Attempts -> PlayRows]
  BY <1>3 DEF PlayCloses
<1>5. Goto(c, [at |-> "count"]) /\ [at |-> "count"] \in IssueRows
  <2>1. At(c, "count")
    BY Zenon DEF PlayCloses
  <2> QED
    BY <1>1, <2>1 DEF At, IssueRows
<1>6. call'[c] = [at |-> "count"]
  BY <1>5, IssueShape DEF Goto
<1>7. countedPlays' \subseteq countedPlays
  BY <1>3 DEF countedPlays
<1>8. Cardinality(countedPlays') <= Cardinality(countedPlays) /\ Cardinality(countedPlays') \in Nat
      /\ Cardinality(countedPlays) \in Nat
  <2>1. IsFiniteSet(countedPlays)
    <3>1. IsFiniteSet(Attempts)
      BY FS_Interval, Numbers DEF Attempts
    <3> QED
      BY <3>1, FS_Subset DEF countedPlays
  <2> QED
    BY <1>7, <2>1, FS_Subset, FS_CardinalityType
<1>9. WithinLimit' /\ (UnderLimit => UnderLimit')
  <2>1. maxPlaysPerVideo \in Nat
    BY Numbers
  <2>2. Cardinality(countedPlays) <= maxPlaysPerVideo
    BY DEF PlaybackInv, WithinLimit
  <2>3. Cardinality(countedPlays') <= maxPlaysPerVideo
    BY <1>8, <2>1, <2>2
  <2>4. Cardinality(countedPlays) < maxPlaysPerVideo => Cardinality(countedPlays') < maxPlaysPerVideo
    BY <1>8, <2>1
  <2>5. WithinLimit'
    BY <2>3 DEF WithinLimit
  <2>6. UnderLimit => UnderLimit'
    BY <2>4 DEF UnderLimit
  <2> QED
    BY <2>5, <2>6
<1>10. \A n \in Attempts : play'[n].status = "NONE" <=> play[n].status = "NONE"
  <2>1. SUFFICES ASSUME NEW n \in Attempts PROVE play'[n].status = "NONE" <=> play[n].status = "NONE"
    OBVIOUS
  <2>2. /\ play[n] \in PlayRows
        /\ play'[n] = IF play[n].status = "OPEN" THEN [play[n] EXCEPT !.status = "CLOSED", !.idle = 0]
                                                ELSE play[n]
    BY <1>2 DEF PlayCloses
  <2>3. CASE play[n].status = "OPEN"
    BY <2>2, <2>3 DEF PlayRows
  <2>4. CASE play[n].status # "OPEN"
    BY <2>2, <2>4
  <2> QED
    BY <2>3, <2>4
<1>11. \A n : Below(n) => Below(n)'
  BY <1>10 DEF Below
<1>12. ASSUME NEW d \in Issues PROVE IssueSound(d)'
  <2>1. CASE d = c
    BY <1>5, <1>6, <2>1 DEF IssueSound
  <2>2. CASE d # c
    <3>1. call'[d] = call[d] /\ IssueSound(d) /\ call[d].at # "mint"
      BY <1>1, <1>5, <2>2 DEF Goto, PlaybackInv, Rows, Calls, NobodyPlays
    <3>2. call[d].at = "create" => call[d].play \in Attempts
      BY IssueShape
    <3> QED
      BY <1>9, <1>10, <1>11, <3>1, <3>2 DEF IssueSound
  <2> QED
    BY <2>1, <2>2
<1>13. \A n \in Attempts : play'[n].status # "NONE" => Below(n)'
  BY <1>10, <1>11 DEF PlaybackInv
<1> QED
  BY <1>1, <1>3, <1>4, <1>5, <1>9, <1>12, <1>13, SearchMoves DEF PlaybackInv, Rows

LEMMA PlayCreatesKeeps ==
  ASSUME PlaybackInv, ~crossed', NEW c \in Issues, PlayCreates(c)
  PROVE  PlaybackInv'
<1>1. /\ call[c].at = "create" /\ UNCHANGED <<stale, ticket>>
      /\ Below(call[c].play) /\ (play[call[c].play].status # "NONE" \/ UnderLimit)
  BY DEF PlayCreates, PlaybackInv, IssueSound
<1>2. PICK n \in Attempts : n = call[c].play /\ call[c] = [at |-> "create", play |-> n]
  BY <1>1, IssueShape
<1>3. CASE play[n].status = "NONE"
  <2>1. play' = [play EXCEPT ![n].status = "OPEN"] /\ At(c, "mint") /\ Crosses(c, {"close", "number"})
    BY <1>2, <1>3 DEF PlayCreates
  <2>2. play[n] = NoPlay /\ play \in [Attempts -> PlayRows]
    BY <1>3 DEF PlaybackInv, Rows
  <2>3. play'[n] = [NoPlay EXCEPT !.status = "OPEN"] /\ \A k \in Attempts \ {n} : play'[k] = play[k]
    BY <2>1, <2>2
  <2>4. [NoPlay EXCEPT !.status = "OPEN"] = [status |-> "OPEN", idle |-> 0, long |-> FALSE]
    <3> DEFINE row == NoPlay
               no == FALSE
    <3>1. row = [status |-> "NONE", idle |-> 0, long |-> no]
      BY DEF NoPlay
    <3> HIDE DEF row, no
    <3>2. [row EXCEPT !.status = "OPEN"] = [status |-> "OPEN", idle |-> 0, long |-> no]
      BY <3>1
    <3> QED
      BY <3>2 DEF row, no
  <2>5. play'[n] = [status |-> "OPEN", idle |-> 0, long |-> FALSE] /\ \A k \in Attempts \ {n} : play'[k] = play[k]
    BY <2>3, <2>4
  <2>6. play' \in [Attempts -> PlayRows]
    <3>1. [status |-> "OPEN", idle |-> 0, long |-> FALSE] \in PlayRows
      BY Numbers DEF PlayRows
    <3>2. \A k \in Attempts : play'[k] \in PlayRows
      BY <2>2, <2>5, <3>1
    <3>3. play' = [k \in Attempts |-> play'[k]]
      BY <2>1, <2>2
    <3> QED
      BY <3>2, <3>3
  <2>7. \A k \in Attempts : play'[k].status = "NONE" => play'[k] = NoPlay
    BY <2>5 DEF PlaybackInv, Rows
  <2>8. Goto(c, [at |-> "mint", play |-> n]) /\ [at |-> "mint", play |-> n] \in IssueRows
    BY <1>2, <2>1 DEF At, IssueRows
  <2>9. call'[c] = [at |-> "mint", play |-> n]
    BY <2>8, IssueShape DEF Goto
  <2>10. IssueSound(c)'
    BY <2>5, <2>8, <2>9, Numbers DEF IssueSound, Alive
  <2>11. WithinLimit'
    <3>1. countedPlays' = countedPlays \cup {n} /\ n \notin countedPlays
      BY <2>2, <2>5 DEF countedPlays, NoPlay
    <3>2. IsFiniteSet(countedPlays)
      <4>1. IsFiniteSet(Attempts)
        BY FS_Interval, Numbers DEF Attempts
      <4> QED
        BY <4>1, FS_Subset DEF countedPlays
    <3>3. Cardinality(countedPlays') = Cardinality(countedPlays) + 1 /\ Cardinality(countedPlays) \in Nat
      BY <3>1, <3>2, FS_AddElement, FS_CardinalityType
    <3>4. Cardinality(countedPlays) < maxPlaysPerVideo
      BY <1>1, <1>2, <1>3 DEF UnderLimit
    <3>5. Cardinality(countedPlays') <= maxPlaysPerVideo
      BY <3>3, <3>4, Numbers
    <3> QED
      BY <3>5 DEF WithinLimit
  <2>12. \A d \in Issues \ {c} : call[d].at \notin {"close", "number"}
    BY <2>1 DEF Crosses
  <2>13. (\A k : Below(k) => Below(k)') /\ Below(n)'
    BY <1>1, <1>2, <2>5 DEF Below
  <2>14. ASSUME NEW d \in Issues PROVE IssueSound(d)'
    <3>1. CASE d = c
      BY <2>10, <3>1
    <3>2. CASE d # c
      <4>1. call'[d] = call[d] /\ IssueSound(d) /\ call[d].at # "number"
        BY <2>8, <2>12, <3>2 DEF Goto, PlaybackInv, Rows, Calls
      <4>2. ASSUME call[d].at = "create" PROVE play'[call[d].play].status # "NONE"
        <5>1. PICK m \in Attempts : m = call[d].play /\ Below(m)
          BY <4>1, <4>2, IssueShape DEF IssueSound
        <5>2. ~(n < m)
          BY <1>3, <5>1 DEF Below
        <5>3. m < n => play[m].status # "NONE"
          BY <1>1, <1>2, <5>1 DEF Below
        <5>4. m = n \/ m < n
          BY <5>2, Numbers DEF Attempts
        <5> QED
          BY <2>5, <5>1, <5>3, <5>4
      <4>3. ASSUME call[d].at = "mint" PROVE Alive(call[d].play, 0)'
        <5>1. PICK m \in Attempts : m = call[d].play /\ Alive(m, 0)
          BY <4>1, <4>3, IssueShape DEF IssueSound
        <5> QED
          BY <1>3, <4>1, <5>1, <2>5 DEF Alive
      <4> QED
        BY <4>1, <4>2, <4>3, <2>13 DEF IssueSound
    <3> QED
      BY <3>1, <3>2
  <2>15. \A k \in Attempts : play'[k].status # "NONE" => Below(k)'
    BY <2>5, <2>13 DEF PlaybackInv
  <2>16. \A k \in Attempts : play[k].status = "OPEN" => play'[k] = play[k]
    BY <1>3, <2>5
  <2>17. [at |-> "mint", play |-> n].at # "close" /\ \A d \in Issues \ {c} : ~Closing(d)
    BY <2>12 DEF Closing
  <2> QED
    BY <1>1, <2>6, <2>7, <2>8, <2>11, <2>14, <2>15, <2>16, <2>17, SearchMoves
<1>4. CASE play[n].status # "NONE"
  <2>1. UNCHANGED play /\ Goto(c, [at |-> "find"]) /\ [at |-> "find"] \in IssueRows
    BY <1>2, <1>4 DEF PlayCreates, IssueRows
  <2>2. call'[c] = [at |-> "find"]
    BY <2>1, IssueShape DEF Goto
  <2>3. IssueSound(c)' /\ ~Closing(c)'
    BY <2>1, <2>2 DEF IssueSound, Closing
  <2> QED
    BY <1>1, <2>1, <2>3, IssueMoves, UnchangedPlays, UnchangedTickets DEF PlaybackInv
<1> QED
  BY <1>3, <1>4

-----------------------------------------------------------------------------
\* A ticket is minted for a play that was just heard of, while no other request closes any.
LEMMA MintMoves ==
  ASSUME PlaybackInv, NEW c \in Calls, NEW n \in Attempts, NEW from \in 0..MaxTickets,
         Mint(n, from), Alive(n, 0), Goto(c, Idle), UNCHANGED <<play, stale>>,
         \A d \in Issues \ {c} : ~Closing(d)
  PROVE  PlaybackInv'
<1> DEFINE free == {t \in TicketIds : ticket[t].status = "NONE"}
           row == [NoTicket EXCEPT !.status = "ACTIVE", !.play = n, !.from = from]
<1>1. PICK t \in TicketIds : t = Min(free) /\ ticket[t].status = "NONE"
  <2>1. free \in SUBSET Nat /\ free # {}
    BY DEF Mint, TicketIds
  <2> HIDE DEF free
  <2>2. Min(free) \in free
    BY <2>1, EarliestIsMember
  <2> QED
    BY <2>2 DEF free
<1>2. ticket' = [ticket EXCEPT ![t] = row]
  BY <1>1 DEF Mint
<1>3. row = [status |-> "ACTIVE", play |-> n, from |-> from, age |-> 0, quiet |-> 0]
  <2> DEFINE blank == NoTicket
             active == [blank EXCEPT !.status = "ACTIVE"]
             played == [active EXCEPT !.play = n]
  <2>1. blank = [status |-> "NONE", play |-> 0, from |-> 0, age |-> 0, quiet |-> 0]
    BY DEF NoTicket
  <2>2. row = [played EXCEPT !.from = from]
    OBVIOUS
  <2> HIDE DEF blank, row
  <2>3. active = [status |-> "ACTIVE", play |-> 0, from |-> 0, age |-> 0, quiet |-> 0]
    BY <2>1
  <2> HIDE DEF active
  <2>4. played = [status |-> "ACTIVE", play |-> n, from |-> 0, age |-> 0, quiet |-> 0]
    BY <2>3
  <2> HIDE DEF played
  <2> QED
    BY <2>2, <2>4
<1> HIDE DEF row
<1>4. /\ row \in TicketRows /\ row.status = "ACTIVE" /\ row.play = n /\ row.age = 0
  BY <1>3, Numbers DEF TicketRows, Attempts
<1>5. ticket'[t] = row /\ \A k \in TicketIds \ {t} : ticket'[k] = ticket[k]
  BY <1>2 DEF PlaybackInv, Rows
<1>6. call'[c] = Idle /\ \A d \in Calls \ {c} : call'[d] = call[d]
  BY DEF Goto, PlaybackInv, Rows
<1>7. Rows'
  <2>1. call' \in [Calls -> IssueRows \cup BeatRows]
    BY DEF Goto, PlaybackInv, Rows, IssueRows
  <2>2. ticket' \in [TicketIds -> TicketRows]
    BY <1>2, <1>4 DEF PlaybackInv, Rows
  <2>3. \A k \in TicketIds : ticket'[k].status # "NONE" => ticket'[k].play \in Attempts
    BY <1>4, <1>5 DEF PlaybackInv, Rows
  <2>4. stale' \in SUBSET {k \in TicketIds : ticket'[k].status # "NONE"}
    BY <1>4, <1>5 DEF PlaybackInv, Rows
  <2> QED
    BY <2>1, <2>2, <2>3, <2>4 DEF PlaybackInv, Rows
<1>8. PlayFollowsTicket'
  <2> SUFFICES ASSUME NEW k \in TicketIds, Beating(k)' PROVE Alive(ticket[k].play, ticket[k].age)'
    BY DEF PlayFollowsTicket
  <2>1. CASE k = t
    BY <2>1, <1>4, <1>5 DEF Alive
  <2>2. CASE k # t
    BY <2>2, <1>5 DEF PlaybackInv, PlayFollowsTicket, Beating, Alive
  <2> QED
    BY <2>1, <2>2
<1>9. ASSUME NEW d \in Issues PROVE IssueSound(d)' /\ ~Closing(d)'
  <2>1. CASE d = c
    BY <2>1, <1>6 DEF IssueSound, IssueRows, Closing, Idle
  <2>2. CASE d # c
    <3>1. call'[d] = call[d] /\ IssueSound(d) /\ ~Closing(d)
      BY <2>2, <1>6 DEF PlaybackInv, Calls
    <3>2. UnderLimit => UnderLimit'
      BY DEF UnderLimit, countedPlays
    <3> QED
      BY <3>1, <3>2 DEF IssueSound, Closing, Alive, Below
  <2> QED
    BY <2>1, <2>2
<1>10. ASSUME NEW d \in Beats PROVE BeatSound(d)'
  <2>1. CASE d = c
    BY <2>1, <1>6 DEF BeatSound, BeatRows, Idle
  <2>2. CASE d # c
    <3>1. call'[d] = call[d] /\ BeatSound(d)
      BY <2>2, <1>6 DEF PlaybackInv, Calls
    <3>2. CASE call[d] = Idle
      BY <3>1, <3>2 DEF BeatSound, Idle
    <3>3. CASE call[d] # Idle
      <4>1. call[d].ticket \in TicketIds /\ ticket[call[d].ticket].status # "NONE"
        BY <3>3, BeatKnows
      <4>2. ticket'[call[d].ticket] = ticket[call[d].ticket]
        BY <4>1, <1>1, <1>5
      <4> QED
        BY <3>1, <4>2 DEF BeatSound, Alive
    <3> QED
      BY <3>2, <3>3
  <2> QED
    BY <2>1, <2>2
<1>11. WithinLimit' /\ \A k \in Attempts : play'[k].status # "NONE" => Below(k)'
  BY DEF PlaybackInv, WithinLimit, countedPlays, Below
<1> QED
  BY <1>7, <1>8, <1>9, <1>10, <1>11 DEF PlaybackInv

LEMMA mintTicketKeeps ==
  ASSUME PlaybackInv, NEW c \in Issues, mintTicket(c)
  PROVE  PlaybackInv'
<1>1. call[c].at = "mint" /\ c \in Calls
  BY DEF mintTicket, Calls
<1>2. PICK n \in Attempts : n = call[c].play
  BY <1>1, IssueShape
<1>3. Alive(n, 0)
  BY <1>1, <1>2 DEF PlaybackInv, IssueSound
<1>4. Mint(n, 0) /\ Goto(c, Idle) /\ UNCHANGED <<play, stale>> /\ 0 \in 0..MaxTickets
  BY <1>2, Numbers DEF mintTicket, KeepWorld
<1>5. \A d \in Issues \ {c} : ~Closing(d)
  BY <1>1 DEF PlaybackInv, NobodyPlays
<1> QED
  BY <1>1, <1>3, <1>4, <1>5, MintMoves

LEMMA RotateMintsKeeps ==
  ASSUME PlaybackInv, NEW c \in Beats, RotateMints(c)
  PROVE  PlaybackInv'
<1>1. call[c].at = "renew" /\ c \in Calls /\ call[c] # Idle
  BY DEF RotateMints, Calls, Idle
<1>2. PICK t \in TicketIds, n \in Attempts : t = call[c].ticket /\ n = ticket[t].play
  BY <1>1, BeatKnows
<1>3. Alive(n, 0)
  BY <1>1, <1>2 DEF PlaybackInv, BeatSound
<1>4. Mint(n, t) /\ Goto(c, Idle) /\ UNCHANGED <<play, stale>> /\ t \in 0..MaxTickets
  BY <1>2, Numbers DEF RotateMints, KeepWorld, TicketIds
<1>5. \A d \in Issues \ {c} : ~Closing(d)
  BY <1>1 DEF PlaybackInv, NobodyPlays, Playing
<1> QED
  BY <1>1, <1>3, <1>4, <1>5, MintMoves

-----------------------------------------------------------------------------
\* Administrators, sweeps and time.
LEMMA AdminKeeps == ASSUME PlaybackInv, AdminStep PROVE PlaybackInv'
<1>1. PlaysKept /\ UNCHANGED <<stale, call>>
  BY UnchangedPlays DEF AdminStep, withdrawAccess, grantAccess, PlaybackInv, rows
<1>2. TicketsKept
  <2>1. CASE withdrawAccess
    BY <2>1, EndActiveKeeps DEF withdrawAccess, PlaybackInv
  <2>2. CASE grantAccess
    BY <2>2, UnchangedTickets DEF grantAccess, PlaybackInv, rows
  <2> QED
    BY <2>1, <2>2 DEF AdminStep
<1> QED
  BY <1>1, <1>2, SweepMoves DEF PlaybackInv, Rows

LEMMA recordSecurityEventKeeps ==
  ASSUME PlaybackInv, NEW t \in TicketIds, recordSecurityEvent(t)
  PROVE  PlaybackInv'
<1>1. PlaysKept /\ TicketsKept
  BY UnchangedPlays, EndKeeps DEF recordSecurityEvent, PlaybackInv
<1> QED
  BY <1>1, SweepMoves DEF recordSecurityEvent, PlaybackInv, Rows

LEMMA SweepKeeps == ASSUME PlaybackInv, SweepStep PROVE PlaybackInv'
<1>1. CASE expireLapsedTickets
  <2>1. PlaysKept /\ TicketsKept
    BY <1>1, UnchangedPlays, EndActiveKeeps DEF expireLapsedTickets, PlaybackInv
  <2> QED
    BY <1>1, <2>1, SweepMoves DEF expireLapsedTickets, PlaybackInv, Rows
<1>2. CASE ReclaimReads
  <2>1. PlaysKept /\ TicketsKept /\ UNCHANGED call
    BY <1>2, UnchangedPlays, UnchangedTickets DEF ReclaimReads, PlaybackInv, rows
  <2>2. stale' \in SUBSET {t \in TicketIds : ticket[t].status # "NONE"}
    BY <1>2 DEF ReclaimReads
  <2> QED
    BY <2>1, <2>2, SweepMoves
<1>3. CASE reclaimStaleSlots
  <2>1. PICK t \in stale : End(t) /\ stale' = stale \ {t} /\ UNCHANGED <<access, play, call>>
    BY <1>3 DEF reclaimStaleSlots
  <2>2. t \in TicketIds /\ ticket[t].status # "NONE"
    BY DEF PlaybackInv, Rows
  <2>3. PlaysKept /\ TicketsKept
    BY <2>1, <2>2, UnchangedPlays, EndKeeps DEF PlaybackInv
  <2> QED
    BY <2>1, <2>3, SweepMoves DEF PlaybackInv, Rows
<1> QED
  BY <1>1, <1>2, <1>3 DEF SweepStep

\* An interval passes: a ticket grows old at least as fast as its play.
LEMMA TickKeeps == ASSUME PlaybackInv, Tick PROVE PlaybackInv'
<1>1. ASSUME NEW last \in Nat, NEW k \in 0..last PROVE Older(k, last) \in 0..last /\ Older(k, last) <= k + 1
  BY DEF Older
<1>2. ASSUME NEW n \in Attempts
      PROVE  /\ play'[n] \in PlayRows /\ play'[n].status = play[n].status /\ play'[n].long = play[n].long
             /\ play'[n].idle <= play[n].idle + 1
             /\ play'[n].status = "NONE" => play'[n] = play[n]
  <2>1. play[n] \in PlayRows /\ play[n].idle \in 0..Forgotten
    BY DEF PlaybackInv, Rows, PlayRows
  <2>2. Older(play[n].idle, Forgotten) \in 0..Forgotten /\ Older(play[n].idle, Forgotten) <= play[n].idle + 1
    BY <1>1, <2>1, Numbers
  <2>3. CASE play[n].status = "OPEN"
    <3>1. play'[n] = [play[n] EXCEPT !.idle = Older(play[n].idle, Forgotten)]
      BY <2>3 DEF Tick
    <3> QED
      BY <2>1, <2>2, <2>3, <3>1 DEF PlayRows
  <2>4. CASE play[n].status # "OPEN"
    <3>1. play'[n] = play[n]
      BY <2>4 DEF Tick
    <3>2. play[n].idle <= play[n].idle + 1
      BY <2>1, Numbers
    <3> QED
      BY <2>1, <3>1, <3>2
  <2> QED
    BY <2>3, <2>4
<1>3. ASSUME NEW t \in TicketIds
      PROVE  /\ ticket'[t] \in TicketRows /\ ticket'[t].status = ticket[t].status
             /\ ticket'[t].play = ticket[t].play
             /\ ticket[t].status = "ACTIVE" => ticket'[t].age = Older(ticket[t].age, Lapsed)
  <2>1. ticket[t] \in TicketRows /\ ticket[t].age \in 0..Lapsed /\ ticket[t].quiet \in 0..Quiet
    BY DEF PlaybackInv, Rows, TicketRows
  <2>2. Older(ticket[t].age, Lapsed) \in 0..Lapsed /\ Older(ticket[t].quiet, Quiet) \in 0..Quiet
    BY <1>1, <2>1, Numbers
  <2>3. CASE ticket[t].status = "ACTIVE"
    <3>1. ticket'[t] = [ticket[t] EXCEPT !.age = Older(ticket[t].age, Lapsed), !.quiet = Older(ticket[t].quiet, Quiet)]
      BY <2>3 DEF Tick
    <3> QED
      BY <2>1, <2>2, <2>3, <3>1 DEF TicketRows
  <2>4. CASE ticket[t].status # "ACTIVE"
    BY <2>1, <2>4 DEF Tick
  <2> QED
    BY <2>3, <2>4
<1>4. /\ \A c \in Calls : call'[c] = Idle
      /\ UNCHANGED <<stale, call>>
  BY DEF Tick
<1>5. Rows'
  <2>1. play' \in [Attempts -> PlayRows] /\ ticket' \in [TicketIds -> TicketRows]
    BY <1>2, <1>3 DEF Tick
  <2> QED
    BY <1>2, <1>3, <1>4, <2>1 DEF PlaybackInv, Rows
<1>6. PlayFollowsTicket'
  <2> SUFFICES ASSUME NEW t \in TicketIds, Beating(t)' PROVE Alive(ticket[t].play, ticket[t].age)'
    BY DEF PlayFollowsTicket
  <2>1. /\ ticket[t].age \in Nat /\ ticket[t].age <= Lapsed /\ ticket[t].status = "ACTIVE"
        /\ ticket'[t].age = Older(ticket[t].age, Lapsed) /\ ticket'[t].age <= ticketTtl + 2
    BY <1>3, Numbers DEF PlaybackInv, Rows, TicketRows, Beating
  <2>2. ticket[t].age <= ticketTtl + 2 /\ ticket'[t].age = ticket[t].age + 1
    BY <2>1, Numbers DEF Older
  <2>3. Alive(ticket[t].play, ticket[t].age)
    BY <2>1, <2>2 DEF PlaybackInv, PlayFollowsTicket, Beating
  <2>4. PICK n \in Attempts : n = ticket[t].play
    BY <2>1 DEF PlaybackInv, Rows
  <2>5. play[n].idle \in Nat /\ play'[n].idle \in Nat /\ play[n].idle <= ticket[t].age
    BY <1>2, <2>3, <2>4, Numbers DEF PlaybackInv, Rows, PlayRows, Alive
  <2>6. play'[n].idle <= ticket'[t].age
    BY <1>2, <2>1, <2>2, <2>5
  <2> QED
    BY <1>2, <1>3, <2>3, <2>4, <2>6 DEF Alive
<1>7. /\ \A c \in Issues : IssueSound(c)' /\ ~Closing(c)'
      /\ \A c \in Beats : BeatSound(c)'
  BY <1>4 DEF Calls, IssueSound, IssueRows, BeatSound, BeatRows, Closing, Idle
<1>8. WithinLimit' /\ \A n \in Attempts : play'[n].status # "NONE" => Below(n)'
  <2>1. countedPlays' = countedPlays
    BY <1>2 DEF countedPlays
  <2> QED
    BY <1>2, <2>1 DEF PlaybackInv, WithinLimit, Below
<1> QED
  BY <1>5, <1>6, <1>7, <1>8 DEF PlaybackInv

-----------------------------------------------------------------------------
LEMMA PlaybackInitHolds == PlaybackInit => PlaybackInv
<1> SUFFICES ASSUME PlaybackInit PROVE PlaybackInv
  OBVIOUS
<1>1. /\ \A n \in Attempts : play[n] = NoPlay /\ play[n].status = "NONE" /\ ~play[n].long
      /\ \A t \in TicketIds : ticket[t] = NoTicket /\ ticket[t].status = "NONE"
      /\ \A c \in Calls : call[c] = Idle
      /\ stale = {}
  BY DEF PlaybackInit, NoPlay, NoTicket
<1>2. NoPlay \in PlayRows /\ NoTicket \in TicketRows /\ Idle \in IssueRows
  BY Numbers DEF NoPlay, NoTicket, PlayRows, TicketRows, IssueRows
<1>3. Rows
  BY <1>1, <1>2 DEF PlaybackInit, Rows
<1>4. PlayFollowsTicket
  BY <1>1 DEF PlayFollowsTicket, Beating
<1>5. /\ \A c \in Issues : IssueSound(c) /\ ~Closing(c)
      /\ \A c \in Beats : BeatSound(c)
      /\ \A n \in Attempts : play[n].status = "NONE"
  BY <1>1 DEF Calls, IssueSound, IssueRows, BeatSound, BeatRows, Closing, Idle
<1>6. WithinLimit
  <2>1. countedPlays = {}
    BY <1>1 DEF countedPlays
  <2> QED
    BY <2>1, FS_EmptySet, Numbers DEF WithinLimit
<1> QED
  BY <1>3, <1>4, <1>5, <1>6 DEF PlaybackInv

LEMMA PlaybackNextKeeps ==
  ASSUME PlaybackInv, ~crossed', [PlaybackNext]_playbackVars
  PROVE  PlaybackInv'
<1>1. ASSUME NEW c \in Calls, RequestStep(c) PROVE PlaybackInv'
  <2>1. CASE RequestDies(c)
    BY <2>1, UnchangedPlays, UnchangedTickets, DiesKeeps DEF RequestDies, KeepWorld, rows, PlaybackInv
  <2>2. CASE c \in Issues /\ IssueStep(c)
    BY <2>2, PlayFindsKeeps, PlayClosesKeeps, PlayCountsKeeps, PlayNumbersKeeps, PlayCreatesKeeps,
       mintTicketKeeps DEF IssueStep
  <2>3. CASE c \in Beats /\ BeatStep(c)
    BY <2>3, BeatChecksKeeps, RotateReleasesKeeps, RotateMintsKeeps, ReleaseWritesKeeps DEF BeatStep
  <2>4. ~(c \in Beats /\ IssueStep(c))
    <3>1. IssueStep(c) => call[c].at \in {"find", "close", "count", "number", "create", "mint"}
      BY Zenon DEF IssueStep, PlayFinds, PlayCloses, PlayCounts, PlayNumbers, PlayCreates, mintTicket
    <3>2. c \in Beats => call[c].at \in {"idle", "access", "rotate", "renew", "end"}
      BY BeatShape
    <3> QED
      BY <3>1, <3>2
  <2>5. ~(c \in Issues /\ BeatStep(c))
    <3>1. BeatStep(c) => call[c].at \in {"access", "rotate", "renew", "end"}
      BY Zenon DEF BeatStep, BeatChecks, RotateReleases, RotateMints, ReleaseWrites
    <3> QED
      BY <3>1, IssueShape
  <2> QED
    BY <1>1, <2>1, <2>2, <2>3, <2>4, <2>5 DEF RequestStep, Calls
<1>2. CASE ArrivalStep
  BY <1>2, issueTicketKeeps, heartbeatKeeps, releaseKeeps, ReleaseAgainKeeps, recordSecurityEventKeeps
  DEF ArrivalStep
<1>3. CASE AdminStep
  BY <1>3, AdminKeeps
<1>4. CASE SweepStep
  BY <1>4, SweepKeeps
<1>5. CASE Tick
  BY <1>5, TickKeeps
<1>6. CASE UNCHANGED playbackVars
  <2>1. PlaysKept /\ TicketsKept
    BY <1>6, UnchangedPlays, UnchangedTickets DEF playbackVars, rows, PlaybackInv
  <2> QED
    BY <1>6, <2>1, SweepMoves DEF playbackVars, PlaybackInv, Rows
<1> QED
  BY <1>1, <1>2, <1>3, <1>4, <1>5, <1>6 DEF PlaybackNext

\* Requests that have crossed once have crossed for good.
LEMMA CrossedStays == ASSUME [PlaybackNext]_playbackVars, ~crossed' PROVE ~crossed
<1>1. ASSUME NEW c \in Calls, RequestStep(c) PROVE ~crossed
  <2>1. CASE PlayFinds(c) \/ PlayCreates(c)
    BY <2>1 DEF PlayFinds, PlayCreates, Crosses
  <2>2. CASE PlayCloses(c) \/ PlayCounts(c) \/ PlayNumbers(c) \/ mintTicket(c)
    BY <2>2 DEF PlayCloses, PlayCounts, PlayNumbers, mintTicket, KeepWorld
  <2>3. CASE BeatStep(c)
    BY <2>3 DEF BeatStep, BeatChecks, RotateReleases, RotateMints, ReleaseWrites, Terminate, KeepWorld
  <2>4. CASE RequestDies(c)
    BY <2>4 DEF RequestDies, KeepWorld
  <2> QED
    BY <1>1, <2>1, <2>2, <2>3, <2>4 DEF RequestStep, IssueStep
<1>2. CASE ArrivalStep
  BY <1>2 DEF ArrivalStep, issueTicket, heartbeat, release, ReleaseAgain, recordSecurityEvent, KeepWorld
<1>3. CASE AdminStep \/ Tick
  BY <1>3 DEF AdminStep, withdrawAccess, grantAccess, Tick
<1>4. CASE SweepStep
  BY <1>4 DEF SweepStep, expireLapsedTickets, ReclaimReads, reclaimStaleSlots
<1>5. CASE UNCHANGED playbackVars
  BY <1>5 DEF playbackVars
<1> QED
  BY <1>1, <1>2, <1>3, <1>4, <1>5 DEF PlaybackNext

LEMMA PlaybackSafe == PlaybackSpec => [](~crossed => PlaybackInv)
<1>1. PlaybackInit => (~crossed => PlaybackInv)
  BY PlaybackInitHolds
<1>2. (~crossed => PlaybackInv) /\ [PlaybackNext]_playbackVars => (~crossed' => PlaybackInv')
  BY CrossedStays, PlaybackNextKeeps
<1> QED
  BY <1>1, <1>2, PTL DEF PlaybackSpec

\* Whatever heartbeats, rotations, releases, sweeps, withdrawals, deaths of requests and other
\* requests for a ticket come between the steps of claimPlay, the plays that count never exceed
\* maxPlaysPerVideo, unless a play was taken while another claimPlay had counted and not yet
\* numbered its own, or was about to close what is open.
THEOREM PlayLimitHolds == PlaybackSpec => []PlaysWithinLimit
<1>1. (~crossed => PlaybackInv) => PlaysWithinLimit
  BY DEF PlaybackInv, WithinLimit, PlaysWithinLimit
<1> QED
  BY <1>1, PlaybackSafe, PTL

\* A ticket heartbeat still accepts is of an open play, however many requests of the player and
\* for a ticket overlap, until two claimPlay have crossed.
THEOREM AcceptedPlayIsOpen == PlaybackSpec => []RunningPlayIsOpen
<1>1. (~crossed => PlaybackInv) => RunningPlayIsOpen
  BY DEF PlaybackInv, PlayFollowsTicket, Alive, RunningPlayIsOpen
<1> QED
  BY <1>1, PlaybackSafe, PTL
=============================================================================
