------------------------------ MODULE Support ------------------------------
(***************************************************************************)
(* Support tickets (support.service.ts): a student opens a ticket and      *)
(* writes in it, staff reply, add internal notes and set its status.  Each *)
(* request reads the ticket and then writes the status it computed from    *)
(* what it read.                                                           *)
(***************************************************************************)
EXTENDS Handlers, Naturals, FiniteSets

CONSTANTS
  Threads,       \* tickets
  References,    \* numbers a ticket can be given
  MaxMessages    \* bound: messages of the student in one ticket

TicketStatuses == {"OPEN", "PENDING", "RESOLVED", "CLOSED"}

VARIABLES
  thread,     \* thread[t]: the ticket row
  unseen,    \* unseen[t]: history: messages of the student that staff have not been shown
  written,    \* written[t]: messages of the student
  crossing    \* history: a ticket was written between another request's read and its write

supportVars == <<thread, unseen, written, crossing>>

NoThread == [reference |-> 0, status |-> "NONE", unread |-> 0, resolved |-> FALSE, closed |-> FALSE]

SupportInit ==
  /\ thread = [t \in Threads |-> NoThread]
  /\ unseen = [t \in Threads |-> 0] /\ written = [t \in Threads |-> 0] /\ crossing = FALSE

Crossed(p, t) == crossing' = (crossing \/ \E q \in Calls \ {p} : call[q].op # "idle" /\ call[q].who = t)

Created == {t \in Threads : thread[t] # NoThread}
Taken == {thread[t].reference : t \in Created}

\* nextReference: the number of tickets and one, or the next that is free.
nextReference == {r \in References : r \notin Taken /\ r > Cardinality(Created)
                                     /\ \A s \in References : s < r /\ s > Cardinality(Created) => s \in Taken}

BeginCreateTicket(p, t) ==
  /\ At(p, "idle") /\ thread[t] = NoThread
  /\ \E r \in nextReference : Go(p, "createTicket", r, t)
  /\ UNCHANGED supportVars

\* createTicket; the reference is unique, the second of two is refused.
createTicket(p) ==
  LET t == call[p].who IN
  /\ At(p, "createTicket")
  /\ IF call[p].saw \notin Taken /\ thread[t] = NoThread
     THEN /\ thread' = [thread EXCEPT ![t] = [NoThread EXCEPT !.reference = call[p].saw, !.status = "OPEN", !.unread = 1]]
          /\ unseen' = [unseen EXCEPT ![t] = 1] /\ written' = [written EXCEPT ![t] = 1]
     ELSE UNCHANGED <<thread, unseen, written>>
  /\ End(p) /\ UNCHANGED crossing

\* addStudentMessage, reply and updateTicket read the ticket, and staff look at it; a closed one takes no message.
BeginWrite(p, t, op) ==
  /\ At(p, "idle") /\ thread[t] # NoThread
  /\ op = "message" => thread[t].status # "CLOSED" /\ written[t] < MaxMessages
  /\ Go(p, op, thread[t].status, t)
  /\ UNCHANGED supportVars

\* Mutant: a message in a resolved ticket leaves it resolved.
StatusAfterMessage_Kept(status) == status

StatusAfterMessage(status) == IF status = "RESOLVED" THEN "OPEN" ELSE status

addStudentMessage(p) ==
  LET t == call[p].who IN
  /\ At(p, "message")
  /\ thread' = [thread EXCEPT ![t].status = StatusAfterMessage(call[p].saw), ![t].unread = @ + 1, ![t].resolved = FALSE]
  /\ unseen' = [unseen EXCEPT ![t] = @ + 1] /\ written' = [written EXCEPT ![t] = @ + 1]
  /\ Crossed(p, t) /\ End(p)

\* reply: an internal note changes nothing of the ticket.  It answers with the ticket.
reply(p, internal) ==
  LET t == call[p].who IN
  /\ At(p, "reply")
  /\ IF internal THEN UNCHANGED <<thread, crossing>>
     ELSE /\ thread' = [thread EXCEPT ![t].status = IF call[p].saw = "OPEN" THEN "PENDING" ELSE call[p].saw, ![t].unread = 0]
          /\ Crossed(p, t)
  /\ Go(p, "detail", "none", t) /\ UNCHANGED <<unseen, written>>

updateTicket(p, status) ==
  LET t == call[p].who IN
  /\ At(p, "update")
  /\ thread' = [thread EXCEPT ![t].status = status,
                  ![t].resolved = (@ \/ status = "RESOLVED") /\ status # "OPEN",
                  ![t].closed = (@ \/ status = "CLOSED") /\ status # "OPEN"]
  /\ Crossed(p, t) /\ Go(p, "detail", "none", t)
  /\ UNCHANGED <<unseen, written>>

\* detailForStaff: the messages are read ...
detailForStaff(p) ==
  LET t == call[p].who IN
  /\ At(p, "detail")
  /\ unseen' = [unseen EXCEPT ![t] = 0]
  /\ IF thread[t].unread > 0 THEN Go(p, "seen", "none", t) ELSE End(p)
  /\ UNCHANGED <<thread, written, crossing>>

\* ... and the ticket is marked as read.
markSeen(p) ==
  LET t == call[p].who IN
  /\ At(p, "seen")
  /\ thread' = [thread EXCEPT ![t].unread = 0]
  /\ Crossed(p, t) /\ End(p)
  /\ UNCHANGED <<unseen, written>>

SupportNext ==
  \E p \in Calls :
    \/ \E t \in Threads : BeginCreateTicket(p, t) \/ \E op \in {"message", "reply", "update", "detail"} : BeginWrite(p, t, op)
    \/ createTicket(p) \/ addStudentMessage(p) \/ detailForStaff(p) \/ markSeen(p)
    \/ \E internal \in BOOLEAN : reply(p, internal)
    \/ \E status \in TicketStatuses : updateTicket(p, status)

SupportSpec == HandlersInit /\ SupportInit /\ [][SupportNext]_<<call, supportVars>>

-----------------------------------------------------------------------------
\* Requests on one ticket that overlap apart: a message staff have not been shown is counted
\* as unread, whatever is noted, resolved and reopened in between; a ticket that stands resolved
\* or closed is marked so (addStudentMessage, reply, updateTicket, detailForStaff).  And no two
\* tickets carry one reference (nextReference).
UnseenIsUnread ==
  /\ \A t, s \in Created : thread[t].reference = thread[s].reference => t = s
  /\ ~crossing => \A t \in Created :
       /\ (\A p \in Calls : At(p, "idle")) => thread[t].unread = unseen[t]
       /\ thread[t].status = "RESOLVED" => thread[t].resolved
       /\ thread[t].status = "CLOSED" => thread[t].closed
=============================================================================
