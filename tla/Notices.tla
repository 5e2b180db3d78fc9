------------------------------ MODULE Notices ------------------------------
(***************************************************************************)
(* Notifications and the phones they ring (notifications.service.ts,       *)
(* push.processor.ts): the inbox, the reminders that must be sent once,    *)
(* the push tokens with their cap, and the delivery of a push, which works *)
(* on the tokens it loaded while phones are registered, handed on, signed  *)
(* out and given up.                                                       *)
(***************************************************************************)
EXTENDS Handlers, Naturals, FiniteSets

CONSTANTS
  Tokens,        \* push tokens
  People,        \* users
  Notes,         \* notifications
  Reminders,     \* those with a dedupe key
  Addressee(_),  \* whom a notification is for
  TokenCap,      \* PUSH_MAX_ACTIVE_TOKENS_PER_USER
  FailureLimit,  \* failures after which a token is given up
  MaxPushes      \* bound: pushes of one notification

NoToken == "none"

ASSUME NoticeAssumption ==
  IsFiniteSet(Tokens) /\ NoToken \notin Tokens /\ TokenCap \in Nat \ {0} /\ MaxPushes \in Nat

VARIABLES
  phone,     \* phone[t]: the row of a token: its user, isActive and failureCount
  touched,   \* the order of updatedAt: <<x, y>> where y was written after x
  inbox,     \* inbox[k]: the notification row
  pushes,    \* pushes[k]: jobs ever queued for it
  queued,    \* queued[k]: jobs waiting
  muted,     \* users who switched this kind of push off
  newest,    \* newest[u]: the token u registered last, unless it failed or was signed out since
  crowded    \* history: two registrations or two sweeps overlapped

noticeVars == <<phone, touched, inbox, pushes, queued, muted, newest, crowded>>

NoticeInit ==
  /\ phone = [t \in Tokens |-> [of |-> "none", active |-> FALSE, fails |-> 0]]
  /\ touched = {}
  /\ inbox = [k \in Notes |-> "none"]
  /\ pushes = [k \in Notes |-> 0] /\ queued = [k \in Notes |-> 0]
  /\ muted = {} /\ newest = [u \in People |-> NoToken] /\ crowded = FALSE

RowLocked(t) == \E p \in Calls : At(p, "register") /\ call[p].who[1] = t

\* The order once t is written.
After(t) == {e \in touched : t \notin {e[1], e[2]}} \cup ((Tokens \ {t}) \X {t})

Touch(t) == touched' = After(t)

\* Whoever counted on one of these tokens no longer does.
NoLonger(ts) == newest' = [u \in People |-> IF newest[u] \in ts THEN NoToken ELSE newest[u]]

ActiveTokens(u) == {t \in Tokens : phone[t].of = u /\ phone[t].active}

-----------------------------------------------------------------------------
\* The job is queued, or the queue is away and the failure logged.
enqueuePush(k) ==
  \/ /\ pushes[k] < MaxPushes
     /\ pushes' = [pushes EXCEPT ![k] = @ + 1] /\ queued' = [queued EXCEPT ![k] = @ + 1]
  \/ UNCHANGED <<pushes, queued>>

\* createForUser / createForMany.
createForUser(k) ==
  /\ k \notin Reminders /\ inbox[k] = "none"
  /\ inbox' = [inbox EXCEPT ![k] = "unread"]
  /\ enqueuePush(k)
  /\ UNCHANGED <<phone, touched, muted, newest, crowded, call>>

\* createOnce: which of the reminders are there already ...
BeginCreateOnce(p, k) ==
  /\ At(p, "idle") /\ inbox[k] = "none"
  /\ Go(p, "createOnce", "fresh", k)
  /\ crowded' = (crowded \/ \E q \in Calls : call[q].op \in {"createOnce", "pushOnce"})
  /\ UNCHANGED <<phone, touched, inbox, pushes, queued, muted, newest>>

\* ... the others are inserted, duplicates skipped ...
createOnce(p) ==
  LET k == call[p].who IN
  /\ At(p, "createOnce")
  /\ inbox' = [inbox EXCEPT ![k] = IF @ = "none" THEN "unread" ELSE @]
  /\ Go(p, "pushOnce", "fresh", k)
  /\ UNCHANGED <<phone, touched, pushes, queued, muted, newest, crowded>>

\* ... and all that looked new are pushed, unless the worker dies here.
pushOnce(p) ==
  /\ At(p, "pushOnce")
  /\ enqueuePush(call[p].who)
  /\ End(p)
  /\ UNCHANGED <<phone, touched, inbox, muted, newest, crowded>>

\* The reminder sweep: an enrollment about to end names its reminder by the row and the day,
\* so that every run of that day names the same one.
sendExpiryReminders(p, k) == k \in Reminders /\ BeginCreateOnce(p, k)

markRead(k) ==
  /\ inbox[k] = "unread"
  /\ inbox' = [inbox EXCEPT ![k] = "read"]
  /\ UNCHANGED <<phone, touched, pushes, queued, muted, newest, crowded, call>>

updatePreferences(u) ==
  /\ muted' = IF u \in muted THEN muted \ {u} ELSE muted \cup {u}
  /\ UNCHANGED <<phone, touched, inbox, pushes, queued, newest, crowded, call>>

-----------------------------------------------------------------------------
\* Mutant: the tokens used longest ago are kept.
Keepers_Oldest(u, t) ==
  LET mine == ActiveTokens(u) \cup {t}
  IN  {x \in mine : Cardinality({y \in mine : <<y, x>> \in After(t)}) < TokenCap}

\* The user's latest active tokens, up to the cap, t among them.
Keepers(u, t) ==
  LET mine == ActiveTokens(u) \cup {t}
  IN  {x \in mine : Cardinality({y \in mine : <<x, y>> \in After(t)}) < TokenCap}

\* registerPushToken's transaction: the token's row is taken over and the keepers are read ...
BeginRegister(p, t, u) ==
  /\ At(p, "idle") /\ ~RowLocked(t)
  /\ Go(p, "register", Keepers(u, t), <<t, u>>)
  /\ crowded' = (crowded \/ \E q \in Calls : At(q, "register"))
  /\ UNCHANGED <<phone, touched, inbox, pushes, queued, muted, newest>>

\* ... and the user's other tokens, as they are by now, are given up.
registerPushToken(p) ==
  LET t == call[p].who[1]  u == call[p].who[2]  keep == call[p].saw IN
  /\ At(p, "register")
  /\ phone' = [x \in Tokens |->
       IF x = t THEN [of |-> u, active |-> t \in keep, fails |-> 0]
       ELSE IF phone[x].of = u /\ x \notin keep THEN [phone[x] EXCEPT !.active = FALSE] ELSE phone[x]]
  /\ Touch(t)
  /\ newest' = [v \in People |-> IF v = u THEN t ELSE IF newest[v] = t THEN NoToken ELSE newest[v]]
  /\ End(p)
  /\ UNCHANGED <<inbox, pushes, queued, muted, crowded>>

\* unregisterPushToken, logout and revocation of a session: some of the user's tokens.
unregisterPushToken(u, ts) ==
  /\ ts # {} /\ ts \subseteq ActiveTokens(u) /\ \A t \in ts : ~RowLocked(t)
  /\ phone' = [t \in Tokens |-> IF t \in ts THEN [phone[t] EXCEPT !.active = FALSE] ELSE phone[t]]
  /\ NoLonger(ts)
  /\ UNCHANGED <<touched, inbox, pushes, queued, muted, crowded, call>>

-----------------------------------------------------------------------------
\* sendSingle / sendBulk: a read notification and a muted user are skipped, else the tokens
\* are loaded.
send(p, k) ==
  LET u == Addressee(k) IN
  /\ At(p, "idle") /\ queued[k] > 0
  /\ queued' = [queued EXCEPT ![k] = @ - 1]
  /\ IF inbox[k] = "read" \/ u \in muted \/ ActiveTokens(u) = {} THEN UNCHANGED call
     ELSE Go(p, "deliver", ActiveTokens(u), NoToken)
  /\ UNCHANGED <<phone, touched, inbox, pushes, muted, newest, crowded>>

Rest(p, t) == IF call[p].saw = {t} THEN End(p) ELSE Go(p, "deliver", call[p].saw \ {t}, NoToken)

\* deliver, one ticket after the other: delivered, or the phone is gone, or it failed.
deliver(p) ==
  /\ At(p, "deliver")
  /\ \E t \in call[p].saw :
       /\ ~RowLocked(t)
       /\ \/ Rest(p, t) /\ UNCHANGED <<phone, touched, newest>>
          \/ /\ phone' = [phone EXCEPT ![t].active = FALSE]
             /\ Touch(t) /\ NoLonger({t}) /\ Rest(p, t)
          \/ /\ phone' = [phone EXCEPT ![t].fails = IF @ < FailureLimit THEN @ + 1 ELSE @]
             /\ Touch(t) /\ NoLonger({t})
             /\ IF phone'[t].fails >= FailureLimit THEN Go(p, "giveUp", call[p].saw, t) ELSE Rest(p, t)
  /\ UNCHANGED <<inbox, pushes, queued, muted, crowded>>

\* The provider cannot be reached: the batch is dropped.
DeliveryFails(p) == At(p, "deliver") /\ End(p) /\ UNCHANGED noticeVars

\* markTokenFailed's second statement.
markTokenFailed(p) ==
  LET t == call[p].who IN
  /\ At(p, "giveUp") /\ ~RowLocked(t)
  /\ phone' = [phone EXCEPT ![t].active = FALSE]
  /\ Touch(t) /\ NoLonger({t})
  /\ Rest(p, t)
  /\ UNCHANGED <<inbox, pushes, queued, muted, crowded>>

NoticeNext ==
  \/ \E k \in Notes : createForUser(k) \/ markRead(k)
  \/ \E u \in People : updatePreferences(u) \/ \E ts \in SUBSET Tokens : unregisterPushToken(u, ts)
  \/ \E p \in Calls :
       \/ \E k \in Notes : sendExpiryReminders(p, k) \/ send(p, k)
       \/ \E t \in Tokens, u \in People : BeginRegister(p, t, u)
       \/ createOnce(p) \/ pushOnce(p) \/ registerPushToken(p)
       \/ deliver(p) \/ DeliveryFails(p) \/ markTokenFailed(p)

NoticeSpec == HandlersInit /\ NoticeInit /\ [][NoticeNext]_<<call, noticeVars>>

-----------------------------------------------------------------------------
\* The phone a user registered last rings for that user: neither the cap, nor another user's
\* registration, nor the failures of other phones silence it, and no user has more active
\* phones than the cap (registerPushToken, markTokenFailed).  A reminder is pushed once, however
\* often the sweep that sends it runs (createOnce).  Two registrations of one user, or two
\* sweeps, that overlap are beyond both.
NewestPhoneRings ==
  ~crowded =>
    /\ \A u \in People :
         /\ newest[u] # NoToken => newest[u] \in ActiveTokens(u)
         /\ Cardinality(ActiveTokens(u)) <= TokenCap
    /\ \A k \in Notes : pushes[k] <= 1
=============================================================================
