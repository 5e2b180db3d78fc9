------------------------------ MODULE Sessions ------------------------------
(***************************************************************************)
(* Signing in, rotating refresh tokens, ending sessions, and the devices a *)
(* student account is bound to (src/modules/auth, sessions, devices).      *)
(*                                                                         *)
(* The module is about one student account: rows of different accounts     *)
(* never meet.  Sign-in, refresh and the review of a device change are     *)
(* several statements each, and call[c] keeps what a request has read.  So *)
(* are the transactions that end sessions by user or by device: they run   *)
(* at READ COMMITTED, where each statement sees what was committed before. *)
(***************************************************************************)
EXTENDS Naturals, FiniteSets

CONSTANTS
  SessionIds, TokenIds, ChangeIds,   \* row ids
  Devices,        \* device keys
  Calls,          \* requests in flight
  Null,           \* SQL NULL: no device, no session, no token, no request
  DeviceLimit,    \* student.deviceLimit
  AutoBindFirst,  \* DEVICE_AUTO_BIND_FIRST
  MaxPasswords,   \* bound on password changes
  MaxResets       \* bound on how often one device row is deleted

ASSUME SessionsAssumption ==
  /\ Null \notin SessionIds \cup TokenIds \cup ChangeIds \cup Devices
  /\ DeviceLimit \in Nat \ {0} /\ AutoBindFirst \in BOOLEAN
  /\ MaxPasswords \in Nat /\ MaxResets \in Nat

VARIABLES
  account,  \* the status of the user, and how often the password has changed
  session,  \* session[s]: sessions
  token,    \* token[t]: refresh_tokens
  device,   \* device[d]: the status of the devices row of key d
  resets,   \* resets[d]: how often the devices row of key d has been deleted: part of its id
  change,   \* change[i]: device_change_requests
  call      \* call[c]: what a request in flight has read

tables == <<account, session, token, device, resets, change>>
sessionsVars == <<tables, call>>

\* device: deviceId; signedInOn: the device the session was opened on; late (history): it
\* was opened while a transaction had ended the sessions and not revoked the tokens yet.
SessionRows ==
  [status : {"NONE", "ACTIVE", "REVOKED"},
   device : Devices \cup {Null}, signedInOn : Devices \cup {Null}, late : BOOLEAN]
NoSession == [status |-> "NONE", device |-> Null, signedInOn |-> Null, late |-> FALSE]

\* aged: usedAt lies beyond the grace window; parent: the token that names this
\* one in replacedById; password: which password it was issued under.
TokenRows ==
  [status : {"NONE", "UNUSED", "USED"}, aged : BOOLEAN, revoked : BOOLEAN,
   session : SessionIds \cup {Null}, parent : TokenIds \cup {Null},
   password : 0..MaxPasswords]
NoToken ==
  [status |-> "NONE", aged |-> FALSE, revoked |-> FALSE, session |-> Null,
   parent |-> Null, password |-> 0]

ChangeRows ==
  [status : {"NONE", "PENDING", "APPROVED", "REJECTED", "CANCELLED"},
   device : Devices \cup {Null}]

Idle == [at |-> "idle"]
\* A sign-in, or the device change request of a student (login = FALSE).
SignInRows ==
  [at : {"resolve", "bind", "ensure", "point", "open"}, login : BOOLEAN,
   key : Devices \cup {Null}, bind : BOOLEAN, resets : 0..MaxResets,
   found : ChangeIds \cup {Null}]
RefreshRows == [at : {"rotate", "retry", "reissue"}, token : TokenIds, again : BOOLEAN]
RevokeRows == [at : {"revoke"}, family : SessionIds, sessions : SUBSET SessionIds]
ReviewRows == [at : {"approve", "reject"}, change : ChangeIds, key : Devices \cup {Null}]
\* A transaction that has ended these sessions (and written these devices and requests), and
\* has neither revoked the tokens nor committed.
WithdrawRows ==
  [at : {"withdraw"}, by : {"logoutAll", "SUSPENDED", "DELETED", "device", "reset"},
   sessions : SUBSET SessionIds, devices : SUBSET Devices, changes : SUBSET ChangeIds]
CallRows ==
  {Idle} \cup SignInRows \cup RefreshRows \cup RevokeRows \cup ReviewRows \cup WithdrawRows
    \cup [at : {"token"}, session : SessionIds]
    \cup [at : {"family"}, session : SessionIds]

\* Every row and every request in flight is well formed.
SessionsTypeOK ==
  /\ account \in [status : {"ACTIVE", "SUSPENDED", "DELETED"}, password : 0..MaxPasswords]
  /\ session \in [SessionIds -> SessionRows]
  /\ token \in [TokenIds -> TokenRows]
  /\ device \in [Devices -> {"NONE", "ACTIVE", "PENDING_APPROVAL", "REVOKED"}]
  /\ resets \in [Devices -> 0..MaxResets]
  /\ change \in [ChangeIds -> ChangeRows]
  /\ call \in [Calls -> CallRows]

SessionsInit ==
  /\ account = [status |-> "ACTIVE", password |-> 0]
  /\ session = [s \in SessionIds |-> NoSession]
  /\ token = [t \in TokenIds |-> NoToken]
  /\ device = [d \in Devices |-> "NONE"]
  /\ resets = [d \in Devices |-> 0]
  /\ change = [i \in ChangeIds |-> [status |-> "NONE", device |-> Null]]
  /\ call = [c \in Calls |-> Idle]

Goto(c, row) == call' = [call EXCEPT ![c] = row]
Live == {s \in SessionIds : session[s].status = "ACTIVE"}

\* refreshToken.create.
Issue(s, parent, base) ==
  \E t \in TokenIds :
    /\ token[t].status = "NONE"
    /\ token' = [base EXCEPT ![t] =
         [NoToken EXCEPT !.status = "UNUSED", !.session = s, !.parent = parent,
                         !.password = account.password]]

\* session.updateMany over S, of sessions that are ACTIVE.
EndSessions(S) ==
  session' = [s \in SessionIds |->
                IF s \in S \cap Live THEN [session[s] EXCEPT !.status = "REVOKED"]
                ELSE session[s]]

\* refreshToken.updateMany over the tokens of the sessions S.
RevokeTokens(S) ==
  token' = [t \in TokenIds |->
              IF token[t].session \in S THEN [token[t] EXCEPT !.revoked = TRUE]
              ELSE token[t]]

-----------------------------------------------------------------------------
\* Signing in.

\* Which row of key d it is: the row's id, so to speak.
Deletions(d) == IF d = Null THEN 0 ELSE resets[d]

SignIn(at, d) ==
  [at |-> at, login |-> TRUE, key |-> d, bind |-> FALSE,
   resets |-> Deletions(d), found |-> Null]

\* login: the credentials and the status of the account.
login(c, d) ==
  /\ call[c] = Idle /\ account.status = "ACTIVE"
  /\ Goto(c, SignIn(IF d = Null THEN "open" ELSE "resolve", d))
  /\ UNCHANGED tables

\* resolveOnLogin: a known device is only marked as seen.
handleKnownDevice(c) ==
  /\ call[c].at = "resolve" /\ device[call[c].key] # "NONE"
  /\ Goto(c, [call[c] EXCEPT !.at = "open", !.resets = Deletions(call[c].key)])
  /\ UNCHANGED tables

ActiveDevices == {d \in Devices : device[d] = "ACTIVE"}

\* handleUnknownDevice: an unknown device is bound if the count allows it.
CountDevices(c) ==
  /\ call[c].at = "resolve" /\ device[call[c].key] = "NONE"
  /\ Goto(c, [call[c] EXCEPT !.at = "bind",
                !.bind = /\ Cardinality(ActiveDevices) < DeviceLimit
                         /\ ActiveDevices = {} => AutoBindFirst])
  /\ UNCHANGED tables

\* handleUnknownDevice: the row, ACTIVE or parked for approval.
handleUnknownDevice(c) ==
  LET d == call[c].key
  IN  /\ call[c].at = "bind" /\ device[d] = "NONE"
      /\ device' = [device EXCEPT ![d] = IF call[c].bind THEN "ACTIVE" ELSE "PENDING_APPROVAL"]
      /\ Goto(c, [call[c] EXCEPT !.at = IF call[c].bind THEN "open" ELSE "ensure",
                                 !.resets = Deletions(d)])
      /\ UNCHANGED <<account, session, token, resets, change>>

\* The device row this request resolved has been deleted since.
DeviceGone(c) == call[c].resets # Deletions(call[c].key)

\* The transactions between their two statements.
Withdrawing == {c \in Calls : call[c].at = "withdraw"}

\* A row that a transaction in flight has deleted is locked against the insert of a reference.
DeviceLocked(d) == \E k \in Withdrawing : call[k].by = "reset" /\ d \in call[k].devices

\* establishSession: the session row.
OpenSession(c) ==
  \E s \in SessionIds :
    /\ call[c].at = "open" /\ ~DeviceGone(c) /\ ~DeviceLocked(call[c].key)
    /\ session[s].status = "NONE"
    /\ session' = [session EXCEPT ![s] =
         [status |-> "ACTIVE", device |-> call[c].key, signedInOn |-> call[c].key,
          late |-> Withdrawing # {}]]
    /\ Goto(c, [at |-> "token", session |-> s])
    /\ UNCHANGED <<account, token, device, resets, change>>

\* establishSession: the first refresh token.
establishSession(c) ==
  /\ call[c].at = "token"
  /\ Issue(call[c].session, Null, token)
  /\ Goto(c, Idle)
  /\ UNCHANGED <<account, session, device, resets, change>>

\* The insert breaks the unique key of a device or a foreign key to one.
SignInFails(c) ==
  /\ \/ call[c].at = "bind" /\ device[call[c].key] # "NONE"
     \/ call[c].at \in {"point", "open"} /\ DeviceGone(c)
  /\ Goto(c, Idle)
  /\ UNCHANGED tables

-----------------------------------------------------------------------------
\* Refreshing.

\* A used token is presented again after the grace window.
Reused(t) == [at |-> "family", session |-> token[t].session]

\* What rotateRefresh makes of the stored token it has read.
Answer(t, again) ==
  LET k == token[t]
      sound == /\ session[k.session].status = "ACTIVE"
               /\ account.status = "ACTIVE"
               /\ k.password = account.password
  IN  IF k.revoked THEN Idle
      ELSE IF k.status = "USED" /\ k.aged THEN Reused(t)
      ELSE IF ~sound THEN Idle
      ELSE [at |-> IF k.status = "USED" THEN "reissue" ELSE "rotate",
            token |-> t, again |-> again]

\* refresh: the stored token, its session and its user.
refresh(c, t) ==
  /\ call[c] = Idle /\ token[t].status # "NONE"
  /\ Goto(c, Answer(t, FALSE))
  /\ UNCHANGED tables

\* Mutant: the compare-and-set forgets usedAt.
Claimable_Used(t) == ~token[t].revoked

\* The claim matches: the token is still unused and not revoked.
Claimable(t) == token[t].status = "UNUSED" /\ ~token[t].revoked

\* The session's expiry slides; nothing else of it changes.
TouchSession(s) == session' = [session EXCEPT ![s] = @]

\* rotateRefresh: the claim, the successor and the sliding session.
rotateRefresh(c) ==
  LET t == call[c].token
  IN  /\ call[c].at = "rotate" /\ Claimable(t)
      /\ Issue(token[t].session, t, [token EXCEPT ![t].status = "USED"])
      /\ TouchSession(token[t].session)
      /\ Goto(c, Idle)
      /\ UNCHANGED <<account, device, resets, change>>

\* The claim is lost: one retry, and then no more.
RotationLost(c) ==
  /\ call[c].at = "rotate" /\ ~Claimable(call[c].token)
  /\ Goto(c, IF call[c].again THEN Idle ELSE [call[c] EXCEPT !.at = "retry"])
  /\ UNCHANGED tables

RetryReads(c) ==
  /\ call[c].at = "retry"
  /\ Goto(c, Answer(call[c].token, TRUE))
  /\ UNCHANGED tables

\* reissueFromSuccessor: another token of the family, on what was read before.
reissueFromSuccessor(c) ==
  LET s == token[call[c].token].session
  IN  /\ call[c].at = "reissue"
      /\ Issue(s, Null, token)
      /\ TouchSession(s)
      /\ Goto(c, Idle)
      /\ UNCHANGED <<account, device, resets, change>>

\* The grace window of a used token closes; it outlasts every transaction.
GraceEnds(t) ==
  /\ token[t].status = "USED" /\ ~token[t].aged /\ Withdrawing = {}
  /\ token' = [token EXCEPT ![t].aged = TRUE]
  /\ UNCHANGED <<account, session, device, resets, change, call>>

\* Mutant: the sessions are looked up after the tokens were revoked.
FamilySessions_AfterRevoking(s) == {}

\* revokeFamily: the sessions of the family's tokens that are not revoked.
FamilySessions(s) ==
  {token[t].session : t \in {k \in TokenIds : token[k].session = s /\ ~token[k].revoked}}

FamilyReads(c) ==
  /\ call[c].at = "family"
  /\ Goto(c, [at |-> "revoke", family |-> call[c].session,
              sessions |-> FamilySessions(call[c].session)])
  /\ UNCHANGED tables

\* revokeFamily: tokens and sessions.  A family is the tokens of one sign-in.
revokeFamily(c) ==
  /\ call[c].at = "revoke"
  /\ RevokeTokens({call[c].family})
  /\ EndSessions(call[c].sessions)
  /\ Goto(c, Idle)
  /\ UNCHANGED <<account, device, resets, change>>

-----------------------------------------------------------------------------
\* Ending sessions.

\* logout: one session and its tokens, also when the session has ended since the request
\* was admitted.
logout(s) ==
  /\ session[s].status # "NONE"
  /\ EndSessions({s}) /\ RevokeTokens({s})
  /\ UNCHANGED <<account, device, resets, change, call>>

\* SessionsService.revoke: the session was ACTIVE when it was read; the write does not ask.
revoke(s) ==
  /\ session[s].status # "NONE"
  /\ EndSessions({s}) /\ RevokeTokens({s})
  /\ UNCHANGED <<account, device, resets, change, call>>

\* The statement of a transaction that ends the sessions S; the tokens come in another one.
Withdraw(c, by, S, D, I) ==
  /\ call[c] = Idle
  /\ Goto(c, [at |-> "withdraw", by |-> by, sessions |-> S, devices |-> D, changes |-> I])
  /\ UNCHANGED tables

\* logoutAll, and the emergency stop of the master console.
logoutAll(c) == Withdraw(c, "logoutAll", Live, {}, {})

\* revokeAllForUser: the sessions found ACTIVE, and their tokens only.
revokeAllForUser ==
  /\ Live # {}
  /\ EndSessions(Live) /\ RevokeTokens(Live)
  /\ UNCHANGED <<account, device, resets, change, call>>

\* resetPasswordByAdmin, tokens before sessions; students cannot change theirs.
resetPassword ==
  /\ account.status # "DELETED" /\ account.password < MaxPasswords
  /\ account' = [account EXCEPT !.password = @ + 1]
  /\ EndSessions(SessionIds) /\ RevokeTokens(SessionIds)
  /\ UNCHANGED <<device, resets, change, call>>

\* updateByAdmin: a suspension ends everything.
suspend(c) == account.status # "DELETED" /\ Withdraw(c, "SUSPENDED", Live, {}, {})

\* updateByAdmin: its end restores nothing.
setActive ==
  /\ account.status # "DELETED"
  /\ account' = [account EXCEPT !.status = "ACTIVE"]
  /\ UNCHANGED <<session, token, device, resets, change, call>>

\* softDelete.
softDelete(c) == account.status # "DELETED" /\ Withdraw(c, "DELETED", Live, {}, {})

\* The tokens of the account, and the commit; a deleted account stays so.
WithdrawUser(c) ==
  /\ call[c].at = "withdraw" /\ call[c].by \in {"logoutAll", "SUSPENDED", "DELETED"}
  /\ account' = IF call[c].by = "logoutAll" \/ account.status = "DELETED" THEN account
                ELSE [account EXCEPT !.status = call[c].by]
  /\ EndSessions(call[c].sessions) /\ RevokeTokens(SessionIds)
  /\ Goto(c, Idle)
  /\ UNCHANGED <<device, resets, change>>

-----------------------------------------------------------------------------
\* Devices.

\* requestChange, from a signed-in student: the device row.
requestChange(c, d) ==
  /\ call[c] = Idle /\ Live # {} /\ account.status = "ACTIVE"
  /\ device' = [device EXCEPT ![d] = IF @ = "NONE" THEN "PENDING_APPROVAL" ELSE @]
  /\ Goto(c, [SignIn("ensure", d) EXCEPT !.login = FALSE])
  /\ UNCHANGED <<account, session, token, resets, change>>

\* ensureChangeRequest: is a request pending?
EnsureReads(c) ==
  /\ call[c].at = "ensure"
  /\ LET pending == {i \in ChangeIds : change[i].status = "PENDING"}
     IN  \E i \in IF pending = {} THEN {Null} ELSE pending :
           Goto(c, [call[c] EXCEPT !.at = "point", !.found = i])
  /\ UNCHANGED tables

\* ensureChangeRequest: the request found is pointed at this device, whatever has
\* become of it; otherwise there is a new one.
ensureChangeRequest(c) ==
  /\ call[c].at = "point" /\ ~DeviceGone(c) /\ ~DeviceLocked(call[c].key)
  /\ IF call[c].found # Null
     THEN change' = [change EXCEPT ![call[c].found].device = call[c].key]
     ELSE \E i \in ChangeIds :
            /\ change[i].status = "NONE"
            /\ change' = [change EXCEPT ![i] =
                 [status |-> "PENDING", device |-> call[c].key]]
  /\ Goto(c, IF call[c].login THEN [call[c] EXCEPT !.at = "open", !.found = Null] ELSE Idle)
  /\ UNCHANGED <<account, session, token, device, resets>>

\* approveChange / rejectChange: the request must be PENDING when it is read.
ReviewReads(c, i, verdict) ==
  /\ call[c] = Idle /\ change[i].status = "PENDING"
  /\ Goto(c, [at |-> verdict, change |-> i, key |-> change[i].device])
  /\ UNCHANGED tables

\* approveChange: a swap of devices.  Sessions whose deviceId is NULL do not match
\* the condition "deviceId is another one", and no refresh token is touched.
approveChange(c) ==
  LET d == call[c].key
  IN  /\ call[c].at = "approve"
      /\ device' = [x \in Devices |-> CASE x = d -> "ACTIVE"
                                        [] x # d /\ device[x] = "ACTIVE" -> "REVOKED"
                                        [] OTHER -> device[x]]
      /\ change' = [change EXCEPT ![call[c].change].status = "APPROVED"]
      /\ EndSessions({s \in SessionIds : session[s].device \notin {d, Null}})
      /\ Goto(c, Idle)
      /\ UNCHANGED <<account, token, resets>>

\* rejectChange.
rejectChange(c) ==
  /\ call[c].at = "reject"
  /\ change' = [change EXCEPT ![call[c].change].status = "REJECTED"]
  /\ Goto(c, Idle)
  /\ UNCHANGED <<account, session, token, device, resets>>

\* Device rows that no other transaction in flight has written.
Unlocked(D) == \A k \in Withdrawing : call[k].devices \cap D = {}

\* revokeDevice: the device and its sessions.
revokeDevice(c, d) ==
  /\ device[d] # "NONE" /\ Unlocked({d})
  /\ Withdraw(c, "device", {s \in Live : session[s].device = d}, {d}, {})

\* revokeDevice: the tokens of the sessions the device has by now, and the commit.
WithdrawDevice(c) ==
  LET D == call[c].devices
  IN  /\ call[c].at = "withdraw" /\ call[c].by = "device"
      /\ device' = [d \in Devices |-> IF d \in D THEN "REVOKED" ELSE device[d]]
      /\ EndSessions(call[c].sessions)
      /\ RevokeTokens({s \in SessionIds : session[s].device \in D})
      /\ Goto(c, Idle)
      /\ UNCHANGED <<account, resets, change>>

\* resetBinding: the device rows, the pending requests and the sessions.
resetBinding(c) ==
  LET D == {d \in Devices : device[d] # "NONE"}
  IN  /\ Unlocked(D) /\ \A d \in D : resets[d] < MaxResets
      /\ Withdraw(c, "reset", Live, D, {i \in ChangeIds : change[i].status = "PENDING"})

\* Deleting device rows sets deviceId to NULL wherever it pointed at one.
WithoutDevice(s, D) ==
  IF session[s].device \in D THEN [session[s] EXCEPT !.device = Null] ELSE session[s]

\* Mutant: only sessions that still name a device are ended.
ResetSession_Bound(c, s) ==
  LET row == WithoutDevice(s, call[c].devices)
  IN  IF s \in call[c].sessions /\ session[s].status = "ACTIVE" /\ row.device # Null
      THEN [row EXCEPT !.status = "REVOKED"] ELSE row

\* What resetBinding does to a session.
ResetSession(c, s) ==
  LET row == WithoutDevice(s, call[c].devices)
  IN  IF s \in call[c].sessions /\ session[s].status = "ACTIVE"
      THEN [row EXCEPT !.status = "REVOKED"] ELSE row

\* resetBinding: the tokens of the account, and the commit.
WithdrawBinding(c) ==
  LET D == call[c].devices
  IN  /\ call[c].at = "withdraw" /\ call[c].by = "reset" /\ \A d \in D : resets[d] < MaxResets
      /\ resets' = [d \in Devices |-> IF d \in D THEN resets[d] + 1 ELSE resets[d]]
      /\ device' = [d \in Devices |-> IF d \in D THEN "NONE" ELSE device[d]]
      /\ change' = [i \in ChangeIds |->
           IF i \in call[c].changes /\ change[i].status = "PENDING"
           THEN [change[i] EXCEPT !.status = "CANCELLED"] ELSE change[i]]
      /\ session' = [s \in SessionIds |-> ResetSession(c, s)]
      /\ RevokeTokens(SessionIds)
      /\ Goto(c, Idle)
      /\ UNCHANGED account

-----------------------------------------------------------------------------
SignInStep ==
  \E c \in Calls :
    \/ \E d \in Devices \cup {Null} : login(c, d)
    \/ handleKnownDevice(c) \/ CountDevices(c) \/ handleUnknownDevice(c)
    \/ OpenSession(c) \/ establishSession(c) \/ SignInFails(c)

RefreshStep ==
  \/ \E c \in Calls :
       \/ \E t \in TokenIds : refresh(c, t)
       \/ rotateRefresh(c) \/ RotationLost(c) \/ RetryReads(c)
       \/ reissueFromSuccessor(c) \/ FamilyReads(c) \/ revokeFamily(c)
  \/ \E t \in TokenIds : GraceEnds(t)

EndStep ==
  \/ \E s \in SessionIds : logout(s) \/ revoke(s)
  \/ \E c \in Calls : logoutAll(c) \/ suspend(c) \/ softDelete(c) \/ WithdrawUser(c)
  \/ revokeAllForUser \/ resetPassword \/ setActive

DeviceStep ==
  \/ \E c \in Calls :
       \/ \E d \in Devices : requestChange(c, d)
       \/ EnsureReads(c) \/ ensureChangeRequest(c)
       \/ \E i \in ChangeIds, verdict \in {"approve", "reject"} : ReviewReads(c, i, verdict)
       \/ approveChange(c) \/ rejectChange(c)
       \/ \E d \in Devices : revokeDevice(c, d)
       \/ resetBinding(c) \/ WithdrawDevice(c) \/ WithdrawBinding(c)

SessionsNext == SignInStep \/ RefreshStep \/ EndStep \/ DeviceStep

SessionsSpec == SessionsInit /\ [][SessionsNext]_sessionsVars

-----------------------------------------------------------------------------
\* rotateRefresh, compare-and-set: of two refreshes that present one token at the
\* same instant "exactly one of them" is the rotation; a token never has two
\* successors.
RotatedOnce ==
  \A t, k \in TokenIds : (token[t].parent # Null /\ token[t].parent = token[k].parent) => t = k

\* A revoked refresh token belongs to a session that has ended: no operation, and no refresh
\* in flight, leaves a session open whose tokens were withdrawn.  The exception is a session
\* opened after the sessions of its account or device were ended and before their tokens were
\* revoked ("Anything less leaves a reset that looks complete on screen and is not"): it stays
\* open without a token until its access token expires.
RevokedTokenIsOfEndedSession ==
  \A t \in TokenIds : token[t].revoked =>
    LET s == token[t].session IN session[s].status = "REVOKED" \/ session[s].late

\* "It never resurrects a revoked session": whatever was in flight when a session
\* ended, it stays ended.
EndedSessionStaysEnded ==
  [][\A s \in SessionIds :
       session[s].status = "REVOKED" => session'[s].status = "REVOKED"]_sessionsVars

\* Reuse of a rotated token beyond the grace window ends the whole family, also
\* when the family is growing meanwhile.
ReuseEndsFamily ==
  [][\A c \in Calls :
       (call[c].at = "revoke" /\ call'[c].at # "revoke") =>
         session'[call[c].family].status = "REVOKED"]_sessionsVars

\* "A session that was bound to a device at sign-in may only ever act as that
\* device": as long as it is open it keeps its device, even though deleting the
\* device row would turn it into one without.
OpenSessionKeepsDevice ==
  \A s \in Live : session[s].device = session[s].signedInOn
=============================================================================
