--------------------------- MODULE SessionsProofs ---------------------------
(***************************************************************************)
(* Proofs about Sessions, for any number of sessions, tokens, devices and  *)
(* requests in flight.                                                     *)
(***************************************************************************)
EXTENDS Sessions, TLAPS

\* A row that was never written is empty; every token belongs to a session.
TokensSound ==
  \A t \in TokenIds :
    /\ token[t].status = "NONE" =>
         /\ token[t].session = Null /\ token[t].parent = Null
         /\ ~token[t].revoked /\ ~token[t].aged
    /\ token[t].status # "NONE" =>
         /\ token[t].session \in SessionIds
         /\ session[token[t].session].status # "NONE"

\* A token that has a successor is used: this is what the claim relies on.
ParentIsUsed ==
  \A t \in TokenIds :
    token[t].parent # Null => token[token[t].parent].status = "USED"

\* A token of the session has left its grace window.
Old(s) == \E t \in TokenIds : token[t].session = s /\ token[t].aged

\* The commit of c will revoke the tokens of s.
Reaches(c, s) == call[c].by # "device" \/ session[s].device \in call[c].devices

\* The sessions that c has seen are all those whose tokens it will revoke, but for the ones
\* opened since; and nobody opens one on a device row that c has deleted.
WithdrawSound(c) ==
  \A s \in SessionIds : session[s].status = "ACTIVE" =>
    /\ Reaches(c, s) => s \in call[c].sessions \/ (session[s].late /\ ~Old(s))
    /\ call[c].by = "reset" /\ session[s].device \in call[c].devices => s \in call[c].sessions

\* What a request in flight has read still means something: the rows exist, and a
\* family about to be revoked has its session among those to end, or it is over.
CallSound(c) ==
  /\ call[c].at = "token" => session[call[c].session].status # "NONE"
  /\ call[c].at \in {"rotate", "retry", "reissue"} => token[call[c].token].status # "NONE"
  /\ call[c].at = "family" =>
       \/ session[call[c].session].status = "REVOKED"
       \/ \E t \in TokenIds : /\ token[t].session = call[c].session
                               /\ token[t].aged /\ ~token[t].revoked
  /\ call[c].at = "revoke" =>
       /\ session[call[c].family].status # "NONE"
       /\ \/ call[c].family \in call[c].sessions
          \/ session[call[c].family].status = "REVOKED"
  /\ call[c].at = "withdraw" => WithdrawSound(c)

\* The part of the invariant that speaks of sessions and tokens only.
TablesInv ==
  /\ TokensSound /\ ParentIsUsed
  /\ RotatedOnce /\ RevokedTokenIsOfEndedSession /\ OpenSessionKeepsDevice

\* The inductive invariant.
SessionsIInv == SessionsTypeOK /\ TablesInv /\ \A c \in Calls : CallSound(c)

\* A session that is new: late if it was opened during a withdrawal.
Opened(s) ==
  /\ session[s].status = "NONE"
  /\ Withdrawing # {} => session'[s].late
  /\ ~DeviceLocked(session'[s].device)

\* What every step does to sessions: rows do not vanish, what has ended stays so, and what is
\* open was so before or is new.
SessionsGrow ==
  \A s \in SessionIds :
    /\ session[s].status # "NONE" => session'[s].status # "NONE"
    /\ session[s].status = "REVOKED" => session'[s].status = "REVOKED"
    /\ session'[s].status = "ACTIVE" => session'[s] = session[s] \/ Opened(s)

\* And to tokens: one keeps its session; none leaves its grace window during a withdrawal, and
\* one that has left it is revoked together with its session.
TokensGrow ==
  \A t \in TokenIds :
    /\ token[t].status # "NONE" =>
         token'[t].status # "NONE" /\ token'[t].session = token[t].session
    /\ token[t].aged => token'[t].aged
    /\ token'[t].aged => token[t].aged \/ Withdrawing = {}
    /\ token[t].aged /\ ~token[t].revoked /\ token'[t].revoked =>
         session'[token[t].session].status = "REVOKED"

Grows == SessionsGrow /\ TokensGrow

\* The shape of a call is known from where it is.
LEMMA CallShape ==
  ASSUME SessionsTypeOK, NEW c \in Calls
  PROVE  /\ call[c].at = "idle" => call[c] = Idle
         /\ call[c].at \in {"resolve", "bind", "ensure", "point", "open"} =>
              call[c] \in SignInRows
         /\ call[c].at = "token" => call[c] \in [at : {"token"}, session : SessionIds]
         /\ call[c].at \in {"rotate", "retry", "reissue"} => call[c] \in RefreshRows
         /\ call[c].at = "family" => call[c] \in [at : {"family"}, session : SessionIds]
         /\ call[c].at = "revoke" => call[c] \in RevokeRows
         /\ call[c].at \in {"approve", "reject"} => call[c] \in ReviewRows
         /\ call[c].at = "withdraw" => call[c] \in WithdrawRows
  BY DEF SessionsTypeOK, CallRows, Idle, SignInRows, RefreshRows, RevokeRows, ReviewRows,
         WithdrawRows

\* A session that was open, or is new, has no older token than before.
LEMMA OldStays ==
  ASSUME SessionsIInv, TokensGrow, Withdrawing # {}, NEW s \in SessionIds, Old(s)'
  PROVE  Old(s) /\ session[s].status # "NONE"
  <1>1. PICK t \in TokenIds : token'[t].session = s /\ token'[t].aged
    BY DEF Old
  <1>2. token[t].aged
    BY <1>1 DEF TokensGrow
  <1>3. token[t].status # "NONE"
    BY <1>2 DEF SessionsIInv, TablesInv, TokensSound
  <1>4. token[t].session = s
    BY <1>1, <1>3 DEF TokensGrow
  <1> QED
    BY <1>2, <1>3, <1>4 DEF Old, SessionsIInv, TablesInv, TokensSound

\* A withdrawal that does not move stays sound.
LEMMA WithdrawFrame ==
  ASSUME SessionsIInv, Grows, NEW c \in Calls, call'[c] = call[c], call[c].at = "withdraw"
  PROVE  WithdrawSound(c)'
  <1>1. WithdrawSound(c) /\ c \in Withdrawing
    BY DEF SessionsIInv, CallSound, Withdrawing
  <1>2. SUFFICES ASSUME NEW s \in SessionIds, session'[s].status = "ACTIVE"
                 PROVE  /\ Reaches(c, s)' =>
                             s \in call[c].sessions \/ (session'[s].late /\ ~Old(s)')
                        /\ call[c].by = "reset" /\ session'[s].device \in call[c].devices =>
                             s \in call[c].sessions
    BY DEF WithdrawSound
  <1>3. Old(s)' => Old(s) /\ session[s].status # "NONE"
    BY <1>1, OldStays DEF Grows
  <1>4. CASE session'[s] = session[s]
    <2>1. Reaches(c, s)' => Reaches(c, s)
      BY <1>4 DEF Reaches
    <2> QED
      BY <1>1, <1>2, <1>3, <1>4, <2>1 DEF WithdrawSound
  <1>5. CASE Opened(s)
    <2>1. session'[s].late /\ ~Old(s)'
      BY <1>1, <1>3, <1>5 DEF Opened
    <2>2. ~(call[c].by = "reset" /\ session'[s].device \in call[c].devices)
      BY <1>1, <1>5 DEF Opened, DeviceLocked
    <2> QED
      BY <2>1, <2>2
  <1> QED
    BY <1>2, <1>4, <1>5 DEF Grows, SessionsGrow

\* A request that does not move stays sound while the tables grow.
LEMMA CallFrame ==
  ASSUME SessionsIInv, Grows, NEW c \in Calls, call'[c] = call[c]
  PROVE  CallSound(c)'
  <1>0. SessionsGrow /\ TokensGrow /\ CallSound(c)
    BY DEF Grows, SessionsIInv
  <1>1. call[c].at = "token" => session'[call[c].session].status # "NONE"
    BY <1>0, CallShape DEF SessionsIInv, SessionsGrow, CallSound
  <1>2. call[c].at \in {"rotate", "retry", "reissue"} => token'[call[c].token].status # "NONE"
    BY <1>0, CallShape DEF SessionsIInv, TokensGrow, CallSound, RefreshRows
  <1>3. ASSUME call[c].at = "family"
        PROVE  \/ session'[call[c].session].status = "REVOKED"
               \/ \E t \in TokenIds : /\ token'[t].session = call[c].session
                                       /\ token'[t].aged /\ ~token'[t].revoked
    <2>1. call[c].session \in SessionIds
      BY <1>3, CallShape DEF SessionsIInv
    <2>2. CASE session[call[c].session].status = "REVOKED"
      BY <1>0, <2>1, <2>2 DEF SessionsGrow
    <2>3. ASSUME NEW t \in TokenIds, token[t].session = call[c].session,
                 token[t].aged, ~token[t].revoked
          PROVE  \/ session'[call[c].session].status = "REVOKED"
                 \/ \E k \in TokenIds : /\ token'[k].session = call[c].session
                                         /\ token'[k].aged /\ ~token'[k].revoked
      <3>1. token[t].status # "NONE"
        BY <2>3 DEF SessionsIInv, TablesInv, TokensSound
      <3> QED
        BY <1>0, <2>3, <3>1 DEF TokensGrow
    <2> QED
      BY <1>0, <1>3, <2>2, <2>3 DEF CallSound
  <1>4. call[c].at = "revoke" =>
          /\ session'[call[c].family].status # "NONE"
          /\ \/ call[c].family \in call[c].sessions
             \/ session'[call[c].family].status = "REVOKED"
    BY <1>0, CallShape DEF SessionsIInv, SessionsGrow, CallSound, RevokeRows
  <1>5. call[c].at = "withdraw" => WithdrawSound(c)'
    BY WithdrawFrame
  <1> QED
    BY <1>1, <1>2, <1>3, <1>4, <1>5 DEF CallSound

\* The updates of a token row keep it a row.
LEMMA TokenUpdates ==
  ASSUME NEW k \in TokenRows
  PROVE  /\ [k EXCEPT !.revoked = TRUE] \in TokenRows
         /\ [k EXCEPT !.aged = TRUE] \in TokenRows
         /\ [k EXCEPT !.status = "USED"] \in TokenRows
  <1>1. [k EXCEPT !.revoked = TRUE] \in TokenRows
    BY DEF TokenRows
  <1>2. [k EXCEPT !.aged = TRUE] \in TokenRows
    BY DEF TokenRows
  <1>3. [k EXCEPT !.status = "USED"] \in TokenRows
    BY DEF TokenRows
  <1> QED
    BY <1>1, <1>2, <1>3

\* Steps that leave sessions and tokens alone.
LEMMA SameTables ==
  ASSUME SessionsIInv, UNCHANGED <<session, token>>
  PROVE  TablesInv' /\ Grows
  BY DEF SessionsIInv, TablesInv, TokensSound, ParentIsUsed, RotatedOnce,
         RevokedTokenIsOfEndedSession, OpenSessionKeepsDevice, Live, Grows, SessionsGrow,
         TokensGrow

\* Ending the sessions S and revoking the tokens of R, when R is in S, has ended already or
\* was opened late.
LEMMA EndingKeeps ==
  ASSUME SessionsIInv, NEW S \in SUBSET SessionIds, NEW R \in SUBSET SessionIds,
         EndSessions(S), RevokeTokens(R),
         \A s \in R : \/ s \in S
                      \/ session[s].status # "ACTIVE"
                      \/ session[s].late /\ ~Old(s)
  PROVE  /\ TablesInv' /\ Grows
         /\ session' \in [SessionIds -> SessionRows]
         /\ token' \in [TokenIds -> TokenRows]
  <1> USE SessionsAssumption DEF SessionsIInv, SessionsAssumption
  <1>1. session \in [SessionIds -> SessionRows] /\ token \in [TokenIds -> TokenRows]
    BY DEF SessionsTypeOK
  <1>2. session' \in [SessionIds -> SessionRows]
    BY <1>1 DEF EndSessions, SessionRows, Live
  <1>3. token' \in [TokenIds -> TokenRows]
    BY <1>1, TokenUpdates DEF RevokeTokens
  <1>4. \A t \in TokenIds :
          /\ token'[t].status = token[t].status /\ token'[t].session = token[t].session
          /\ token'[t].parent = token[t].parent /\ token'[t].aged = token[t].aged
          /\ token'[t].revoked => token[t].revoked \/ token[t].session \in R
    BY <1>1 DEF RevokeTokens, TokenRows
  <1>5. \A s \in SessionIds :
          /\ session'[s].status = IF s \in S /\ session[s].status = "ACTIVE"
                                  THEN "REVOKED" ELSE session[s].status
          /\ session'[s].device = session[s].device
          /\ session'[s].signedInOn = session[s].signedInOn
          /\ session'[s].late = session[s].late
          /\ session'[s].status = "ACTIVE" => session'[s] = session[s]
    BY <1>1 DEF EndSessions, SessionRows, Live
  <1>6. Grows
    <2>1. SessionsGrow
      BY <1>1, <1>5 DEF SessionsGrow, SessionRows
    <2>2. ASSUME NEW t \in TokenIds, token[t].aged, ~token[t].revoked, token'[t].revoked
          PROVE  session'[token[t].session].status = "REVOKED"
      <3>1. token[t].session \in R /\ token[t].status # "NONE"
        BY <1>4, <2>2 DEF TablesInv, TokensSound
      <3>2. Old(token[t].session)
        BY <2>2 DEF Old
      <3>3. session[token[t].session].status \in {"ACTIVE", "REVOKED"}
        BY <1>1, <3>1 DEF TablesInv, TokensSound, SessionRows
      <3> QED
        BY <1>5, <3>1, <3>2, <3>3
    <2>3. TokensGrow
      BY <1>4, <2>2 DEF TokensGrow
    <2> QED
      BY <2>1, <2>3 DEF Grows
  <1>7. TokensSound'
    <2> SUFFICES ASSUME NEW t \in TokenIds
                 PROVE  /\ token'[t].status = "NONE" =>
                             token'[t].session = Null /\ token'[t].parent = Null
                               /\ ~token'[t].revoked /\ ~token'[t].aged
                        /\ token'[t].status # "NONE" =>
                             /\ token'[t].session \in SessionIds
                             /\ session'[token'[t].session].status # "NONE"
      BY DEF TokensSound
    <2>1. CASE token[t].status = "NONE"
      BY <2>1, <1>4 DEF TablesInv, TokensSound
    <2>2. CASE token[t].status # "NONE"
      BY <2>2, <1>4, <1>5 DEF TablesInv, TokensSound
    <2> QED
      BY <2>1, <2>2
  <1>8. ParentIsUsed' /\ RotatedOnce'
    BY <1>1, <1>4 DEF TablesInv, ParentIsUsed, RotatedOnce, TokenRows
  <1>9. RevokedTokenIsOfEndedSession'
    <2> SUFFICES ASSUME NEW t \in TokenIds, token'[t].revoked
                 PROVE  \/ session'[token'[t].session].status = "REVOKED"
                        \/ session'[token'[t].session].late
      BY DEF RevokedTokenIsOfEndedSession
    <2>1. CASE token[t].revoked
      <3>1. token[t].session \in SessionIds
        BY <2>1, <1>1 DEF TablesInv, TokensSound, TokenRows
      <3>2. session[token[t].session].status = "REVOKED" \/ session[token[t].session].late
        BY <2>1 DEF TablesInv, RevokedTokenIsOfEndedSession
      <3> QED
        BY <3>1, <3>2, <1>4, <1>5
    <2>2. CASE token[t].session \in R
      <3>1. session[token[t].session].status \in {"ACTIVE", "REVOKED"}
        <4>1. token[t].status # "NONE"
          BY <2>2 DEF TablesInv, TokensSound
        <4> QED
          BY <4>1, <2>2, <1>1 DEF TablesInv, TokensSound, SessionRows
      <3> QED
        BY <3>1, <2>2, <1>4, <1>5
    <2> QED
      BY <2>1, <2>2, <1>4
  <1>10. OpenSessionKeepsDevice'
    BY <1>1, <1>5 DEF TablesInv, OpenSessionKeepsDevice, Live, SessionRows
  <1> QED
    BY <1>2, <1>3, <1>6, <1>7, <1>8, <1>9, <1>10 DEF TablesInv

\* A new token of an existing session, and perhaps the claim on its parent.
LEMMA IssueKeeps ==
  ASSUME SessionsIInv, NEW s \in SessionIds, session[s].status # "NONE",
         NEW p \in TokenIds \cup {Null}, NEW base,
         \/ p = Null /\ base = token
         \/ /\ p # Null /\ token[p].status = "UNUSED"
            /\ base = [token EXCEPT ![p].status = "USED"],
         Issue(s, p, base), session' = session
  PROVE  /\ TablesInv' /\ Grows
         /\ token' \in [TokenIds -> TokenRows]
  <1> USE SessionsAssumption DEF SessionsIInv, SessionsAssumption
  <1>1. session \in [SessionIds -> SessionRows] /\ token \in [TokenIds -> TokenRows]
          /\ account.password \in 0..MaxPasswords
    BY DEF SessionsTypeOK
  <1>2. PICK n \in TokenIds :
          /\ token[n].status = "NONE"
          /\ token' = [base EXCEPT ![n] =
               [NoToken EXCEPT !.status = "UNUSED", !.session = s, !.parent = p,
                               !.password = account.password]]
    BY DEF Issue
  <1>3. base \in [TokenIds -> TokenRows]
    <2>1. CASE p = Null
      BY <2>1, <1>1
    <2>2. CASE p # Null
      <3>1. p \in TokenIds /\ [token[p] EXCEPT !.status = "USED"] \in TokenRows
        BY <2>2, <1>1, TokenUpdates
      <3>2. base = [token EXCEPT ![p] = [token[p] EXCEPT !.status = "USED"]]
        BY <2>2, <1>1
      <3> QED
        BY <3>1, <3>2, <1>1
    <2> QED
      BY <2>1, <2>2
  <1>4. n # p
    BY <1>2
  <1>5. /\ token'[n].status = "UNUSED" /\ token'[n].session = s /\ token'[n].parent = p
        /\ token'[n].revoked = FALSE /\ token'[n].aged = FALSE /\ token'[n] \in TokenRows
    BY <1>1, <1>2, <1>3 DEF NoToken, TokenRows
  <1>6. \A t \in TokenIds \ {n} :
          /\ token'[t].session = token[t].session /\ token'[t].parent = token[t].parent
          /\ token'[t].revoked = token[t].revoked /\ token'[t].aged = token[t].aged
          /\ token'[t].status = IF t = p THEN "USED" ELSE token[t].status
    BY <1>1, <1>2, <1>3, <1>4 DEF TokenRows
  <1>7. token' \in [TokenIds -> TokenRows]
    BY <1>2, <1>3, <1>5
  <1>8. Grows
    <2>1. ~token[n].aged
      BY <1>2 DEF TablesInv, TokensSound
    <2>2. TokensGrow
      BY <1>2, <1>5, <1>6, <2>1 DEF TokensGrow
    <2>3. SessionsGrow
      BY DEF SessionsGrow
    <2> QED
      BY <2>2, <2>3 DEF Grows
  <1>9. TokensSound'
    BY <1>2, <1>5, <1>6 DEF TablesInv, TokensSound
  <1>10. \A t \in TokenIds : token[t].parent \notin {p, n} \/ token[t].parent = Null
    BY <1>2 DEF TablesInv, ParentIsUsed
  <1>11. ParentIsUsed'
    BY <1>1, <1>4, <1>5, <1>6, <1>10 DEF TablesInv, ParentIsUsed, TokenRows
  <1>12. RotatedOnce'
    BY <1>5, <1>6, <1>10 DEF TablesInv, RotatedOnce
  <1>13. RevokedTokenIsOfEndedSession'
    BY <1>5, <1>6 DEF TablesInv, RevokedTokenIsOfEndedSession
  <1>14. OpenSessionKeepsDevice'
    BY DEF TablesInv, OpenSessionKeepsDevice, Live
  <1> QED
    BY <1>7, <1>8, <1>9, <1>11, <1>12, <1>13, <1>14 DEF TablesInv

\* The initial state.
LEMMA InitSound == SessionsInit => SessionsIInv
  BY SessionsAssumption
  DEF SessionsInit, SessionsIInv, SessionsTypeOK, TablesInv, TokensSound, ParentIsUsed,
      RotatedOnce, RevokedTokenIsOfEndedSession, OpenSessionKeepsDevice, Live, CallSound,
      NoSession, NoToken, SessionRows, TokenRows, ChangeRows, CallRows, Idle,
      SessionsAssumption

\* A step that only moves one request keeps the invariant if the request is sound
\* where it arrives.
LEMMA CallMoves ==
  ASSUME SessionsIInv, UNCHANGED tables, NEW c \in Calls, NEW row \in CallRows,
         Goto(c, row), CallSound(c)'
  PROVE  SessionsIInv' /\ Grows
  <1>1. TablesInv' /\ Grows
    BY SameTables DEF tables
  <1>2. SessionsTypeOK'
    BY DEF SessionsIInv, SessionsTypeOK, tables, Goto
  <1>3. \A x \in Calls : CallSound(x)'
    <2> SUFFICES ASSUME NEW x \in Calls, x # c PROVE CallSound(x)'
      OBVIOUS
    <2>1. call'[x] = call[x]
      BY DEF SessionsIInv, SessionsTypeOK, Goto
    <2> QED
      BY <2>1, <1>1, CallFrame
  <1> QED
    BY <1>1, <1>2, <1>3 DEF SessionsIInv

\* The places where a request has read nothing that could be gone.
Plain == {"idle", "resolve", "bind", "ensure", "point", "open", "approve", "reject"}

LEMMA PlainMoves ==
  ASSUME SessionsIInv, UNCHANGED tables, NEW c \in Calls, NEW row \in CallRows,
         row.at \in Plain, Goto(c, row)
  PROVE  SessionsIInv' /\ Grows
  <1>1. call'[c] = row
    BY DEF SessionsIInv, SessionsTypeOK, Goto
  <1>2. CallSound(c)'
    BY <1>1 DEF CallSound, Plain
  <1> QED
    BY <1>2, CallMoves

DeviceStates == {"NONE", "ACTIVE", "PENDING_APPROVAL", "REVOKED"}
AccountRows == [status : {"ACTIVE", "SUSPENDED", "DELETED"}, password : 0..MaxPasswords]

\* A request comes to an end, and sessions and tokens have been dealt with.
LEMMA Commits ==
  ASSUME SessionsIInv, NEW c \in Calls, Goto(c, Idle), TablesInv', Grows,
         session' \in [SessionIds -> SessionRows], token' \in [TokenIds -> TokenRows],
         account' \in AccountRows, device' \in [Devices -> DeviceStates],
         resets' \in [Devices -> 0..MaxResets], change' \in [ChangeIds -> ChangeRows]
  PROVE  SessionsIInv' /\ Grows
  <1>1. SessionsTypeOK'
    BY DEF SessionsIInv, SessionsTypeOK, Goto, CallRows, AccountRows, DeviceStates
  <1>2. ASSUME NEW x \in Calls PROVE CallSound(x)'
    <2>1. CASE x = c
      BY <2>1 DEF SessionsIInv, SessionsTypeOK, Goto, CallSound, Idle
    <2>2. CASE x # c
      BY <2>2, CallFrame DEF SessionsIInv, SessionsTypeOK, Goto
    <2> QED
      BY <2>1, <2>2
  <1> QED
    BY <1>1, <1>2 DEF SessionsIInv

\* The same, of a request that changes nothing else.
LEMMA CallEnds ==
  ASSUME SessionsIInv, NEW c \in Calls, Goto(c, Idle), TablesInv', Grows,
         session' \in [SessionIds -> SessionRows] \/ session' = session,
         token' \in [TokenIds -> TokenRows] \/ token' = token,
         UNCHANGED <<account, device, resets, change>>
  PROVE  SessionsIInv' /\ Grows
  <1>1. /\ session' \in [SessionIds -> SessionRows] /\ token' \in [TokenIds -> TokenRows]
        /\ account' \in AccountRows /\ device' \in [Devices -> DeviceStates]
        /\ resets' \in [Devices -> 0..MaxResets] /\ change' \in [ChangeIds -> ChangeRows]
    BY DEF SessionsIInv, SessionsTypeOK, AccountRows, DeviceStates
  <1> QED
    BY <1>1, Commits

\* A transaction has seen all the sessions whose tokens it will revoke.
LEMMA WithdrawKeeps ==
  ASSUME SessionsIInv, NEW c \in Calls, NEW S \in SUBSET SessionIds, NEW D \in SUBSET Devices,
         NEW I \in SUBSET ChangeIds,
         NEW by \in {"logoutAll", "SUSPENDED", "DELETED", "device", "reset"},
         Withdraw(c, by, S, D, I),
         \A s \in Live : by # "device" \/ session[s].device \in D => s \in S
  PROVE  SessionsIInv' /\ Grows
  <1> DEFINE row == [at |-> "withdraw", by |-> by, sessions |-> S, devices |-> D, changes |-> I]
  <1>1. row \in CallRows
    BY DEF CallRows, WithdrawRows
  <1>2. Goto(c, row) /\ UNCHANGED tables
    BY DEF Withdraw
  <1>3. call'[c] = row /\ session' = session /\ token' = token
    BY <1>2 DEF SessionsIInv, SessionsTypeOK, Goto, tables
  <1>4. WithdrawSound(c)'
    BY <1>3 DEF WithdrawSound, Reaches, Live
  <1>5. CallSound(c)'
    BY <1>3, <1>4 DEF CallSound
  <1> HIDE DEF row
  <1> QED
    BY <1>1, <1>2, <1>5, CallMoves

\* Steps that change devices and change requests only.
LEMMA OtherTables ==
  ASSUME SessionsIInv, UNCHANGED <<account, session, token, resets>>,
         \/ device' \in [Devices -> {"NONE", "ACTIVE", "PENDING_APPROVAL", "REVOKED"}]
         \/ device' = device,
         change' \in [ChangeIds -> ChangeRows] \/ change' = change,
         NEW c \in Calls, NEW row \in CallRows, row.at \in Plain, Goto(c, row)
  PROVE  SessionsIInv' /\ Grows
  <1>1. TablesInv' /\ Grows
    BY SameTables
  <1>2. SessionsTypeOK'
    BY DEF SessionsIInv, SessionsTypeOK, Goto
  <1>3. ASSUME NEW x \in Calls PROVE CallSound(x)'
    <2>1. CASE x = c
      BY <2>1 DEF SessionsIInv, SessionsTypeOK, Goto, CallSound, Plain
    <2>2. CASE x # c
      BY <2>2, <1>1, CallFrame DEF SessionsIInv, SessionsTypeOK, Goto
    <2> QED
      BY <2>1, <2>2
  <1> QED
    BY <1>1, <1>2, <1>3 DEF SessionsIInv

\* Sign-in.
LEMMA SignInKeeps == SessionsIInv /\ SignInStep => SessionsIInv' /\ Grows
  <1> SUFFICES ASSUME SessionsIInv, SignInStep PROVE SessionsIInv' /\ Grows
    OBVIOUS
  <1> USE SessionsAssumption DEF SessionsAssumption
  <1>0. SessionsTypeOK
    BY DEF SessionsIInv
  <1>1. ASSUME NEW c \in Calls, NEW d \in Devices \cup {Null}, login(c, d)
        PROVE  SessionsIInv' /\ Grows
    <2> DEFINE row == SignIn(IF d = Null THEN "open" ELSE "resolve", d)
    <2>1. Deletions(d) \in 0..MaxResets
      BY <1>0 DEF SessionsTypeOK, Deletions
    <2>2. row \in CallRows /\ row.at \in Plain
      BY <2>1 DEF SignIn, CallRows, SignInRows, Plain
    <2> QED
      BY <1>1, <2>2, PlainMoves DEF login
  <1>2. ASSUME NEW c \in Calls, handleKnownDevice(c)
        PROVE  SessionsIInv' /\ Grows
    <2> DEFINE row == [call[c] EXCEPT !.at = "open", !.resets = Deletions(call[c].key)]
    <2>1. call[c] \in SignInRows /\ Deletions(call[c].key) \in 0..MaxResets
      BY <1>0, <1>2, CallShape DEF handleKnownDevice, SessionsTypeOK, Deletions, SignInRows
    <2>2. row \in SignInRows /\ row.at = "open"
      BY <2>1 DEF SignInRows
    <2> HIDE DEF row
    <2>3. row \in CallRows /\ row.at \in Plain
      BY <2>2 DEF CallRows, Plain
    <2>4. UNCHANGED tables /\ Goto(c, row)
      BY <1>2 DEF handleKnownDevice, row
    <2> QED
      BY <2>3, <2>4, PlainMoves
  <1>3. ASSUME NEW c \in Calls, CountDevices(c)
        PROVE  SessionsIInv' /\ Grows
    <2> DEFINE b == /\ Cardinality(ActiveDevices) < DeviceLimit
                    /\ ActiveDevices = {} => AutoBindFirst
               row == [call[c] EXCEPT !.at = "bind", !.bind = b]
    <2>1. call[c] \in SignInRows /\ b \in BOOLEAN
      BY <1>0, <1>3, CallShape DEF CountDevices
    <2> HIDE DEF b
    <2>2. row \in SignInRows /\ row.at = "bind"
      BY <2>1 DEF SignInRows
    <2>3. UNCHANGED tables /\ Goto(c, row)
      BY <1>3 DEF CountDevices, b
    <2> HIDE DEF row
    <2>4. row \in CallRows /\ row.at \in Plain
      BY <2>2 DEF CallRows, Plain
    <2> QED
      BY <2>3, <2>4, PlainMoves
  <1>4. ASSUME NEW c \in Calls, handleUnknownDevice(c)
        PROVE  SessionsIInv' /\ Grows
    <2> DEFINE row == [call[c] EXCEPT !.at = IF call[c].bind THEN "open" ELSE "ensure",
                                      !.resets = Deletions(call[c].key)]
    <2>1. call[c] \in SignInRows /\ Deletions(call[c].key) \in 0..MaxResets
          /\ call[c].bind \in BOOLEAN
      BY <1>0, <1>4, CallShape DEF handleUnknownDevice, SessionsTypeOK, SignInRows, Deletions
    <2>5. row \in SignInRows /\ row.at \in {"open", "ensure"}
      BY <2>1 DEF SignInRows
    <2>3. Goto(c, row) /\ UNCHANGED <<account, session, token, resets, change>>
      BY <1>4 DEF handleUnknownDevice
    <2> HIDE DEF row
    <2>2. row \in CallRows /\ row.at \in Plain
      BY <2>5 DEF CallRows, Plain
    <2>4. device' \in [Devices -> {"NONE", "ACTIVE", "PENDING_APPROVAL", "REVOKED"}]
      BY <1>0, <1>4, <2>1 DEF handleUnknownDevice, SessionsTypeOK
    <2> QED
      BY <2>2, <2>3, <2>4, OtherTables
  <1>5. ASSUME NEW c \in Calls, NEW s \in SessionIds,
               call[c].at = "open", session[s].status = "NONE",
               ~DeviceLocked(call[c].key),
               session' = [session EXCEPT ![s] =
                 [status |-> "ACTIVE", device |-> call[c].key, signedInOn |-> call[c].key,
                  late |-> Withdrawing # {}]],
               Goto(c, [at |-> "token", session |-> s]),
               UNCHANGED <<account, token, device, resets, change>>
        PROVE  SessionsIInv' /\ Grows
    <2>1. call[c].key \in Devices \cup {Null}
      BY <1>0, <1>5, CallShape DEF SignInRows
    <2>0. (Withdrawing # {}) \in BOOLEAN
      OBVIOUS
    <2>2. SessionsTypeOK'
      BY <1>0, <1>5, <2>0, <2>1 DEF SessionsTypeOK, Goto, SessionRows, CallRows
    <2>3. \A x \in SessionIds \ {s} : session'[x] = session[x]
      BY <1>0, <1>5 DEF SessionsTypeOK
    <2>4. /\ session'[s].status = "ACTIVE"
          /\ session'[s].device = session'[s].signedInOn
          /\ session'[s].device = call[c].key
          /\ session'[s].late = (Withdrawing # {})
      BY <1>0, <1>5 DEF SessionsTypeOK
    <2>5. Grows
      <3>1. Opened(s)
        BY <1>5, <2>4 DEF Opened
      <3>2. SessionsGrow
        BY <1>5, <2>3, <2>4, <3>1 DEF SessionsGrow
      <3>3. TokensGrow
        BY <1>5 DEF TokensGrow
      <3> QED
        BY <3>2, <3>3 DEF Grows
    <2>6. \A t \in TokenIds : token[t].session # s
      BY <1>5 DEF SessionsIInv, TablesInv, TokensSound
    <2>7. TokensSound' /\ RevokedTokenIsOfEndedSession'
      BY <1>0, <1>5, <2>3, <2>6
      DEF SessionsIInv, TablesInv, TokensSound, RevokedTokenIsOfEndedSession, SessionsTypeOK
    <2>8. ParentIsUsed' /\ RotatedOnce'
      BY <1>5 DEF SessionsIInv, TablesInv, ParentIsUsed, RotatedOnce
    <2>9. OpenSessionKeepsDevice'
      BY <2>3, <2>4 DEF SessionsIInv, TablesInv, OpenSessionKeepsDevice, Live
    <2>10. ASSUME NEW x \in Calls PROVE CallSound(x)'
      <3>1. CASE x = c
        BY <3>1, <1>0, <1>5, <2>4 DEF CallSound, Goto, SessionsTypeOK
      <3>2. CASE x # c
        BY <3>2, <1>0, <1>5, <2>5, CallFrame DEF Goto, SessionsTypeOK
      <3> QED
        BY <3>1, <3>2
    <2> QED
      BY <2>2, <2>5, <2>7, <2>8, <2>9, <2>10 DEF SessionsIInv, TablesInv
  <1>6. ASSUME NEW c \in Calls, establishSession(c)
        PROVE  SessionsIInv' /\ Grows
    <2>1. call[c].session \in SessionIds /\ session[call[c].session].status # "NONE"
      BY <1>0, <1>6, CallShape DEF establishSession, SessionsIInv, CallSound
    <2>2. /\ TablesInv' /\ Grows
          /\ token' \in [TokenIds -> TokenRows]
      BY <1>6, <2>1, IssueKeeps DEF establishSession
    <2> QED
      BY <1>6, <2>2, CallEnds DEF establishSession
  <1>7. ASSUME NEW c \in Calls, SignInFails(c)
        PROVE  SessionsIInv' /\ Grows
    BY <1>7, PlainMoves DEF SignInFails, CallRows, Plain, Idle
  <1> QED
    BY <1>1, <1>2, <1>3, <1>4, <1>5, <1>6, <1>7 DEF SignInStep, OpenSession

\* A refresh that has read its token, for the first or the second time.
LEMMA AnswerKeeps ==
  ASSUME SessionsIInv, NEW c \in Calls, NEW t \in TokenIds, token[t].status # "NONE",
         NEW again \in BOOLEAN, Goto(c, Answer(t, again)), UNCHANGED tables
  PROVE  SessionsIInv' /\ Grows
  <1>1. token[t].session \in SessionIds
    BY DEF SessionsIInv, TablesInv, TokensSound
  <1>2. \/ Answer(t, again) = Idle
        \/ /\ Answer(t, again) = [at |-> "family", session |-> token[t].session]
           /\ token[t].aged /\ ~token[t].revoked
        \/ \E at \in {"reissue", "rotate"} :
             Answer(t, again) = [at |-> at, token |-> t, again |-> again]
    BY DEF Answer, Reused
  <1>3. Answer(t, again) \in CallRows
    BY <1>1, <1>2 DEF CallRows, RefreshRows
  <1>4. call'[c] = Answer(t, again)
    BY DEF Goto, SessionsIInv, SessionsTypeOK
  <1>5. token' = token /\ session' = session
    BY DEF tables
  <1>6. CallSound(c)'
    BY <1>2, <1>4, <1>5 DEF CallSound, Idle
  <1> QED
    BY <1>3, <1>6, CallMoves

\* The sliding expiry changes nothing the model knows.
LEMMA TouchKeeps ==
  ASSUME SessionsTypeOK, NEW s \in SessionIds, TouchSession(s)
  PROVE  session' = session
  BY DEF SessionsTypeOK, TouchSession

\* Refresh.
LEMMA RefreshKeeps == SessionsIInv /\ RefreshStep => SessionsIInv' /\ Grows
  <1> SUFFICES ASSUME SessionsIInv, RefreshStep PROVE SessionsIInv' /\ Grows
    OBVIOUS
  <1> USE SessionsAssumption DEF SessionsAssumption
  <1>0. SessionsTypeOK
    BY DEF SessionsIInv
  <1>1. ASSUME NEW c \in Calls, NEW t \in TokenIds, refresh(c, t)
        PROVE  SessionsIInv' /\ Grows
    BY <1>1, AnswerKeeps DEF refresh
  <1>2. ASSUME NEW c \in Calls, rotateRefresh(c)
        PROVE  SessionsIInv' /\ Grows
    <2> DEFINE t == call[c].token
    <2>1. t \in TokenIds /\ token[t].status = "UNUSED" /\ t # Null
      BY <1>0, <1>2, CallShape DEF rotateRefresh, Claimable, RefreshRows
    <2>2. token[t].session \in SessionIds /\ session[token[t].session].status # "NONE"
      BY <2>1 DEF SessionsIInv, TablesInv, TokensSound
    <2>3. session' = session
      BY <1>0, <1>2, <2>2, TouchKeeps DEF rotateRefresh
    <2>4. /\ TablesInv' /\ Grows
          /\ token' \in [TokenIds -> TokenRows]
      BY <1>2, <2>1, <2>2, <2>3, IssueKeeps DEF rotateRefresh
    <2> QED
      BY <1>2, <2>3, <2>4, CallEnds DEF rotateRefresh
  <1>3. ASSUME NEW c \in Calls, RotationLost(c)
        PROVE  SessionsIInv' /\ Grows
    <2>1. call[c] \in RefreshRows /\ token[call[c].token].status # "NONE"
      BY <1>0, <1>3, CallShape DEF RotationLost, SessionsIInv, CallSound
    <2>2. CASE call[c].again
      BY <1>3, <2>2, PlainMoves DEF RotationLost, CallRows, Plain, Idle
    <2>3. CASE ~call[c].again
      <3> DEFINE row == [call[c] EXCEPT !.at = "retry"]
      <3>1. row \in RefreshRows /\ row.at = "retry" /\ row.token = call[c].token
        BY <2>1 DEF RefreshRows
      <3>2. Goto(c, row) /\ UNCHANGED tables
        BY <1>3, <2>3 DEF RotationLost
      <3> HIDE DEF row
      <3>3. row \in CallRows
        BY <3>1 DEF CallRows
      <3>4. call'[c] = row /\ token' = token
        BY <1>0, <3>2 DEF SessionsTypeOK, Goto, tables
      <3>5. CallSound(c)'
        BY <2>1, <3>1, <3>4 DEF CallSound
      <3> QED
        BY <3>2, <3>3, <3>5, CallMoves
    <2> QED
      BY <2>2, <2>3
  <1>4. ASSUME NEW c \in Calls, RetryReads(c)
        PROVE  SessionsIInv' /\ Grows
    <2>1. call[c].token \in TokenIds /\ token[call[c].token].status # "NONE"
      BY <1>0, <1>4, CallShape DEF RetryReads, SessionsIInv, CallSound, RefreshRows
    <2> QED
      BY <1>4, <2>1, AnswerKeeps DEF RetryReads
  <1>5. ASSUME NEW c \in Calls, reissueFromSuccessor(c)
        PROVE  SessionsIInv' /\ Grows
    <2> DEFINE s == token[call[c].token].session
    <2>1. call[c].token \in TokenIds /\ token[call[c].token].status # "NONE"
      BY <1>0, <1>5, CallShape
      DEF reissueFromSuccessor, SessionsIInv, CallSound, RefreshRows
    <2>2. s \in SessionIds /\ session[s].status # "NONE"
      BY <2>1 DEF SessionsIInv, TablesInv, TokensSound
    <2>3. session' = session
      BY <1>0, <1>5, <2>2, TouchKeeps DEF reissueFromSuccessor
    <2>4. /\ TablesInv' /\ Grows
          /\ token' \in [TokenIds -> TokenRows]
      BY <1>5, <2>2, <2>3, IssueKeeps DEF reissueFromSuccessor
    <2> QED
      BY <1>5, <2>3, <2>4, CallEnds DEF reissueFromSuccessor
  <1>6. ASSUME NEW c \in Calls, FamilyReads(c)
        PROVE  SessionsIInv' /\ Grows
    <2> DEFINE f == call[c].session
               row == [at |-> "revoke", family |-> f, sessions |-> FamilySessions(f)]
    <2>1. f \in SessionIds
      BY <1>0, <1>6, CallShape DEF FamilyReads
    <2>2. FamilySessions(f) \in SUBSET SessionIds
      BY <2>1 DEF FamilySessions
    <2>3. /\ session[f].status # "NONE"
          /\ f \in FamilySessions(f) \/ session[f].status = "REVOKED"
      <3>1. CASE session[f].status = "REVOKED"
        BY <3>1
      <3>2. ASSUME NEW t \in TokenIds, token[t].session = f, ~token[t].revoked
            PROVE  session[f].status # "NONE" /\ f \in FamilySessions(f)
        <4>1. token[t].status # "NONE"
          BY <2>1, <3>2 DEF SessionsIInv, TablesInv, TokensSound
        <4> QED
          BY <3>2, <4>1 DEF SessionsIInv, TablesInv, TokensSound, FamilySessions
      <3> QED
        BY <1>6, <3>1, <3>2 DEF SessionsIInv, CallSound, FamilyReads
    <2>4. row \in CallRows
      BY <2>1, <2>2 DEF CallRows, RevokeRows
    <2>5. Goto(c, row) /\ UNCHANGED tables
      BY <1>6 DEF FamilyReads
    <2>6. call'[c] = row /\ session' = session
      BY <1>0, <2>5 DEF SessionsTypeOK, Goto, tables
    <2>7. CallSound(c)'
      BY <2>3, <2>6 DEF CallSound
    <2> QED
      BY <2>4, <2>5, <2>7, CallMoves
  <1>7. ASSUME NEW c \in Calls, revokeFamily(c)
        PROVE  SessionsIInv' /\ Grows
    <2>1. call[c] \in RevokeRows /\ CallSound(c)
      BY <1>0, <1>7, CallShape DEF revokeFamily, SessionsIInv
    <2>2. /\ {call[c].family} \in SUBSET SessionIds /\ call[c].sessions \in SUBSET SessionIds
          /\ \A s \in {call[c].family} : s \in call[c].sessions \/ session[s].status # "ACTIVE"
      BY <1>7, <2>1 DEF revokeFamily, RevokeRows, CallSound
    <2>3. /\ TablesInv' /\ Grows
          /\ session' \in [SessionIds -> SessionRows]
          /\ token' \in [TokenIds -> TokenRows]
      BY <1>7, <2>2, EndingKeeps DEF revokeFamily
    <2> QED
      BY <1>7, <2>3, CallEnds DEF revokeFamily
  <1>8. ASSUME NEW t \in TokenIds, GraceEnds(t)
        PROVE  SessionsIInv' /\ Grows
    <2>1. token \in [TokenIds -> TokenRows]
      BY <1>0 DEF SessionsTypeOK
    <2>2. token' = [token EXCEPT ![t] = [token[t] EXCEPT !.aged = TRUE]]
      BY <1>8, <2>1 DEF GraceEnds
    <2>3. token' \in [TokenIds -> TokenRows]
      BY <2>1, <2>2, TokenUpdates
    <2>4. \A k \in TokenIds :
            /\ token'[k].status = token[k].status /\ token'[k].session = token[k].session
            /\ token'[k].parent = token[k].parent /\ token'[k].revoked = token[k].revoked
            /\ token[k].aged => token'[k].aged
            /\ token'[k].aged => token[k].status # "NONE" \/ token[k].aged
      BY <1>8, <2>1, <2>2 DEF TokenRows, GraceEnds
    <2>5. session' = session /\ UNCHANGED <<account, device, resets, change, call>>
      BY <1>8 DEF GraceEnds
    <2>6. Grows
      <3>1. Withdrawing = {}
        BY <1>8 DEF GraceEnds
      <3>2. SessionsGrow
        BY <2>5 DEF SessionsGrow
      <3>3. TokensGrow
        BY <2>4, <3>1 DEF TokensGrow
      <3> QED
        BY <3>2, <3>3 DEF Grows
    <2>7. TokensSound' /\ RotatedOnce' /\ RevokedTokenIsOfEndedSession'
      BY <2>4, <2>5
      DEF SessionsIInv, TablesInv, TokensSound, RotatedOnce, RevokedTokenIsOfEndedSession
    <2>8. ParentIsUsed'
      BY <2>1, <2>4 DEF SessionsIInv, TablesInv, ParentIsUsed, TokenRows
    <2>9. OpenSessionKeepsDevice'
      BY <2>5 DEF SessionsIInv, TablesInv, OpenSessionKeepsDevice, Live
    <2>10. SessionsTypeOK'
      BY <1>0, <2>3, <2>5 DEF SessionsTypeOK
    <2>11. \A x \in Calls : CallSound(x)'
      BY <2>5, <2>6, CallFrame
    <2> QED
      BY <2>6, <2>7, <2>8, <2>9, <2>10, <2>11 DEF SessionsIInv, TablesInv
  <1> QED
    BY <1>1, <1>2, <1>3, <1>4, <1>5, <1>6, <1>7, <1>8 DEF RefreshStep

\* Steps of no request in flight: nobody moves while the tables change.
LEMMA NobodyMoves ==
  ASSUME SessionsIInv, TablesInv', Grows, SessionsTypeOK', call' = call
  PROVE  SessionsIInv'
  <1>1. \A x \in Calls : CallSound(x)'
    BY CallFrame
  <1> QED
    BY <1>1 DEF SessionsIInv

\* The sessions of S end with their tokens, while the account may change.
LEMMA EndsFor ==
  ASSUME SessionsIInv, NEW S \in SUBSET SessionIds, EndSessions(S), RevokeTokens(S),
         account' \in AccountRows,
         UNCHANGED <<device, resets, change, call>>
  PROVE  SessionsIInv' /\ Grows
  <1>1. /\ TablesInv' /\ Grows
        /\ session' \in [SessionIds -> SessionRows]
        /\ token' \in [TokenIds -> TokenRows]
    BY EndingKeeps
  <1>2. SessionsTypeOK'
    BY <1>1 DEF SessionsIInv, SessionsTypeOK, AccountRows
  <1> QED
    BY <1>1, <1>2, NobodyMoves

\* Logout, password reset, suspension and deletion.
LEMMA EndKeeps == SessionsIInv /\ EndStep => SessionsIInv' /\ Grows
  <1> SUFFICES ASSUME SessionsIInv, EndStep PROVE SessionsIInv' /\ Grows
    OBVIOUS
  <1>0. SessionsTypeOK /\ account \in AccountRows
    BY DEF SessionsIInv, SessionsTypeOK, AccountRows
  <1>1. ASSUME NEW s \in SessionIds, logout(s) \/ revoke(s)
        PROVE  SessionsIInv' /\ Grows
    BY <1>0, <1>1, EndsFor DEF logout, revoke
  <1>2. ASSUME NEW c \in Calls, logoutAll(c) \/ suspend(c) \/ softDelete(c)
        PROVE  SessionsIInv' /\ Grows
    <2>1. PICK by \in {"logoutAll", "SUSPENDED", "DELETED"} : Withdraw(c, by, Live, {}, {})
      BY <1>2 DEF logoutAll, suspend, softDelete
    <2>2. Live \in SUBSET SessionIds
      BY DEF Live
    <2> QED
      BY <2>1, <2>2, WithdrawKeeps
  <1>3. ASSUME NEW c \in Calls, WithdrawUser(c)
        PROVE  SessionsIInv' /\ Grows
    <2>1. /\ call[c] \in WithdrawRows /\ WithdrawSound(c) /\ call[c].by # "device"
          /\ call[c].by = "logoutAll" \/ call[c].by \in {"SUSPENDED", "DELETED"}
      BY <1>0, <1>3, CallShape DEF WithdrawUser, SessionsIInv, CallSound
    <2>2. call[c].sessions \in SUBSET SessionIds
      BY <2>1 DEF WithdrawRows
    <2>3. \A s \in SessionIds : \/ s \in call[c].sessions
                                \/ session[s].status # "ACTIVE"
                                \/ session[s].late /\ ~Old(s)
      BY <2>1 DEF WithdrawSound, Reaches
    <2>4. /\ TablesInv' /\ Grows
          /\ session' \in [SessionIds -> SessionRows]
          /\ token' \in [TokenIds -> TokenRows]
      BY <1>3, <2>2, <2>3, EndingKeeps DEF WithdrawUser
    <2>5. account' \in AccountRows
      BY <1>0, <1>3, <2>1 DEF WithdrawUser, AccountRows
    <2>6. /\ device' \in [Devices -> DeviceStates] /\ resets' \in [Devices -> 0..MaxResets]
          /\ change' \in [ChangeIds -> ChangeRows] /\ Goto(c, Idle)
      BY <1>0, <1>3 DEF WithdrawUser, SessionsTypeOK, DeviceStates
    <2> QED
      BY <2>4, <2>5, <2>6, Commits
  <1>4. CASE revokeAllForUser
    <2>1. Live \in SUBSET SessionIds
      BY DEF Live
    <2> QED
      BY <1>0, <1>4, <2>1, EndsFor DEF revokeAllForUser
  <1>5. CASE resetPassword
    <2>1. account' \in AccountRows
      BY <1>0, <1>5, SessionsAssumption DEF resetPassword, SessionsAssumption, AccountRows
    <2> QED
      BY <1>5, <2>1, EndsFor DEF resetPassword
  <1>6. CASE setActive
    <2>1. account' \in AccountRows
      BY <1>0, <1>6 DEF setActive, AccountRows
    <2>2. UNCHANGED <<session, token, device, resets, change, call>>
      BY <1>6 DEF setActive
    <2>3. TablesInv' /\ Grows
      BY <2>2, SameTables
    <2>4. SessionsTypeOK'
      BY <2>1, <2>2 DEF SessionsIInv, SessionsTypeOK, AccountRows
    <2> QED
      BY <2>2, <2>3, <2>4, NobodyMoves
  <1> QED
    BY <1>1, <1>2, <1>3, <1>4, <1>5, <1>6 DEF EndStep

\* Devices.
LEMMA DeviceKeeps == SessionsIInv /\ DeviceStep => SessionsIInv' /\ Grows
  <1> SUFFICES ASSUME SessionsIInv, DeviceStep PROVE SessionsIInv' /\ Grows
    OBVIOUS
  <1> USE SessionsAssumption DEF SessionsAssumption
  <1>0. SessionsTypeOK
    BY DEF SessionsIInv
  <1>1. ASSUME NEW c \in Calls, NEW d \in Devices, requestChange(c, d)
        PROVE  SessionsIInv' /\ Grows
    <2> DEFINE row == [SignIn("ensure", d) EXCEPT !.login = FALSE]
    <2>0. Deletions(d) \in 0..MaxResets
      BY <1>0 DEF SessionsTypeOK, Deletions
    <2>1. row \in SignInRows /\ row.at = "ensure"
      BY <2>0 DEF SignIn, SignInRows
    <2>2. Goto(c, row) /\ UNCHANGED <<account, session, token, resets, change>>
      BY <1>1, Zenon DEF requestChange
    <2> HIDE DEF row
    <2>3. row \in CallRows /\ row.at \in Plain
      BY <2>1 DEF CallRows, Plain
    <2>4. device' \in [Devices -> DeviceStates]
      BY <1>0, <1>1 DEF requestChange, SessionsTypeOK, DeviceStates
    <2> QED
      BY <2>2, <2>3, <2>4, OtherTables DEF DeviceStates
  <1>2. ASSUME NEW c \in Calls, EnsureReads(c)
        PROVE  SessionsIInv' /\ Grows
    <2>1. call[c] \in SignInRows
      BY <1>0, <1>2, CallShape DEF EnsureReads
    <2>2. PICK i \in ChangeIds \cup {Null} :
            Goto(c, [call[c] EXCEPT !.at = "point", !.found = i])
      BY <1>2 DEF EnsureReads
    <2> DEFINE row == [call[c] EXCEPT !.at = "point", !.found = i]
    <2>3. row \in SignInRows /\ row.at = "point"
      BY <2>1 DEF SignInRows
    <2>4. UNCHANGED tables /\ Goto(c, row)
      BY <1>2, <2>2 DEF EnsureReads
    <2> HIDE DEF row
    <2>5. row \in CallRows /\ row.at \in Plain
      BY <2>3 DEF CallRows, Plain
    <2> QED
      BY <2>4, <2>5, PlainMoves
  <1>3. ASSUME NEW c \in Calls, ensureChangeRequest(c)
        PROVE  SessionsIInv' /\ Grows
    <2> DEFINE next == [call[c] EXCEPT !.at = "open", !.found = Null]
               row == IF call[c].login THEN next ELSE Idle
    <2>1. call[c] \in SignInRows
      BY <1>0, <1>3, CallShape DEF ensureChangeRequest
    <2>2. /\ call[c].key \in Devices \cup {Null} /\ next \in SignInRows /\ next.at = "open"
      BY <2>1 DEF SignInRows
    <2>3. change' \in [ChangeIds -> ChangeRows]
      BY <1>0, <1>3, <2>2 DEF ensureChangeRequest, SessionsTypeOK, ChangeRows
    <2>4. Goto(c, row) /\ UNCHANGED <<account, session, token, device, resets>>
      BY <1>3 DEF ensureChangeRequest
    <2> HIDE DEF next
    <2>5. row \in CallRows /\ row.at \in Plain
      BY <2>2 DEF CallRows, Plain, Idle
    <2> HIDE DEF row
    <2> QED
      BY <2>3, <2>4, <2>5, OtherTables
  <1>4. ASSUME NEW c \in Calls, NEW i \in ChangeIds, NEW verdict \in {"approve", "reject"},
               ReviewReads(c, i, verdict)
        PROVE  SessionsIInv' /\ Grows
    <2> DEFINE row == [at |-> verdict, change |-> i, key |-> change[i].device]
    <2>1. row \in CallRows /\ row.at \in Plain
      BY <1>0 DEF CallRows, ReviewRows, Plain, SessionsTypeOK, ChangeRows
    <2> QED
      BY <1>4, <2>1, PlainMoves DEF ReviewReads
  <1>5. ASSUME NEW c \in Calls, approveChange(c)
        PROVE  SessionsIInv' /\ Grows
    <2> DEFINE S == {s \in SessionIds : session[s].device \notin {call[c].key, Null}}
    <2>1. RevokeTokens({})
      BY <1>0, <1>5 DEF approveChange, RevokeTokens, SessionsTypeOK
    <2>2. S \in SUBSET SessionIds /\ EndSessions(S)
      BY <1>5 DEF approveChange
    <2> HIDE DEF S
    <2>3. /\ TablesInv' /\ Grows
          /\ session' \in [SessionIds -> SessionRows]
          /\ token' \in [TokenIds -> TokenRows]
      BY <2>1, <2>2, EndingKeeps
    <2>4. call[c].change \in ChangeIds
      BY <1>0, <1>5, CallShape DEF approveChange, ReviewRows
    <2>5. change' \in [ChangeIds -> ChangeRows]
      BY <1>0, <1>5, <2>4 DEF approveChange, SessionsTypeOK, ChangeRows
    <2>6. device' \in [Devices -> DeviceStates]
      BY <1>0, <1>5 DEF approveChange, SessionsTypeOK, DeviceStates
    <2>7. Goto(c, Idle) /\ account' \in AccountRows /\ resets' \in [Devices -> 0..MaxResets]
      BY <1>0, <1>5 DEF approveChange, SessionsTypeOK, AccountRows
    <2> QED
      BY <2>3, <2>5, <2>6, <2>7, Commits
  <1>6. ASSUME NEW c \in Calls, rejectChange(c)
        PROVE  SessionsIInv' /\ Grows
    <2>1. call[c].change \in ChangeIds
      BY <1>0, <1>6, CallShape DEF rejectChange, ReviewRows
    <2>2. change' \in [ChangeIds -> ChangeRows]
      BY <1>0, <1>6, <2>1 DEF rejectChange, SessionsTypeOK, ChangeRows
    <2>3. Idle \in CallRows /\ Idle.at \in Plain
      BY DEF CallRows, Plain, Idle
    <2> QED
      BY <1>6, <2>2, <2>3, OtherTables DEF rejectChange
  <1>7. ASSUME NEW c \in Calls, NEW d \in Devices, revokeDevice(c, d)
        PROVE  SessionsIInv' /\ Grows
    <2> DEFINE S == {s \in Live : session[s].device = d}
    <2>1. S \in SUBSET SessionIds /\ \A s \in Live : session[s].device \in {d} => s \in S
      BY DEF Live
    <2>2. Withdraw(c, "device", S, {d}, {})
      BY <1>7 DEF revokeDevice
    <2> HIDE DEF S
    <2> QED
      BY <2>1, <2>2, WithdrawKeeps
  <1>8. ASSUME NEW c \in Calls, WithdrawDevice(c)
        PROVE  SessionsIInv' /\ Grows
    <2> DEFINE D == call[c].devices
               R == {s \in SessionIds : session[s].device \in D}
    <2>1. call[c] \in WithdrawRows /\ WithdrawSound(c)
      BY <1>0, <1>8, CallShape DEF WithdrawDevice, SessionsIInv, CallSound
    <2>2. call[c].sessions \in SUBSET SessionIds /\ R \in SUBSET SessionIds
      BY <2>1 DEF WithdrawRows
    <2>3. \A s \in R : \/ s \in call[c].sessions
                       \/ session[s].status # "ACTIVE"
                       \/ session[s].late /\ ~Old(s)
      BY <2>1 DEF WithdrawSound, Reaches
    <2>4. EndSessions(call[c].sessions) /\ RevokeTokens(R)
      BY <1>8 DEF WithdrawDevice
    <2>5. device' \in [Devices -> DeviceStates]
      BY <1>0, <1>8 DEF WithdrawDevice, SessionsTypeOK, DeviceStates
    <2>6. /\ account' \in AccountRows /\ resets' \in [Devices -> 0..MaxResets]
          /\ change' \in [ChangeIds -> ChangeRows] /\ Goto(c, Idle)
      BY <1>0, <1>8 DEF WithdrawDevice, SessionsTypeOK, AccountRows
    <2> HIDE DEF R, D
    <2>7. /\ TablesInv' /\ Grows
          /\ session' \in [SessionIds -> SessionRows]
          /\ token' \in [TokenIds -> TokenRows]
      BY <2>2, <2>3, <2>4, EndingKeeps
    <2> QED
      BY <2>5, <2>6, <2>7, Commits
  <1>9. ASSUME NEW c \in Calls, resetBinding(c)
        PROVE  SessionsIInv' /\ Grows
    <2> DEFINE D == {d \in Devices : device[d] # "NONE"}
               I == {i \in ChangeIds : change[i].status = "PENDING"}
    <2>1. Live \in SUBSET SessionIds /\ D \in SUBSET Devices /\ I \in SUBSET ChangeIds
      BY DEF Live
    <2>2. Withdraw(c, "reset", Live, D, I)
      BY <1>9 DEF resetBinding
    <2> HIDE DEF D, I
    <2> QED
      BY <2>1, <2>2, WithdrawKeeps
  <1>10. ASSUME NEW c \in Calls, WithdrawBinding(c)
         PROVE  SessionsIInv' /\ Grows
    <2>0. /\ call[c] \in WithdrawRows /\ WithdrawSound(c)
          /\ \A s \in SessionIds : session'[s] = ResetSession(c, s)
      BY <1>0, <1>10, CallShape DEF WithdrawBinding, SessionsIInv, CallSound
    <2>1. /\ session \in [SessionIds -> SessionRows]
          /\ token \in [TokenIds -> TokenRows]
      BY <1>0 DEF SessionsTypeOK
    <2>2. ASSUME NEW s \in SessionIds
          PROVE  /\ session'[s] \in SessionRows
                 /\ session'[s].status = IF s \in call[c].sessions /\ session[s].status = "ACTIVE"
                                         THEN "REVOKED" ELSE session[s].status
                 /\ session'[s].late = session[s].late
      <3>1. WithoutDevice(s, call[c].devices) \in SessionRows
        BY <2>1 DEF WithoutDevice, SessionRows
      <3>2. /\ WithoutDevice(s, call[c].devices).status = session[s].status
            /\ WithoutDevice(s, call[c].devices).late = session[s].late
        BY <2>1 DEF WithoutDevice, SessionRows
      <3> QED
        BY <2>0, <3>1, <3>2 DEF ResetSession, SessionRows
    <2>3. session' \in [SessionIds -> SessionRows]
      BY <1>10, <2>2 DEF WithdrawBinding
    <2>4. token' \in [TokenIds -> TokenRows]
      BY <1>10, <2>1, TokenUpdates DEF WithdrawBinding, RevokeTokens
    <2>5. \A t \in TokenIds :
            /\ token'[t].status = token[t].status /\ token'[t].session = token[t].session
            /\ token'[t].parent = token[t].parent /\ token'[t].aged = token[t].aged
            /\ token'[t].revoked => token[t].revoked \/ token[t].session \in SessionIds
      BY <1>10, <2>1 DEF WithdrawBinding, RevokeTokens, TokenRows
    \* A session that stays open did not name a device row that is deleted.
    <2>6. ASSUME NEW s \in SessionIds, session'[s].status = "ACTIVE"
          PROVE  session'[s] = session[s] /\ s \notin call[c].sessions
                   /\ session[s].late /\ ~Old(s)
      <3>1. session[s].status = "ACTIVE" /\ s \notin call[c].sessions
        BY <2>2, <2>6
      <3>2. call[c].by = "reset"
        BY <1>10 DEF WithdrawBinding
      <3>3. session[s].device \notin call[c].devices
        BY <2>0, <3>1, <3>2 DEF WithdrawSound
      <3>4. session[s].late /\ ~Old(s)
        BY <2>0, <3>1, <3>2 DEF WithdrawSound, Reaches
      <3> QED
        BY <2>0, <3>1, <3>3, <3>4 DEF ResetSession, WithoutDevice
    <2>7. Grows
      <3>1. SessionsGrow
        BY <2>2, <2>6 DEF SessionsGrow
      <3>2. ASSUME NEW t \in TokenIds, token[t].aged
            PROVE  session'[token[t].session].status = "REVOKED"
        <4>1. token[t].session \in SessionIds /\ session[token[t].session].status # "NONE"
          BY <3>2 DEF SessionsIInv, TablesInv, TokensSound
        <4>2. Old(token[t].session)
          BY <3>2 DEF Old
        <4>3. session'[token[t].session].status # "ACTIVE"
          BY <2>6, <4>1, <4>2
        <4> QED
          BY <2>2, <2>3, <4>1, <4>3 DEF SessionRows
      <3>3. TokensGrow
        BY <2>5, <3>2 DEF TokensGrow
      <3> QED
        BY <3>1, <3>3 DEF Grows
    <2>8. TokensSound'
      <3>1. ASSUME NEW t \in TokenIds
            PROVE  /\ token'[t].status = "NONE" =>
                        token'[t].session = Null /\ token'[t].parent = Null
                          /\ ~token'[t].revoked /\ ~token'[t].aged
                   /\ token'[t].status # "NONE" =>
                        /\ token'[t].session \in SessionIds
                        /\ session'[token'[t].session].status # "NONE"
        BY <2>2, <2>5 DEF SessionsIInv, TablesInv, TokensSound
      <3> QED
        BY <3>1 DEF TokensSound
    <2>9. ParentIsUsed' /\ RotatedOnce'
      BY <2>1, <2>5 DEF SessionsIInv, TablesInv, ParentIsUsed, RotatedOnce, TokenRows
    <2>10. RevokedTokenIsOfEndedSession'
      <3> SUFFICES ASSUME NEW t \in TokenIds, token'[t].revoked
                   PROVE  \/ session'[token'[t].session].status = "REVOKED"
                          \/ session'[token'[t].session].late
        BY DEF RevokedTokenIsOfEndedSession
      <3>1. token[t].session \in SessionIds /\ session[token[t].session].status # "NONE"
        BY <2>1, <2>5 DEF SessionsIInv, TablesInv, TokensSound, TokenRows
      <3>2. session'[token[t].session].status \in {"ACTIVE", "REVOKED"}
        BY <2>1, <2>2, <3>1 DEF SessionRows
      <3> QED
        BY <2>5, <2>6, <3>1, <3>2
    <2>11. OpenSessionKeepsDevice'
      BY <2>2, <2>6 DEF OpenSessionKeepsDevice, Live, SessionsIInv, TablesInv
    <2>12. /\ resets' \in [Devices -> 0..MaxResets] /\ change' \in [ChangeIds -> ChangeRows]
           /\ device' \in [Devices -> DeviceStates] /\ account' \in AccountRows
           /\ Goto(c, Idle)
      BY <1>0, <1>10 DEF WithdrawBinding, SessionsTypeOK, ChangeRows, DeviceStates, AccountRows
    <2> QED
      BY <2>3, <2>4, <2>7, <2>8, <2>9, <2>10, <2>11, <2>12, Commits DEF TablesInv
  <1> QED
    BY <1>1, <1>2, <1>3, <1>4, <1>5, <1>6, <1>7, <1>8, <1>9, <1>10 DEF DeviceStep

\* Every step keeps the invariant, and lets sessions and tokens only grow.
LEMMA StepKeeps ==
  SessionsIInv /\ [SessionsNext]_sessionsVars => SessionsIInv' /\ Grows
  <1> SUFFICES ASSUME SessionsIInv, [SessionsNext]_sessionsVars
               PROVE  SessionsIInv' /\ Grows
    OBVIOUS
  <1>1. CASE UNCHANGED sessionsVars
    <2>1. UNCHANGED <<account, session, token, device, resets, change, call>>
      BY <1>1 DEF sessionsVars, tables
    <2>2. TablesInv' /\ Grows
      BY <2>1, SameTables
    <2>3. SessionsTypeOK'
      BY <2>1 DEF SessionsIInv, SessionsTypeOK
    <2> QED
      BY <2>1, <2>2, <2>3, NobodyMoves
  <1> QED
    BY <1>1, SignInKeeps, RefreshKeeps, EndKeeps, DeviceKeeps DEF SessionsNext

\* The inductive invariant holds in every reachable state.
THEOREM Invariance == SessionsSpec => []SessionsIInv
  BY InitSound, StepKeeps, PTL DEF SessionsSpec

\* Every row and every request in flight stays well formed, for any number of
\* sessions, tokens, devices and requests.
THEOREM SessionsTypeCorrect == SessionsSpec => []SessionsTypeOK
  <1>1. SessionsIInv => SessionsTypeOK
    BY DEF SessionsIInv
  <1> QED
    BY <1>1, Invariance, PTL

\* However many refreshes present one token at once, it is rotated once.
THEOREM RefreshRotatesOnce == SessionsSpec => []RotatedOnce
  <1>1. SessionsIInv => RotatedOnce
    BY DEF SessionsIInv, TablesInv
  <1> QED
    BY <1>1, Invariance, PTL

\* Withdrawn tokens are never those of an open session, but for one that was opened while a
\* transaction had ended the sessions and not revoked the tokens yet.
THEOREM NoOpenSessionOfRevokedToken == SessionsSpec => []RevokedTokenIsOfEndedSession
  <1>1. SessionsIInv => RevokedTokenIsOfEndedSession
    BY DEF SessionsIInv, TablesInv
  <1> QED
    BY <1>1, Invariance, PTL

\* An open session acts as the device it was opened on.
THEOREM SessionActsAsItsDevice == SessionsSpec => []OpenSessionKeepsDevice
  <1>1. SessionsIInv => OpenSessionKeepsDevice
    BY DEF SessionsIInv, TablesInv
  <1> QED
    BY <1>1, Invariance, PTL

\* A refresh, a sign-in or a review in flight never revives a session.
THEOREM NoResurrection == SessionsSpec => EndedSessionStaysEnded
  <1>1. SessionsIInv /\ [SessionsNext]_sessionsVars =>
          [\A s \in SessionIds :
             session[s].status = "REVOKED" => session'[s].status = "REVOKED"]_sessionsVars
    BY StepKeeps DEF Grows, SessionsGrow
  <1> QED
    BY <1>1, Invariance, PTL DEF SessionsSpec, EndedSessionStaysEnded

\* Only revokeFamily takes a request out of "revoke".
LEMMA LeavesRevoke ==
  ASSUME SessionsTypeOK, SessionsNext, NEW c \in Calls,
         call[c].at = "revoke", call'[c].at # "revoke"
  PROVE  revokeFamily(c)
  <1>1. \A x \in Calls : \A row : x # c /\ Goto(x, row) => call'[c] = call[c]
    BY DEF SessionsTypeOK, Goto
  <1>2. call[c] # Idle
    BY DEF Idle
  <1>3. CASE SignInStep
    BY <1>1, <1>2, <1>3
    DEF SignInStep, login, handleKnownDevice, CountDevices, handleUnknownDevice, OpenSession,
        establishSession, SignInFails
  <1>4. CASE RefreshStep
    BY <1>1, <1>2, <1>4
    DEF RefreshStep, refresh, rotateRefresh, RotationLost, RetryReads, reissueFromSuccessor,
        FamilyReads, revokeFamily, GraceEnds
  <1>5. CASE EndStep
    BY <1>1, <1>2, <1>5
    DEF EndStep, logout, revoke, logoutAll, revokeAllForUser, resetPassword, softDelete, suspend,
        setActive, Withdraw, WithdrawUser
  <1>6. CASE DeviceStep
    BY <1>1, <1>2, <1>6
    DEF DeviceStep, requestChange, EnsureReads, ensureChangeRequest, ReviewReads,
        approveChange, rejectChange, revokeDevice, resetBinding, Withdraw, WithdrawDevice,
        WithdrawBinding
  <1> QED
    BY <1>3, <1>4, <1>5, <1>6 DEF SessionsNext

\* The reuse of a rotated token ends its family, although the sessions to end were
\* read before the tokens were revoked and the family may have grown since.
THEOREM ReuseRevokesFamily == SessionsSpec => ReuseEndsFamily
  <1>1. ASSUME SessionsIInv, [SessionsNext]_sessionsVars, NEW c \in Calls,
               call[c].at = "revoke", call'[c].at # "revoke"
        PROVE  session'[call[c].family].status = "REVOKED"
    <2>0. SessionsTypeOK /\ CallSound(c)
      BY <1>1 DEF SessionsIInv
    <2>1. SessionsNext
      BY <1>1 DEF sessionsVars
    <2>2. revokeFamily(c)
      BY <1>1, <2>0, <2>1, LeavesRevoke
    <2>3. call[c].family \in SessionIds
      BY <1>1, <2>0, CallShape DEF RevokeRows
    <2>4. session[call[c].family].status \in {"ACTIVE", "REVOKED"}
      BY <1>1, <2>0, <2>3 DEF CallSound, SessionsTypeOK, SessionRows
    <2> QED
      BY <1>1, <2>0, <2>2, <2>3, <2>4
      DEF revokeFamily, EndSessions, Live, CallSound, SessionsTypeOK, SessionRows
  <1>2. SessionsIInv /\ [SessionsNext]_sessionsVars =>
          [\A c \in Calls :
             (call[c].at = "revoke" /\ call'[c].at # "revoke") =>
               session'[call[c].family].status = "REVOKED"]_sessionsVars
    BY <1>1
  <1> QED
    BY <1>2, Invariance, PTL DEF SessionsSpec, ReuseEndsFamily
=============================================================================
