------------------------------ MODULE Accounts ------------------------------
(***************************************************************************)
(* Accounts and how they are opened: registration, staff accounts, the     *)
(* lock after failed sign-ins, suspension, password changes and deletion   *)
(* (auth.service.ts, users.service.ts, jwt-auth.guard.ts).  What a session *)
(* and its tokens do once it is open is the subject of Sessions.           *)
(*                                                                         *)
(* A password is the number of times it has been changed.  Hashing takes   *)
(* long: a sign-in reads the account, works, and writes.                   *)
(***************************************************************************)
EXTENDS Handlers, Naturals, FiniteSets

CONSTANTS
  Numbers,            \* telephone numbers, unique among accounts
  MaxFailedLogins,   \* wrong passwords before the account is locked
  MaxPasswords       \* bound: passwords an account has had

ASSUME AccountAssumption == MaxFailedLogins \in Nat \ {0} /\ MaxPasswords \in Nat

Roles == {"STUDENT", "TEACHER", "ADMIN", "MASTER"}
AccountStatuses == {"ACTIVE", "SUSPENDED", "DISABLED", "PENDING"}

VARIABLES
  account,   \* account[n]: the row with phone n
  openAs,    \* openAs[n]: the passwords its ACTIVE sessions were opened with
  guesses,   \* guesses[n]: history: wrong passwords since it was last unlocked or opened
  hasty      \* history: an account was read by one request and written by another before the first wrote

accountVars == <<account, openAs, guesses, hasty>>

NoAccount ==
  [role |-> "NONE", status |-> "PENDING", deleted |-> FALSE, password |-> 0, failed |-> 0, lock |-> "none"]

NewAccount(role) == [NoAccount EXCEPT !.role = role, !.status = "ACTIVE"]

AccountInit ==
  /\ account = [n \in Numbers |-> NoAccount]
  /\ openAs = [n \in Numbers |-> {}]
  /\ guesses = [n \in Numbers |-> 0] /\ hasty = FALSE

\* Somebody else is between reading and writing account n.
OthersAt(p, n) == \E q \in Calls \ {p} : call[q].op # "idle" /\ call[q].who = n

WriteRow(p, n) == hasty' = (hasty \/ OthersAt(p, n))

Start(p, op, saw, n) == At(p, "idle") /\ Go(p, op, saw, n) /\ UNCHANGED accountVars

-----------------------------------------------------------------------------
\* register or createStaff: the number is free.  Nobody creates a MASTER, and only the MASTER
\* an ADMIN; anyone registers as a student.
BeginCreate(p, n, role, actor) ==
  /\ account[n] = NoAccount
  /\ role # "MASTER" /\ (role = "ADMIN" => actor = "MASTER") /\ (actor = "NONE" => role = "STUDENT")
  /\ Start(p, "create", role, n)

\* The phone is unique: the second of two is refused.  Who registers is signed in at once.
createAccount(p) ==
  LET n == call[p].who IN
  /\ At(p, "create")
  /\ IF account[n] = NoAccount
     THEN account' = [account EXCEPT ![n] = NewAccount(call[p].saw)] ELSE UNCHANGED account
  /\ IF account[n] = NoAccount /\ call[p].saw = "STUDENT" THEN Go(p, "establish", 0, n) ELSE End(p)
  /\ WriteRow(p, n)
  /\ UNCHANGED <<openAs, guesses>>

\* verifyCredentials: a locked or deleted account is refused before the password is looked at.
verifyCredentials(p, n, right) ==
  /\ account[n] # NoAccount /\ ~account[n].deleted /\ account[n].lock # "on"
  /\ Start(p, IF right THEN "login" ELSE "failed", account[n], n)

\* The count goes on from the one that was read, or starts again after a lock.
NextCount(row) == (IF row.lock = "over" THEN 0 ELSE row.failed) + 1

registerFailedAttempt(p) ==
  LET n == call[p].who  next == NextCount(call[p].saw) IN
  /\ At(p, "failed")
  /\ account' = [account EXCEPT ![n].failed = next, ![n].lock = IF next >= MaxFailedLogins THEN "on" ELSE "none"]
  /\ guesses' = [guesses EXCEPT ![n] = @ + 1]
  /\ WriteRow(p, n) /\ End(p)
  /\ UNCHANGED openAs

LockRunsOut(n) ==
  /\ account[n].lock = "on"
  /\ account' = [account EXCEPT ![n].lock = "over"]
  /\ guesses' = [guesses EXCEPT ![n] = 0]
  /\ UNCHANGED <<openAs, hasty, call>>

\* login, on the account as it was read: the password may be hashed again, and written.
login(p, rehash) ==
  LET n == call[p].who  saw == call[p].saw IN
  /\ At(p, "login")
  /\ IF saw.status = "ACTIVE"
     THEN /\ account' = [account EXCEPT ![n].failed = 0, ![n].lock = "none",
                                        ![n].password = IF rehash THEN saw.password ELSE @]
          /\ guesses' = [guesses EXCEPT ![n] = 0]
          /\ WriteRow(p, n) /\ Go(p, "establish", saw.password, n)
     ELSE UNCHANGED <<account, guesses, hasty>> /\ End(p)
  /\ UNCHANGED openAs

establishSession(p) ==
  LET n == call[p].who IN
  /\ At(p, "establish")
  /\ openAs' = [openAs EXCEPT ![n] = @ \cup {call[p].saw}]
  /\ WriteRow(p, n) /\ End(p)
  /\ UNCHANGED <<account, guesses>>

-----------------------------------------------------------------------------
\* assertCanManage.
assertCanManage(actor, role) == role # "MASTER" /\ (actor = "MASTER" \/ role # "ADMIN")

\* An administrator is about to change an account.
BeginManage(p, n, actor) ==
  /\ account[n] # NoAccount /\ ~account[n].deleted /\ assertCanManage(actor, account[n].role)
  /\ Start(p, "manage", "checked", n)

\* Mutant: a suspended account keeps its sessions.
updateByAdmin_KeepsSessions(p, status) ==
  LET n == call[p].who IN
  /\ At(p, "manage")
  /\ account' = [account EXCEPT ![n].status = status]
  /\ WriteRow(p, n) /\ End(p)
  /\ UNCHANGED <<openAs, guesses>>

\* updateByAdmin: suspending or disabling ends every session.
updateByAdmin(p, status) ==
  LET n == call[p].who IN
  /\ At(p, "manage")
  /\ account' = [account EXCEPT ![n].status = status]
  /\ openAs' = IF status \in {"SUSPENDED", "DISABLED"} THEN [openAs EXCEPT ![n] = {}] ELSE openAs
  /\ WriteRow(p, n) /\ End(p)
  /\ UNCHANGED guesses

resetPasswordByAdmin(p) ==
  LET n == call[p].who IN
  /\ At(p, "manage") /\ account[n].password < MaxPasswords
  /\ account' = [account EXCEPT ![n].password = @ + 1, ![n].failed = 0, ![n].lock = "none"]
  /\ openAs' = [openAs EXCEPT ![n] = {}]
  /\ guesses' = [guesses EXCEPT ![n] = 0]
  /\ WriteRow(p, n) /\ End(p)

\* softDelete also frees the number; the account stays under its old one here.
softDelete(p) ==
  LET n == call[p].who IN
  /\ At(p, "manage")
  /\ account' = [account EXCEPT ![n].deleted = TRUE, ![n].status = "DISABLED"]
  /\ openAs' = [openAs EXCEPT ![n] = {}]
  /\ WriteRow(p, n) /\ End(p)
  /\ UNCHANGED guesses

\* changePassword, by staff with an open session and the password it has now ...
BeginChangePassword(p, n) ==
  /\ openAs[n] # {} /\ account[n].role \notin {"STUDENT", "NONE"}
  /\ Start(p, "changePassword", "checked", n)

\* ... and every session ends, this one too.
changePassword(p) ==
  LET n == call[p].who IN
  /\ At(p, "changePassword") /\ account[n].password < MaxPasswords
  /\ account' = [account EXCEPT ![n].password = @ + 1]
  /\ openAs' = [openAs EXCEPT ![n] = {}]
  /\ WriteRow(p, n) /\ End(p)
  /\ UNCHANGED guesses

AccountNext ==
  \/ \E n \in Numbers : LockRunsOut(n)
  \/ \E p \in Calls, n \in Numbers :
       \/ \E role \in Roles, actor \in {"NONE", "ADMIN", "MASTER"} : BeginCreate(p, n, role, actor)
       \/ \E right \in BOOLEAN : verifyCredentials(p, n, right)
       \/ \E actor \in {"ADMIN", "MASTER"} : BeginManage(p, n, actor)
       \/ BeginChangePassword(p, n)
  \/ \E p \in Calls :
       \/ createAccount(p) \/ registerFailedAttempt(p) \/ establishSession(p) \/ changePassword(p)
       \/ \E rehash \in BOOLEAN : login(p, rehash)
       \/ \E status \in AccountStatuses : updateByAdmin(p, status)
       \/ resetPasswordByAdmin(p) \/ softDelete(p)

AccountSpec == HandlersInit /\ AccountInit /\ [][AccountNext]_<<call, accountVars>>

-----------------------------------------------------------------------------
\* JwtAuthGuard: a session of an account that is neither deleted nor barred.
authenticate(n) == openAs[n] # {} /\ ~account[n].deleted /\ account[n].status \notin {"SUSPENDED", "DISABLED"}

\* Requests that overlap apart, an account takes no more wrong passwords than its limit before
\* it is locked, whatever is locked, unlocked, reset and tried again in between; an account that
\* was suspended, deleted or given a new password has no session left from before; and a request
\* is let in only on the password the account has now (registerFailedAttempt, updateByAdmin,
\* resetPasswordByAdmin, changePassword, JwtAuthGuard.attach).
SessionsMatchAccount ==
  ~hasty => \A n \in Numbers :
    /\ guesses[n] <= MaxFailedLogins
    /\ openAs[n] # {} => authenticate(n)
    /\ authenticate(n) => openAs[n] = {account[n].password}
=============================================================================
