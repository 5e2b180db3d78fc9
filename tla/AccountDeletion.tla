-------------------------- MODULE AccountDeletion --------------------------
(***************************************************************************)
(* Deleting a student's account: the request and its 30 days of grace, the *)
(* hourly sweep, the physical settlement of a wallet that still holds      *)
(* credit, and the erasure (src/modules/account-deletion).                 *)
(*                                                                         *)
(* The Redis lock admits one sweep at a time, so there is one sweep, which *)
(* may crash between any two of its statements.  erase() is a transaction  *)
(* at the default isolation: its checks and its commit are two steps, and  *)
(* an adjustment of the wallet may fall between them.                      *)
(***************************************************************************)
EXTENDS Wallet, FiniteSetsExt

CONSTANTS
  MaxDeletions,   \* bound on the table of deletion requests
  MaxAttempts,    \* DELETION_MAX_ATTEMPTS
  MaxCrashes      \* bound on the crashes of the sweeping process

ASSUME DeletionAssumption ==
  /\ MaxDeletions \in Nat /\ MaxAttempts \in Nat \ {0} /\ MaxCrashes \in Nat
  /\ 1..MaxDeletions \subseteq Refs

VARIABLES
  deletion,   \* deletion[q]: account_deletion_requests, ids in order of creation
  sweep,      \* the sweep in flight: where it is and what it has read
  crashes

deletionVars == <<vars, deletion, sweep, crashes>>

DeletionIds == 1..MaxDeletions
NoDeletion ==
  [user |-> NoOne, status |-> "NONE", due |-> FALSE, attempts |-> 0, failed |-> FALSE,
   held |-> FALSE, settled |-> FALSE, amount |-> 0]

DeletionInit ==
  /\ Init
  /\ deletion = [q \in DeletionIds |-> NoDeletion]
  /\ sweep = [at |-> "idle"]
  /\ crashes = 0

Set(q, row) == deletion' = [deletion EXCEPT ![q] = row]
NotSweeping == UNCHANGED <<sweep, crashes>>

-----------------------------------------------------------------------------
\* The account holder.

OpenStatuses == {"PENDING", "PROCESSING"}

\* findOpen.
Open(u) == \E q \in DeletionIds : deletion[q].user = u /\ deletion[q].status \in OpenStatuses

\* A request ends every session, and login refuses an account with an open one.
SignedIn(u) == user[u] = "ACTIVE" /\ ~Open(u)

\* request: the row and the end of every session.  Two requests at once are
\* settled by the unique index on PENDING rows.
requestDeletion(u) ==
  \E q \in DeletionIds :
    /\ SignedIn(u)
    /\ deletion[q].status = "NONE"
    /\ \A p \in 1..(q - 1) : deletion[p].status # "NONE"
    /\ Set(q, [NoDeletion EXCEPT !.user = u, !.status = "PENDING"])
    /\ NotSweeping /\ UNCHANGED vars

\* The 30 days pass.
GracePasses(q) ==
  /\ deletion[q].status = "PENDING" /\ ~deletion[q].due
  /\ Set(q, [deletion[q] EXCEPT !.due = TRUE])
  /\ NotSweeping /\ UNCHANGED vars

\* cancel: one conditional update, within the grace period.
cancel(q) ==
  /\ deletion[q].status = "PENDING" /\ ~deletion[q].due
  /\ Set(q, [deletion[q] EXCEPT !.status = "CANCELLED"])
  /\ NotSweeping /\ UNCHANGED vars

-----------------------------------------------------------------------------
\* The administrator.

\* retryFailed.
retryFailed(q) ==
  /\ deletion[q].status = "PENDING" /\ deletion[q].failed
  /\ Set(q, [deletion[q] EXCEPT !.failed = FALSE, !.attempts = 0])
  /\ NotSweeping /\ UNCHANGED vars

\* cancelFailed.
cancelFailed(q) ==
  /\ deletion[q].status = "PENDING" /\ deletion[q].failed
  /\ Set(q, [deletion[q] EXCEPT !.status = "CANCELLED"])
  /\ NotSweeping /\ UNCHANGED vars

\* Mutant: a settlement can be confirmed once more.
Settleable_Again(q) == deletion[q].held

\* confirmSettlement refuses a request that is not held or already settled.
Settleable(q) == deletion[q].held /\ ~deletion[q].settled

\* confirmSettlement: the whole balance is paid out and the request released.
confirmSettlement(q) ==
  LET u == deletion[q].user
      balance == wallet[u].balance
  IN  /\ Settleable(q)
      /\ IF balance > 0
         THEN Move(u, "REFUND", "DEBIT", balance, <<"settlement", q>>)
         ELSE UNCHANGED walletVars
      /\ Set(q, [deletion[q] EXCEPT !.settled = TRUE, !.amount = balance])
      /\ NotSweeping
      /\ UNCHANGED <<code, redemptions, user, revenue, request>>

-----------------------------------------------------------------------------
\* The sweep.

\* Mutant: a request that was claimed before a crash is not taken up again.
DueRows_PendingOnly ==
  {q \in DeletionIds : /\ deletion[q].status = "PENDING" /\ deletion[q].due
                       /\ ~deletion[q].failed
                       /\ deletion[q].held => deletion[q].settled}

\* Mutant: requests that hold for settlement are swept like the others.
DueRows_Held ==
  {q \in DeletionIds : /\ ~deletion[q].failed
                       /\ \/ deletion[q].status = "PENDING" /\ deletion[q].due
                          \/ deletion[q].status = "PROCESSING"}

\* The rows the sweep finds: due or left behind by a crash, not stopped, and not
\* waiting for a settlement.
DueRows ==
  {q \in DeletionIds : /\ ~deletion[q].failed
                       /\ deletion[q].held => deletion[q].settled
                       /\ \/ deletion[q].status = "PENDING" /\ deletion[q].due
                          \/ deletion[q].status = "PROCESSING"}

Current == Min(DOMAIN sweep.seen)
CurrentUser == sweep.seen[Current].user
Attempt == sweep.seen[Current].attempts + 1

Goto(at) == sweep' = [sweep EXCEPT !.at = at] /\ UNCHANGED crashes
NextRow ==
  /\ sweep' = IF DOMAIN sweep.seen = {Current} THEN [at |-> "idle"]
              ELSE [at |-> "balance",
                    seen |-> [q \in DOMAIN sweep.seen \ {Current} |-> sweep.seen[q]]]
  /\ UNCHANGED crashes

\* sweep: the due rows are read once, oldest first.
SweepReads ==
  /\ sweep.at = "idle" /\ DueRows # {}
  /\ sweep' = [at |-> "balance",
               seen |-> [q \in DueRows |->
                 [user |-> deletion[q].user, status |-> deletion[q].status,
                  settled |-> deletion[q].settled, attempts |-> deletion[q].attempts]]]
  /\ UNCHANGED <<vars, deletion, crashes>>

\* sweep: the balance decides; a settled request whose wallet has been credited
\* again is left to an administrator.
SweepBalance ==
  /\ sweep.at = "balance"
  /\ \/ wallet[CurrentUser].balance = 0 /\ Goto("claim")
     \/ wallet[CurrentUser].balance > 0 /\ sweep.seen[Current].settled /\ NextRow
     \/ wallet[CurrentUser].balance > 0 /\ ~sweep.seen[Current].settled /\ Goto("hold")
  /\ UNCHANGED <<vars, deletion>>

\* sweep: the hold.
SweepHolds ==
  /\ sweep.at = "hold"
  /\ IF deletion[Current].held \/ deletion[Current].settled
     THEN UNCHANGED deletion
     ELSE Set(Current, [deletion[Current] EXCEPT !.held = TRUE])
  /\ NextRow /\ UNCHANGED vars

\* sweep: a PENDING row is claimed conditionally, a PROCESSING one is taken up
\* again whatever has happened to it.
SweepClaims ==
  /\ sweep.at = "claim"
  /\ LET row == deletion[Current]
     IN  IF sweep.seen[Current].status = "PENDING" /\ ~(row.status = "PENDING" /\ row.due)
         THEN UNCHANGED deletion /\ NextRow
         ELSE /\ Set(Current, [row EXCEPT !.attempts = @ + 1,
                   !.status = IF sweep.seen[Current].status = "PENDING"
                              THEN "PROCESSING" ELSE @])
              /\ Goto("erase")
  /\ UNCHANGED vars

\* erase: the checks, inside its transaction.
EraseChecks ==
  /\ sweep.at = "erase"
  /\ Goto(IF deletion[Current].status = "PROCESSING" /\ wallet[CurrentUser].balance = 0
          THEN "commit" ELSE "failed")
  /\ UNCHANGED <<vars, deletion>>

\* erase: the identity goes, the request is COMPLETED.
erase ==
  /\ sweep.at = "commit"
  /\ user' = [user EXCEPT ![CurrentUser] = "DELETED"]
  /\ Set(Current, [deletion[Current] EXCEPT !.status = "COMPLETED"])
  /\ NextRow
  /\ UNCHANGED <<code, redemptions, wallet, ledger, revenue, request>>

\* erase fails in the database and rolls back.
EraseFails ==
  /\ sweep.at = "commit" /\ Goto("failed")
  /\ UNCHANGED <<vars, deletion>>

Exhausted(attempt) == attempt >= MaxAttempts

\* sweep: a failed attempt returns the row to PENDING, or stops it.
SweepFails ==
  /\ sweep.at = "failed"
  /\ IF deletion[Current].status = "PROCESSING"
     THEN Set(Current, [deletion[Current] EXCEPT !.status = "PENDING",
                          !.failed = @ \/ Exhausted(Attempt)])
     ELSE UNCHANGED deletion
  /\ NextRow /\ UNCHANGED vars

\* The process dies; the lock lapses, and a later sweep starts over.
SweepCrashes ==
  /\ sweep.at # "idle" /\ crashes < MaxCrashes
  /\ sweep' = [at |-> "idle"] /\ crashes' = crashes + 1
  /\ UNCHANGED <<vars, deletion>>

-----------------------------------------------------------------------------
SweepStep ==
  \/ SweepReads \/ SweepBalance \/ SweepHolds \/ SweepClaims
  \/ EraseChecks \/ erase \/ SweepFails

HolderStep ==
  \/ \E u \in Students : requestDeletion(u)
  \/ \E q \in DeletionIds : cancel(q) \/ GracePasses(q)

AdminStep ==
  \E q \in DeletionIds : retryFailed(q) \/ cancelFailed(q) \/ confirmSettlement(q)

\* The wallet.  A sign-in that passed its check before the request can open a
\* session after it, so a student operation only needs an account that is ACTIVE;
\* of the cards, there are plain ones that nothing else happens to.
PlainCards ==
  /\ \E b \in Batches, t \in PrintTerms :
       generateRechargeBatch(b, t.face, t.type, t.discount, FALSE, NoOne, FALSE)
  /\ UNCHANGED <<user, wallet, ledger, revenue, request>>

DeletionWalletStep ==
  /\ \/ PlainCards
     \/ \E u \in Students : user[u] = "ACTIVE" /\ summary(u)
     \/ \E r \in Requests, u \in Students, c \in Codes :
          user[u] = "ACTIVE" /\ RedeemArrives(r, u, c)
     \/ \E r \in Requests, u \in Students, d \in Directions, a \in Amounts :
          AdjustChecks(r, u, d, a)
     \/ \E r \in Requests : redeemRechargeCode(r) \/ adjust(r) \/ RequestRefused(r)
  /\ UNCHANGED <<deletion, sweep, crashes>>

DeletionNext ==
  SweepStep \/ EraseFails \/ SweepCrashes \/ HolderStep \/ AdminStep \/ DeletionWalletStep

\* The scheduler repeats the sweep every hour on every API process, and a sweep
\* that does not crash goes on; students and administrators owe nothing.
DeletionSpec ==
  DeletionInit /\ [][DeletionNext]_deletionVars /\ WF_deletionVars(SweepStep)

-----------------------------------------------------------------------------
\* "Holding for settlement": an account on hold is not erased before its
\* settlement has been confirmed, even if the wallet has been emptied meanwhile.
HoldBlocksErasure ==
  \A q \in DeletionIds :
    (deletion[q].held /\ deletion[q].status = "COMPLETED") => deletion[q].settled

\* confirmSettlement: "the record can never claim an amount other than what the
\* ledger then moves", and money is never moved twice: a request has one ledger
\* row of its settled amount, or none when nothing was left to settle.
SettlementMatchesLedger ==
  \A q \in DeletionIds, u \in Students :
    LET paid == {i \in DOMAIN ledger[u] : ledger[u][i].key = <<"settlement", q>>}
        owed == deletion[q].settled /\ deletion[q].amount > 0 /\ deletion[q].user = u
    IN  /\ Cardinality(paid) = IF owed THEN 1 ELSE 0
        /\ \A i \in paid : ledger[u][i].amount = deletion[q].amount

\* "A restart or a skipped run only delays erasure": a request that is due is
\* erased, or ends up where an administrator sees it: stopped, on hold, or
\* settled with a wallet that was credited again.
DueRequestIsHandled ==
  \A q \in DeletionIds :
    (deletion[q].status \in OpenStatuses /\ deletion[q].due) ~>
      \/ deletion[q].status \notin OpenStatuses
      \/ deletion[q].failed
      \/ deletion[q].held /\ (deletion[q].settled => wallet[deletion[q].user].balance > 0)
=============================================================================
