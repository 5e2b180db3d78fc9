------------------------------- MODULE Wallet -------------------------------
(***************************************************************************)
(* The wallet and its credit ledger, src/modules/wallet/wallet.service.ts, *)
(* with the two operations that move credit into a wallet: a recharge card *)
(* and an administrator's adjustment.                                      *)
(*                                                                         *)
(* Every closure handed to withSerializableRetry runs Serializable and is  *)
(* re-run when it conflicts, so it is one action.  What a request reads    *)
(* BEFORE its closure (who the caller is, whether the student exists) is a *)
(* step of its own: the closure may commit on a stale answer.              *)
(***************************************************************************)
EXTENDS Codes, Sequences

CONSTANTS
  Requests,   \* ids of the HTTP requests in flight: a repeated click is two ids
  Amounts,    \* the amounts an administrator may type
  PrintTerms, \* the face values and discounts recharge cards are printed with
  MaxMoney,   \* the ceiling toPiastres enforces on a balance (MAX_PIASTRES)
  Refs,       \* what a ledger row's idempotency key may name
  NoKey       \* idempotencyKey = null

ASSUME WalletAssumption ==
  /\ Amounts \subseteq Nat
  /\ MaxMoney \in Nat
  /\ Codes \subseteq Refs
  /\ NoKey \notin {"recharge", "library", "settlement"} \X Refs
  /\ \A t \in PrintTerms : t.type \in DiscountTypes /\ t.face \in Nat /\ t.discount \in Nat

VARIABLES
  user,      \* user[u]: "ACTIVE" or "DELETED" (User.deletedAt)
  wallet,    \* wallet[u]: the wallets row; ~open before ensureWallet
  ledger,    \* ledger[u]: wallet_transactions of u, oldest first
  revenue,   \* revenue[c]: recharge_revenue rows of card c
  request    \* request[r]: what an in-flight request has read so far

walletVars == <<wallet, ledger>>
vars == <<code, redemptions, user, wallet, ledger, revenue, request>>

Directions == {"CREDIT", "DEBIT"}
LedgerTypes == {"CREDIT_RECHARGE", "ADMIN_ADJUSTMENT", "PURCHASE", "REFUND"}
Keys == {NoKey} \cup ({"recharge", "library", "settlement"} \X Refs)
LedgerRows ==
  [type : LedgerTypes, direction : Directions, amount : Nat,
   before : Int, after : Int, key : Keys]

Wallets == [open : BOOLEAN, balance : Int, totalRecharged : Nat, totalSpent : Nat]
NewWallet == [open |-> FALSE, balance |-> 0, totalRecharged |-> 0, totalSpent |-> 0]

\* A request slot: what the request still has to do, with what it has read.
RequestRows ==
  [op : {"idle", "done"}]
    \cup [op : {"redeem"}, user : Students, card : Codes]
    \cup [op : {"adjust"}, user : Students, direction : Directions, amount : Nat]

\* Every field has its type.
TypeOK ==
  /\ CodesTypeOK
  /\ user \in [Students -> {"ACTIVE", "DELETED"}]
  /\ wallet \in [Students -> Wallets]
  /\ ledger \in [Students -> Seq(LedgerRows)]
  /\ revenue \in [Codes -> Seq([user : Students, paid : Nat, credit : Nat])]
  /\ request \in [Requests -> RequestRows]

Init ==
  /\ CodesInit
  /\ user = [u \in Students |-> "ACTIVE"]
  /\ wallet = [u \in Students |-> NewWallet]
  /\ ledger = [u \in Students |-> <<>>]
  /\ revenue = [c \in Codes |-> <<>>]
  /\ request = [r \in Requests |-> [op |-> "idle"]]

-----------------------------------------------------------------------------
\* The balance move leaves: the two UPDATE statements of move().
BalanceAfter(u, direction, amount) ==
  IF direction = "CREDIT" THEN wallet[u].balance + amount
                          ELSE wallet[u].balance - amount

\* move() finds the key of this request already in the ledger.
Replayed(u, key) ==
  /\ key # NoKey
  /\ \E i \in DOMAIN ledger[u] : ledger[u][i].key = key

\* Mutant: the debit's WHERE clause loses "balance >= amount".
CanMove_Overdraw(u, direction, amount) ==
  /\ amount > 0 /\ amount <= MaxMoney
  /\ BalanceAfter(u, direction, amount) <= MaxMoney

\* move() refuses a zero amount, a debit the balance does not cover, and a
\* balance that no longer parses as money; each refusal rolls back.
CanMove(u, direction, amount) ==
  /\ amount > 0 /\ amount <= MaxMoney
  /\ direction = "DEBIT" => wallet[u].balance >= amount
  /\ BalanceAfter(u, direction, amount) <= MaxMoney

\* Mutant: the balance column is written but the ledger row is lost.
Move_NoRow(u, type, direction, amount, key) ==
  /\ CanMove(u, direction, amount)
  /\ wallet' = [wallet EXCEPT ![u].open = TRUE,
                              ![u].balance = BalanceAfter(u, direction, amount)]
  /\ ledger' = ledger

\* credit / debit / move: one conditional UPDATE and one ledger row, or, when
\* the key is known, nothing at all.
Move(u, type, direction, amount, key) ==
  LET after == BalanceAfter(u, direction, amount)
  IN  \/ /\ Replayed(u, key)
         /\ UNCHANGED walletVars
      \/ /\ ~Replayed(u, key)
         /\ CanMove(u, direction, amount)
         /\ wallet' = [wallet EXCEPT
              ![u] = [open |-> TRUE,
                      balance |-> after,
                      totalRecharged |-> IF direction = "CREDIT"
                        THEN @.totalRecharged + amount ELSE @.totalRecharged,
                      totalSpent |-> IF direction = "DEBIT"
                        THEN @.totalSpent + amount ELSE @.totalSpent]]
         /\ ledger' = [ledger EXCEPT ![u] = Append(@,
              [type |-> type, direction |-> direction, amount |-> amount,
               before |-> wallet[u].balance, after |-> after, key |-> key])]

\* ensureWallet, as the student's own balance screen calls it (summary).
summary(u) ==
  /\ user[u] = "ACTIVE" /\ ~wallet[u].open
  /\ wallet' = [wallet EXCEPT ![u].open = TRUE]
  /\ UNCHANGED <<code, redemptions, user, ledger, revenue, request>>

-----------------------------------------------------------------------------
Finish(r) == request' = [request EXCEPT ![r] = [op |-> "done"]]

\* A student's recharge request passes authentication.
RedeemArrives(r, u, c) ==
  /\ request[r].op = "idle" /\ user[u] = "ACTIVE"
  /\ request' = [request EXCEPT ![r] = [op |-> "redeem", user |-> u, card |-> c]]
  /\ UNCHANGED <<code, redemptions, user, wallet, ledger, revenue>>

\* Mutant: the cash-in row is written twice, once per attempt of the closure.
RecordRevenue_Twice(c, u) ==
  LET row == [user |-> u, paid |-> code[c].paid, credit |-> code[c].credit]
  IN  revenue' = [revenue EXCEPT ![c] = @ \o <<row, row>>]

\* The cash-in record of a redeemed card.
RecordRevenue(c, u) ==
  revenue' = [revenue EXCEPT ![c] = Append(@,
    [user |-> u, paid |-> code[c].paid, credit |-> code[c].credit])]

\* redeemRechargeCode.  A card worth nothing (a 100 % discount) moves no credit,
\* so nothing opens the wallet that the closure's last read requires.
redeemRechargeCode(r) ==
  LET u == request[r].user
      c == request[r].card
  IN  /\ request[r].op = "redeem"
      /\ CodeHonoured(c, u, "RECHARGE")
      /\ IF code[c].credit > 0
         THEN Move(u, "CREDIT_RECHARGE", "CREDIT", code[c].credit, <<"recharge", c>>)
         ELSE wallet[u].open /\ UNCHANGED walletVars
      /\ UseCode(c, u)
      /\ RecordRevenue(c, u)
      /\ Finish(r)
      /\ UNCHANGED user

\* adjust: the student is looked up before the transaction.
AdjustChecks(r, u, direction, amount) ==
  /\ request[r].op = "idle" /\ user[u] = "ACTIVE"
  /\ request' = [request EXCEPT ![r] =
       [op |-> "adjust", user |-> u, direction |-> direction, amount |-> amount]]
  /\ UNCHANGED <<code, redemptions, user, wallet, ledger, revenue>>

\* adjust: the transaction, which does not look again, and carries no key.
adjust(r) ==
  /\ request[r].op = "adjust"
  /\ Move(request[r].user, "ADMIN_ADJUSTMENT", request[r].direction,
          request[r].amount, NoKey)
  /\ Finish(r)
  /\ UNCHANGED <<code, redemptions, user, revenue>>

\* The closure of a request throws and rolls back: the answer is an error.
RequestRefused(r) ==
  LET q == request[r]
  IN  /\ \/ /\ q.op = "redeem"
            /\ \/ ~CodeHonoured(q.card, q.user, "RECHARGE")
               \/ /\ code[q.card].credit = 0
                  /\ ~wallet[q.user].open
               \/ /\ code[q.card].credit > 0
                  /\ ~Replayed(q.user, <<"recharge", q.card>>)
                  /\ ~CanMove(q.user, "CREDIT", code[q.card].credit)
         \/ q.op = "adjust" /\ ~CanMove(q.user, q.direction, q.amount)
      /\ Finish(r)
      /\ UNCHANGED <<code, redemptions, user, wallet, ledger, revenue>>

-----------------------------------------------------------------------------
\* What the codes service does to recharge cards on its own.
CodeStep ==
  /\ \/ \E b \in Batches, t \in PrintTerms, who \in Students \cup {NoOne},
           expires, override \in BOOLEAN :
          generateRechargeBatch(b, t.face, t.type, t.discount, override, who, expires)
     \/ \E c \in Codes : revoke(c) \/ ExpiryPasses(c)
     \/ \E b \in Batches : revokeBatch(b)
     \/ expireLapsedCodes
  /\ UNCHANGED <<user, wallet, ledger, revenue, request>>

WalletStep ==
  \/ \E u \in Students : summary(u)
  \/ \E r \in Requests, u \in Students, c \in Codes : RedeemArrives(r, u, c)
  \/ \E r \in Requests, u \in Students, d \in Directions, a \in Amounts :
       AdjustChecks(r, u, d, a)
  \/ \E r \in Requests : redeemRechargeCode(r) \/ adjust(r) \/ RequestRefused(r)

Next == CodeStep \/ WalletStep

Spec == Init /\ [][Next]_vars

-----------------------------------------------------------------------------
LastAfter(rows) == IF rows = <<>> THEN 0 ELSE rows[Len(rows)].after

\* "The ledger is the truth": each student's rows form an unbroken chain from
\* zero, each row moves the running balance by exactly its amount, and the
\* cached wallets.balance is where the chain ends (move, verifyIntegrity).
LedgerExplainsBalance ==
  \A u \in Students :
    /\ wallet[u].balance = LastAfter(ledger[u])
    /\ \A i \in 1..Len(ledger[u]) :
         LET row == ledger[u][i]
         IN  /\ row.before = IF i = 1 THEN 0 ELSE ledger[u][i - 1].after
             /\ row.after = IF row.direction = "CREDIT" THEN row.before + row.amount
                                                       ELSE row.before - row.amount

\* "A balance cannot go negative", now or at any point of the history, and it
\* never leaves the range the money parser can read back (toPiastres throws on
\* a stored balance above the ceiling, which would lock the wallet for good).
BalanceReadable ==
  \A u \in Students :
    /\ wallet[u].balance \in 0..MaxMoney
    /\ \A i \in 1..Len(ledger[u]) : ledger[u][i].after \in 0..MaxMoney

\* The lifetime totals agree with the cached balance.
TotalsAgree ==
  \A u \in Students :
    wallet[u].balance = wallet[u].totalRecharged - wallet[u].totalSpent

\* Card c's credit rows across all wallets, as <<student, position>>.
CreditRows(c) ==
  UNION {{<<u, i>> : i \in {j \in DOMAIN ledger[u] : ledger[u][j].key = <<"recharge", c>>}} : u \in Students}

\* redeemRechargeCode: a printed card is consumed by one student at most, every
\* redemption books its cash exactly once, and the credit that reached the
\* wallets because of the card is what the cash bought: no half-consumed card,
\* no orphan credit, no revenue without a redemption.
CardRedeemedWhole ==
  \A c \in Codes :
    LET takers == {u \in Students : <<c, u>> \in redemptions}
    IN  /\ Cardinality(takers) = code[c].count
        /\ code[c].count <= code[c].max
        /\ Len(revenue[c]) = code[c].count
        /\ \A i \in 1..Len(revenue[c]) :
             revenue[c][i].user \in takers /\ revenue[c][i].paid = code[c].paid
        /\ Cardinality(CreditRows(c)) = (IF code[c].credit > 0 THEN code[c].count ELSE 0)
        /\ \A w \in CreditRows(c) :
             w[1] \in takers /\ ledger[w[1]][w[2]].amount = code[c].paid
=============================================================================
