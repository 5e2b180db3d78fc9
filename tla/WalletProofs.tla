---------------------------- MODULE WalletProofs ----------------------------
(***************************************************************************)
(* Proofs about Wallet, and about the two components that take credit out  *)
(* of it, for any number of students, cards, requests, prices and crashes, *)
(* and every ceiling.  Library: what a student holds is what they bought,  *)
(* and what they bought is what their wallet paid for.  AccountDeletion: a *)
(* hold blocks the erasure, and what a settlement records is what the      *)
(* ledger paid out.                                                        *)
(***************************************************************************)
EXTENDS Library, AccountDeletion, FiniteSetTheorems, WellFoundedInduction, TLAPS

\* The inductive invariant: the chain of rows needs the types, and the next
\* row's range needs the chain to end at the cached balance.
WalletInv ==
  /\ wallet \in [Students -> Wallets]
  /\ ledger \in [Students -> Seq(LedgerRows)]
  /\ LedgerExplainsBalance
  /\ BalanceReadable
  /\ TotalsAgree

\* A move leaves every wallet and every chain of rows well formed.
LEMMA MoveKeepsInv ==
  ASSUME NEW u \in Students, NEW type \in LedgerTypes, NEW direction \in Directions,
         NEW amount \in Nat, NEW key \in Keys,
         WalletInv, Move(u, type, direction, amount, key)
  PROVE  WalletInv'
<1>0. MaxMoney \in Nat
  BY WalletAssumption
<1> DEFINE after == BalanceAfter(u, direction, amount)
           row == [type |-> type, direction |-> direction, amount |-> amount,
                   before |-> wallet[u].balance, after |-> after, key |-> key]
<1>1. CASE UNCHANGED walletVars
  BY <1>1 DEF WalletInv, walletVars, LedgerExplainsBalance, BalanceReadable,
              TotalsAgree, LastAfter
<1>2. CASE ~UNCHANGED walletVars
  <2>1. /\ CanMove(u, direction, amount)
        /\ wallet' = [wallet EXCEPT
             ![u] = [open |-> TRUE,
                     balance |-> after,
                     totalRecharged |-> IF direction = "CREDIT"
                       THEN @.totalRecharged + amount ELSE @.totalRecharged,
                     totalSpent |-> IF direction = "DEBIT"
                       THEN @.totalSpent + amount ELSE @.totalSpent]]
        /\ ledger' = [ledger EXCEPT ![u] = Append(@, row)]
    BY <1>2 DEF Move, walletVars
  <2>2. /\ wallet[u] \in Wallets /\ ledger[u] \in Seq(LedgerRows)
        /\ wallet[u].balance \in 0..MaxMoney
        /\ wallet[u].balance = LastAfter(ledger[u])
        /\ wallet[u].balance = wallet[u].totalRecharged - wallet[u].totalSpent
    BY DEF WalletInv, BalanceReadable, LedgerExplainsBalance, TotalsAgree
  <2>3. /\ after \in 0..MaxMoney
        /\ after = IF direction = "CREDIT" THEN wallet[u].balance + amount
                                           ELSE wallet[u].balance - amount
    BY <1>0, <2>1, <2>2 DEF CanMove, BalanceAfter, Directions, Wallets
  <2>4. row \in LedgerRows
    BY <2>2, <2>3 DEF LedgerRows, Wallets
  <2>5. wallet' \in [Students -> Wallets]
    BY <2>1, <2>2, <2>3 DEF WalletInv, Wallets
  <2>6. ledger' \in [Students -> Seq(LedgerRows)]
    BY <2>1, <2>4 DEF WalletInv
  <2>7. /\ Len(ledger'[u]) = Len(ledger[u]) + 1
        /\ \A i \in 1..Len(ledger[u]) : ledger'[u][i] = ledger[u][i]
        /\ ledger'[u][Len(ledger[u]) + 1] = row
        /\ ledger'[u] # <<>>
        /\ \A v \in Students \ {u} : ledger'[v] = ledger[v] /\ wallet'[v] = wallet[v]
        /\ wallet'[u].balance = after
    BY <2>1, <2>2, <2>4 DEF WalletInv
  <2>11. row.after = after
    OBVIOUS
  <2>12. /\ Len(ledger[u]) \in Nat
         /\ \A i \in 1..Len(ledger'[u]) : i \in 1..Len(ledger[u]) \/ i = Len(ledger[u]) + 1
    BY <2>2, <2>7
  <2>8. TotalsAgree'
    BY <2>1, <2>2, <2>3, <2>7 DEF WalletInv, TotalsAgree, Wallets, Directions
  <2>9. BalanceReadable'
    <3> SUFFICES ASSUME NEW v \in Students
                 PROVE  /\ wallet'[v].balance \in 0..MaxMoney
                        /\ \A i \in 1..Len(ledger'[v]) : ledger'[v][i].after \in 0..MaxMoney
      BY DEF BalanceReadable
    <3>1. CASE v # u
      BY <3>1, <2>7 DEF WalletInv, BalanceReadable
    <3>2. CASE v = u
      <4>1. \A i \in 1..Len(ledger[u]) : ledger[u][i].after \in 0..MaxMoney
        BY DEF WalletInv, BalanceReadable
      <4>2. ledger'[u][Len(ledger[u]) + 1].after = after
        BY <2>7, <2>11
      <4> HIDE DEF row, after
      <4>3. \A i \in 1..Len(ledger'[u]) : ledger'[u][i].after \in 0..MaxMoney
        BY <4>1, <4>2, <2>3, <2>7, <2>12
      <4> QED
        BY <3>2, <4>3, <2>3, <2>7
    <3> QED
      BY <3>1, <3>2
  <2>10. LedgerExplainsBalance'
    <3> SUFFICES ASSUME NEW v \in Students
                 PROVE  /\ wallet'[v].balance = LastAfter(ledger'[v])
                        /\ \A i \in 1..Len(ledger'[v]) :
                             LET q == ledger'[v][i]
                             IN  /\ q.before = IF i = 1 THEN 0 ELSE ledger'[v][i - 1].after
                                 /\ q.after = IF q.direction = "CREDIT"
                                              THEN q.before + q.amount
                                              ELSE q.before - q.amount
      BY DEF LedgerExplainsBalance, LastAfter
    <3>1. CASE v # u
      BY <3>1, <2>7 DEF WalletInv, LedgerExplainsBalance, LastAfter
    <3>2. CASE v = u
      <4>1. Len(ledger[u]) \in Nat /\ (Len(ledger[u]) = 0 <=> ledger[u] = <<>>)
        BY <2>2
      <4>2. wallet'[u].balance = LastAfter(ledger'[u])
        BY <4>1, <2>7 DEF LastAfter
      <4>3. ASSUME NEW i \in 1..Len(ledger[u])
            PROVE  LET q == ledger'[u][i]
                   IN  /\ q.before = IF i = 1 THEN 0 ELSE ledger'[u][i - 1].after
                       /\ q.after = IF q.direction = "CREDIT"
                                    THEN q.before + q.amount
                                    ELSE q.before - q.amount
        <5>1. i # 1 => i - 1 \in 1..Len(ledger[u])
          BY <4>1
        <5>2. LET q == ledger[u][i]
              IN  /\ q.before = IF i = 1 THEN 0 ELSE ledger[u][i - 1].after
                  /\ q.after = IF q.direction = "CREDIT"
                               THEN q.before + q.amount
                               ELSE q.before - q.amount
          BY DEF WalletInv, LedgerExplainsBalance
        <5>3. /\ ledger'[u][i] = ledger[u][i]
              /\ i # 1 => ledger'[u][i - 1] = ledger[u][i - 1]
          BY <5>1, <2>7
        <5> QED
          BY <5>2, <5>3
      <4>4. LET q == row
            IN  /\ q.before = IF Len(ledger[u]) + 1 = 1 THEN 0
                              ELSE ledger'[u][Len(ledger[u])].after
                /\ q.after = IF q.direction = "CREDIT" THEN q.before + q.amount
                                                      ELSE q.before - q.amount
        BY <4>1, <2>2, <2>3, <2>7 DEF LastAfter
      <4> HIDE DEF row
      <4>6. (Len(ledger[u]) + 1) - 1 = Len(ledger[u])
        BY <4>1
      <4> QED
        BY <3>2, <4>2, <4>3, <4>4, <4>6, <2>7, <2>12
    <3> QED
      BY <3>1, <3>2
  <2> QED
    BY <2>5, <2>6, <2>8, <2>9, <2>10 DEF WalletInv
<1> QED
  BY <1>1, <1>2

\* resolveDiscount never prints a card with a negative price or credit: what
\* is paid is what is credited, and neither exceeds the face value.
LEMMA DiscountSound ==
  ASSUME NEW face \in Nat, NEW discount \in Nat, NEW type \in DiscountTypes,
         DiscountAccepted(face, type, discount)
  PROVE  LET money == resolveDiscount(face, type, discount)
         IN  /\ money.face \in Nat /\ money.paid \in Nat /\ money.credit \in Nat
             /\ money.credit = money.paid /\ money.paid <= money.face
<1>1. percentOf(face, discount) \in Int
  <2>1. face * discount + 5000 \in Int
    OBVIOUS
  <2> QED
    BY <2>1 DEF percentOf
<1>2. DiscountPiastres(face, type, discount) \in Int
  BY <1>1 DEF DiscountPiastres, DiscountTypes
<1>3. DiscountPiastres(face, type, discount) \in Nat
  <2>1. CASE type = "PERCENTAGE"
    <3>1. /\ face * discount \in Nat
          /\ face * discount + 5000 \in Nat
      OBVIOUS
    <3>2. percentOf(face, discount) \in Nat
      <4> DEFINE k == face * discount + 5000
      <4>1. k \in Nat
        BY <3>1
      <4> HIDE DEF k
      <4>2. k \div 10000 \in Nat
        BY <4>1
      <4> QED
        BY <4>2 DEF percentOf, k
    <3> QED
      BY <2>1, <3>2 DEF DiscountPiastres
  <2>2. CASE type # "PERCENTAGE"
    BY <2>2 DEF DiscountPiastres, DiscountTypes
  <2> QED
    BY <2>1, <2>2
<1> QED
  BY <1>3 DEF resolveDiscount, DiscountAccepted

\* A step of the codes service keeps the code table well typed.
LEMMA CodeStepType ==
  ASSUME CodesTypeOK, CodeStep
  PROVE  CodesTypeOK'
<1> USE DEF CodesTypeOK
<1>1. ASSUME NEW b \in Batches, NEW t \in PrintTerms,
             NEW who \in Students \cup {NoOne},
             NEW expires \in BOOLEAN, NEW override \in BOOLEAN,
             generateRechargeBatch(b, t.face, t.type, t.discount, override, who, expires)
      PROVE  CodesTypeOK'
  <2> DEFINE money == resolveDiscount(t.face, t.type, t.discount)
             terms == [UnissuedRow EXCEPT
               !.kind = "RECHARGE", !.status = "ACTIVE",
               !.reserved = who, !.expires = expires,
               !.face = money.face, !.paid = money.paid, !.credit = money.credit]
  <2>1. t.face \in Nat /\ t.discount \in Nat /\ t.type \in DiscountTypes
    BY WalletAssumption
  <2>2. money.face \in Nat /\ money.paid \in Nat /\ money.credit \in Nat
    BY <1>1, <2>1, DiscountSound DEF generateRechargeBatch
  <2>3. IssueBatch(b, terms)
    BY <1>1 DEF generateRechargeBatch
  <2> HIDE DEF money
  <2>4. terms \in CodeRows
    BY <2>2 DEF CodeRows, UnissuedRow, CodeStatuses, CodeKinds
  <2> HIDE DEF terms
  <2> QED
    BY <2>3, <2>4 DEF IssueBatch
<1>2. ASSUME NEW c \in Codes, revoke(c) \/ ExpiryPasses(c)
      PROVE  CodesTypeOK'
  <2>1. code[c] \in CodeRows
    OBVIOUS
  <2>2. \A st \in CodeStatuses : [code[c] EXCEPT !.status = st] \in CodeRows
    BY <2>1 DEF CodeRows
  <2>3. [code[c] EXCEPT !.lapsed = TRUE] \in CodeRows
    BY <2>1 DEF CodeRows
  <2>4. "REVOKED" \in CodeStatuses
    BY DEF CodeStatuses
  <2> QED
    BY <1>2, <2>2, <2>3, <2>4 DEF revoke, ExpiryPasses
<1>3. ASSUME NEW b \in Batches, revokeBatch(b)
      PROVE  CodesTypeOK'
  BY <1>3 DEF revokeBatch, CodeRows, CodeStatuses
<1>4. ASSUME expireLapsedCodes
      PROVE  CodesTypeOK'
  BY <1>4 DEF expireLapsedCodes, CodeRows, CodeStatuses
<1> QED
  BY <1>1, <1>2, <1>3, <1>4 DEF CodeStep

RevenueRows == [user : Students, paid : Nat, credit : Nat]

\* The whole inductive invariant of the wallet.
WalletIInv == TypeOK /\ WalletInv

LEMMA InitKeepsInv == Init => WalletIInv
<1> SUFFICES ASSUME Init PROVE WalletIInv
  OBVIOUS
<1>1. /\ 0 \in 0..MaxMoney /\ MaxMoney \in Nat
  BY WalletAssumption
<1>2. UnissuedRow \in CodeRows
  BY DEF UnissuedRow, CodeRows, CodeStatuses, CodeKinds
<1>3. NewWallet \in Wallets /\ NewWallet.balance = 0
      /\ NewWallet.totalRecharged = 0 /\ NewWallet.totalSpent = 0
  BY DEF NewWallet, Wallets
<1>4. TypeOK
  BY <1>2, <1>3 DEF Init, TypeOK, CodesInit, CodesTypeOK, RequestRows
<1>5. WalletInv
  BY <1>1, <1>3 DEF Init, WalletInv, LedgerExplainsBalance, BalanceReadable, TotalsAgree, LastAfter
<1> QED
  BY <1>4, <1>5 DEF WalletIInv

\* Steps that leave wallets and ledger alone keep every fact about them.
LEMMA UnchangedKeepsInv ==
  ASSUME WalletInv, UNCHANGED walletVars
  PROVE  WalletInv'
BY DEF WalletInv, walletVars, LedgerExplainsBalance, BalanceReadable, TotalsAgree, LastAfter

LEMMA NextKeepsInv == WalletIInv /\ [Next]_vars => WalletIInv'
<1> SUFFICES ASSUME WalletIInv, [Next]_vars PROVE WalletIInv'
  OBVIOUS
<1> USE DEF WalletIInv
<1>1. CASE UNCHANGED vars
  <2>1. UNCHANGED walletVars
    BY <1>1 DEF vars, walletVars
  <2> QED
    BY <1>1, <2>1, UnchangedKeepsInv DEF vars, TypeOK, CodesTypeOK
<1>2. CASE CodeStep
  <2>1. UNCHANGED walletVars
    BY <1>2 DEF CodeStep, walletVars
  <2>2. CodesTypeOK'
    BY <1>2, CodeStepType DEF TypeOK
  <2> QED
    BY <1>2, <2>1, <2>2, UnchangedKeepsInv DEF CodeStep, TypeOK
<1>3. ASSUME NEW u \in Students, summary(u)
      PROVE  WalletIInv'
  <2>1. wallet[u] \in Wallets /\ [wallet[u] EXCEPT !.open = TRUE] \in Wallets
    BY DEF TypeOK, Wallets
  <2>2. wallet' \in [Students -> Wallets]
    BY <1>3, <2>1 DEF summary, TypeOK
  <2>3. ledger' = ledger /\ \A v \in Students :
          /\ wallet'[v].balance = wallet[v].balance
          /\ wallet'[v].totalRecharged = wallet[v].totalRecharged
          /\ wallet'[v].totalSpent = wallet[v].totalSpent
    BY <1>3, <2>1 DEF summary, TypeOK, Wallets
  <2>4. WalletInv'
    BY <2>2, <2>3 DEF WalletInv, LedgerExplainsBalance, BalanceReadable, TotalsAgree, LastAfter
  <2>5. TypeOK'
    BY <1>3, <2>2 DEF summary, TypeOK, CodesTypeOK
  <2> QED
    BY <2>4, <2>5
<1>4. ASSUME NEW r \in Requests, NEW u \in Students, NEW c \in Codes, RedeemArrives(r, u, c)
      PROVE  WalletIInv'
  <2>1. UNCHANGED walletVars
    BY <1>4 DEF RedeemArrives, walletVars
  <2>2. request' \in [Requests -> RequestRows]
    BY <1>4 DEF RedeemArrives, TypeOK, RequestRows
  <2> QED
    BY <1>4, <2>1, <2>2, UnchangedKeepsInv DEF RedeemArrives, TypeOK, CodesTypeOK
<1>5. ASSUME NEW r \in Requests, NEW u \in Students, NEW d \in Directions, NEW a \in Amounts,
             AdjustChecks(r, u, d, a)
      PROVE  WalletIInv'
  <2>1. UNCHANGED walletVars
    BY <1>5 DEF AdjustChecks, walletVars
  <2>2. a \in Nat
    BY WalletAssumption
  <2>3. request' \in [Requests -> RequestRows]
    BY <1>5, <2>2 DEF AdjustChecks, TypeOK, RequestRows
  <2> QED
    BY <1>5, <2>1, <2>3, UnchangedKeepsInv DEF AdjustChecks, TypeOK, CodesTypeOK
<1>6. ASSUME NEW r \in Requests, Finish(r)
      PROVE  request' \in [Requests -> RequestRows]
  BY <1>6 DEF Finish, TypeOK, RequestRows
<1>7. ASSUME NEW r \in Requests, redeemRechargeCode(r)
      PROVE  WalletIInv'
  <2> DEFINE u == request[r].user
             c == request[r].card
  <2>1. u \in Students /\ c \in Codes
    BY <1>7 DEF redeemRechargeCode, TypeOK, RequestRows
  <2> HIDE DEF u, c
  <2>2. code[c] \in CodeRows /\ code[c].credit \in Nat /\ code[c].paid \in Nat /\ code[c].count \in Nat
    BY <2>1 DEF TypeOK, CodesTypeOK, CodeRows
  <2>3. WalletInv'
    <3>1. CASE code[c].credit > 0
      <4>1. Move(u, "CREDIT_RECHARGE", "CREDIT", code[c].credit, <<"recharge", c>>)
        BY <1>7, <3>1 DEF redeemRechargeCode, u, c
      <4>2. /\ <<"recharge", c>> \in Keys
            /\ "CREDIT_RECHARGE" \in LedgerTypes /\ "CREDIT" \in Directions
        BY <2>1, WalletAssumption DEF Keys, LedgerTypes, Directions
      <4> QED
        BY <4>1, <4>2, <2>1, <2>2, MoveKeepsInv
    <3>2. CASE ~(code[c].credit > 0)
      BY <1>7, <3>2, UnchangedKeepsInv DEF redeemRechargeCode, c
    <3> QED
      BY <3>1, <3>2
  <2>4. UseCode(c, u) /\ RecordRevenue(c, u) /\ Finish(r) /\ UNCHANGED user
    BY <1>7 DEF redeemRechargeCode, u, c
  <2>5. CodesTypeOK'
    <3>1. \A n \in Nat, st \in CodeStatuses :
            [code[c] EXCEPT !.count = n, !.status = st] \in CodeRows
      BY <2>2 DEF CodeRows
    <3>2. code[c].count + 1 \in Nat /\ code[c].status \in CodeStatuses /\ "EXHAUSTED" \in CodeStatuses
      BY <2>2 DEF CodeRows, CodeStatuses
    <3> DEFINE st == IF code[c].count + 1 >= code[c].max THEN "EXHAUSTED" ELSE code[c].status
               row == [code[c] EXCEPT !.count = code[c].count + 1, !.status = st]
    <3>3. st \in CodeStatuses
      BY <3>2
    <3>4. row \in CodeRows
      BY <3>1, <3>2, <3>3
    <3>5. code' = [code EXCEPT ![c] = row] /\ redemptions' = redemptions \cup {<<c, u>>}
      BY <2>1, <2>4 DEF UseCode, TypeOK, CodesTypeOK
    <3> HIDE DEF row
    <3>6. code' \in [Codes -> CodeRows]
      BY <3>4, <3>5, <2>1 DEF TypeOK, CodesTypeOK
    <3> QED
      BY <2>1, <3>5, <3>6 DEF TypeOK, CodesTypeOK
  <2>6. revenue' \in [Codes -> Seq(RevenueRows)]
    <3> DEFINE row == [user |-> u, paid |-> code[c].paid, credit |-> code[c].credit]
    <3>1. row \in RevenueRows
      BY <2>1, <2>2 DEF RevenueRows
    <3>2. revenue' = [revenue EXCEPT ![c] = Append(@, row)]
      BY <2>4 DEF RecordRevenue
    <3>3. revenue \in [Codes -> Seq(RevenueRows)]
      BY DEF TypeOK, RevenueRows
    <3> HIDE DEF row
    <3> QED
      BY <2>1, <3>1, <3>2, <3>3
  <2>7. request' \in [Requests -> RequestRows]
    BY <2>4, <1>6
  <2> QED
    BY <2>3, <2>4, <2>5, <2>6, <2>7 DEF TypeOK, WalletInv, RevenueRows
<1>8. ASSUME NEW r \in Requests, adjust(r)
      PROVE  WalletIInv'
  <2>1. /\ request[r].user \in Students /\ request[r].direction \in Directions
        /\ request[r].amount \in Nat
    BY <1>8 DEF adjust, TypeOK, RequestRows
  <2>2. NoKey \in Keys /\ "ADMIN_ADJUSTMENT" \in LedgerTypes
    BY DEF Keys, LedgerTypes
  <2>3. WalletInv'
    BY <1>8, <2>1, <2>2, MoveKeepsInv DEF adjust
  <2> QED
    BY <1>8, <1>6, <2>3 DEF adjust, TypeOK, CodesTypeOK, WalletInv
<1>9. ASSUME NEW r \in Requests, RequestRefused(r)
      PROVE  WalletIInv'
  <2>1. UNCHANGED walletVars
    BY <1>9 DEF RequestRefused, walletVars
  <2> QED
    BY <1>9, <1>6, <2>1, UnchangedKeepsInv DEF RequestRefused, TypeOK, CodesTypeOK
<1> QED
  BY <1>1, <1>2, <1>3, <1>4, <1>5, <1>7, <1>8, <1>9 DEF Next, WalletStep

\* Type correctness of the wallet, for every instance.
THEOREM WalletTypes == Spec => []TypeOK
<1>1. Spec => []WalletIInv
  BY InitKeepsInv, NextKeepsInv, PTL DEF Spec
<1>2. WalletIInv => TypeOK
  BY DEF WalletIInv
<1> QED
  BY <1>1, <1>2, PTL

\* verifyIntegrity can never report a difference: in every reachable state each
\* wallet's cached balance is the end of an unbroken chain of ledger rows.
THEOREM LedgerIsTruth == Spec => []LedgerExplainsBalance
<1>1. Spec => []WalletIInv
  BY InitKeepsInv, NextKeepsInv, PTL DEF Spec
<1>2. WalletIInv => LedgerExplainsBalance
  BY DEF WalletIInv, WalletInv
<1> QED
  BY <1>1, <1>2, PTL

\* No balance is ever negative or above the readable ceiling, whatever
\* recharges and adjustments race.
THEOREM BalanceStaysReadable == Spec => []BalanceReadable
<1>1. Spec => []WalletIInv
  BY InitKeepsInv, NextKeepsInv, PTL DEF Spec
<1>2. WalletIInv => BalanceReadable
  BY DEF WalletIInv, WalletInv
<1> QED
  BY <1>1, <1>2, PTL

\* The lifetime totals of a wallet always explain its balance.
THEOREM TotalsAlwaysAgree == Spec => []TotalsAgree
<1>1. Spec => []WalletIInv
  BY InitKeepsInv, NextKeepsInv, PTL DEF Spec
<1>2. WalletIInv => TotalsAgree
  BY DEF WalletIInv, WalletInv
<1> QED
  BY <1>1, <1>2, PTL

-----------------------------------------------------------------------------
\* The rows a move leaves.

\* A move appends one row, or has found its key and does nothing.
LEMMA MoveAppends ==
  ASSUME NEW u \in Students, NEW type \in LedgerTypes, NEW direction \in Directions,
         NEW amount \in Nat, NEW key \in Keys,
         WalletInv, Move(u, type, direction, amount, key)
  PROVE  \/ Replayed(u, key) /\ UNCHANGED walletVars
         \/ /\ ~Replayed(u, key) /\ amount > 0
            /\ Len(ledger[u]) + 1 \notin DOMAIN ledger[u]
            /\ DOMAIN ledger'[u] = DOMAIN ledger[u] \cup {Len(ledger[u]) + 1}
            /\ \A i \in DOMAIN ledger[u] : ledger'[u][i] = ledger[u][i]
            /\ ledger'[u][Len(ledger[u]) + 1] =
                 [type |-> type, direction |-> direction, amount |-> amount,
                  before |-> wallet[u].balance, after |-> BalanceAfter(u, direction, amount), key |-> key]
            /\ \A v \in Students \ {u} : ledger'[v] = ledger[v] /\ wallet'[v] = wallet[v]
            /\ wallet'[u].balance = BalanceAfter(u, direction, amount)
<1> DEFINE row == [type |-> type, direction |-> direction, amount |-> amount,
                   before |-> wallet[u].balance, after |-> BalanceAfter(u, direction, amount), key |-> key]
<1>1. CASE Replayed(u, key) /\ UNCHANGED walletVars
  BY <1>1
<1>2. CASE /\ ~Replayed(u, key) /\ CanMove(u, direction, amount)
           /\ ledger' = [ledger EXCEPT ![u] = Append(@, row)]
  <2>1. wallet[u].balance \in Int /\ BalanceAfter(u, direction, amount) \in Int
    BY DEF WalletInv, Wallets, BalanceAfter
  <2>2. row \in LedgerRows
    BY <2>1 DEF LedgerRows
  <2>3. ledger[u] \in Seq(LedgerRows) /\ ledger'[u] = Append(ledger[u], row)
        /\ \A v \in Students \ {u} : ledger'[v] = ledger[v]
    BY <1>2 DEF WalletInv
  <2>4. /\ \A v \in Students \ {u} : wallet'[v] = wallet[v]
        /\ wallet'[u].balance = BalanceAfter(u, direction, amount)
    BY <1>2 DEF Move, WalletInv
  <2> HIDE DEF row
  <2>5. /\ Len(ledger[u]) \in Nat /\ DOMAIN ledger[u] = 1..Len(ledger[u])
        /\ DOMAIN ledger'[u] = 1..(Len(ledger[u]) + 1)
        /\ \A i \in 1..Len(ledger[u]) : ledger'[u][i] = ledger[u][i]
        /\ ledger'[u][Len(ledger[u]) + 1] = row
    BY <2>2, <2>3
  <2>6. amount > 0
    BY <1>2 DEF CanMove
  <2> QED
    BY <1>2, <2>3, <2>4, <2>5, <2>6 DEF row
<1> QED
  BY <1>1, <1>2 DEF Move

\* What a credit row of a card is.
LEMMA CreditRowsAre ==
  ASSUME NEW c
  PROVE  \A w : w \in CreditRows(c) <=>
           \E u \in Students : \E i \in DOMAIN ledger[u] :
             w = <<u, i>> /\ ledger[u][i].key = <<"recharge", c>>
BY DEF CreditRows

-----------------------------------------------------------------------------
\* A printed card is consumed whole.

Takers(c) == {u \in Students : <<c, u>> \in redemptions}

\* What CardRedeemedWhole needs to be inductive: the sets it counts are finite, the credit of a
\* card is its price, and a card that is not printed yet has no uses.
CardWhole(c) ==
  /\ code[c].credit = code[c].paid
  /\ code[c].status = "UNISSUED" => code[c].count = 0
  /\ IsFiniteSet(Takers(c)) /\ Cardinality(Takers(c)) = code[c].count
  /\ code[c].count <= code[c].max
  /\ Len(revenue[c]) = code[c].count
  /\ \A i \in 1..Len(revenue[c]) :
       revenue[c][i].user \in Takers(c) /\ revenue[c][i].paid = code[c].paid
  /\ IsFiniteSet(CreditRows(c))
  /\ Cardinality(CreditRows(c)) = (IF code[c].credit > 0 THEN code[c].count ELSE 0)
  /\ \A w \in CreditRows(c) : w[1] \in Takers(c) /\ ledger[w[1]][w[2]].amount = code[c].paid

CardInv == \A c \in Codes : CardWhole(c)

\* A card nobody touches stays whole.
LEMMA CardKept ==
  ASSUME NEW c \in Codes, CardWhole(c),
         /\ code'[c].credit = code[c].credit /\ code'[c].paid = code[c].paid
         /\ code'[c].count = code[c].count /\ code'[c].max = code[c].max
         /\ code'[c].status = "UNISSUED" => code[c].status = "UNISSUED",
         Takers(c)' = Takers(c), revenue'[c] = revenue[c],
         CreditRows(c)' = CreditRows(c),
         \A w \in CreditRows(c) : ledger'[w[1]][w[2]] = ledger[w[1]][w[2]]
  PROVE  CardWhole(c)'
BY DEF CardWhole

\* Printing a card gives it a price that is its credit, and no use.
LEMMA CardPrinted ==
  ASSUME NEW c \in Codes, CardWhole(c), code \in [Codes -> CodeRows], code[c].status = "UNISSUED",
         code'[c].credit = code'[c].paid, code'[c].count = 0, code'[c].max = 1,
         UNCHANGED <<redemptions, ledger, revenue>>
  PROVE  CardWhole(c)'
<1>1. /\ code[c].count = 0 /\ Cardinality(Takers(c)) = 0 /\ IsFiniteSet(Takers(c))
      /\ Cardinality(CreditRows(c)) = 0 /\ IsFiniteSet(CreditRows(c))
  BY DEF CardWhole
<1>2. Takers(c) = {} /\ CreditRows(c) = {}
  BY <1>1, FS_EmptySet
<1>3. Takers(c)' = Takers(c) /\ CreditRows(c)' = CreditRows(c) /\ revenue'[c] = revenue[c]
  BY DEF Takers, CreditRows
<1>4. Len(revenue[c]) = 0
  BY <1>1 DEF CardWhole
<1> QED
  BY <1>1, <1>2, <1>3, <1>4 DEF CardWhole

LEMMA CodeStepKeepsCards ==
  ASSUME TypeOK, CardInv, CodeStep
  PROVE  CardInv'
<1>0. code \in [Codes -> CodeRows] /\ UNCHANGED <<ledger, revenue>>
  BY DEF TypeOK, CodesTypeOK, CodeStep
<1>1. ASSUME NEW c \in Codes,
             /\ code'[c].credit = code[c].credit /\ code'[c].paid = code[c].paid
             /\ code'[c].count = code[c].count /\ code'[c].max = code[c].max
             /\ code'[c].status = "UNISSUED" => code[c].status = "UNISSUED",
             UNCHANGED redemptions
      PROVE  CardWhole(c)'
  BY <1>0, <1>1, CardKept DEF CardInv, Takers, CreditRows
<1>2. ASSUME NEW b \in Batches, NEW t \in PrintTerms, NEW who, NEW expires, NEW override,
             generateRechargeBatch(b, t.face, t.type, t.discount, override, who, expires)
      PROVE  CardInv'
  <2> DEFINE money == resolveDiscount(t.face, t.type, t.discount)
             terms == [UnissuedRow EXCEPT
               !.kind = "RECHARGE", !.status = "ACTIVE",
               !.reserved = who, !.expires = expires,
               !.face = money.face, !.paid = money.paid, !.credit = money.credit]
  <2>1. money.credit = money.paid
    BY DEF resolveDiscount
  <2>2. IssueBatch(b, terms)
    BY <1>2 DEF generateRechargeBatch
  <2> HIDE DEF money
  <2>3. terms.credit = terms.paid /\ terms.count = 0 /\ terms.max = 1
    BY <2>1 DEF UnissuedRow
  <2> HIDE DEF terms
  <2> SUFFICES ASSUME NEW c \in Codes PROVE CardWhole(c)'
    BY DEF CardInv
  <2>4. CASE c \in b
    BY <1>0, <2>2, <2>3, <2>4, CardPrinted DEF IssueBatch, CardInv
  <2>5. CASE c \notin b
    BY <1>0, <1>1, <2>2, <2>5 DEF IssueBatch
  <2> QED
    BY <2>4, <2>5
<1>3. ASSUME NEW c \in Codes, revoke(c) \/ ExpiryPasses(c)
      PROVE  CardInv'
  <2>1. UNCHANGED redemptions /\ \A d \in Codes :
          /\ code'[d].credit = code[d].credit /\ code'[d].paid = code[d].paid
          /\ code'[d].count = code[d].count /\ code'[d].max = code[d].max
          /\ code'[d].status = "UNISSUED" => code[d].status = "UNISSUED"
    BY <1>0, <1>3 DEF revoke, ExpiryPasses, CodeRows
  <2> QED
    BY <1>1, <2>1 DEF CardInv
<1>4. ASSUME (\E b \in Batches : revokeBatch(b)) \/ expireLapsedCodes
      PROVE  CardInv'
  <2>1. UNCHANGED redemptions /\ \A d \in Codes :
          /\ code'[d].credit = code[d].credit /\ code'[d].paid = code[d].paid
          /\ code'[d].count = code[d].count /\ code'[d].max = code[d].max
          /\ code'[d].status = "UNISSUED" => code[d].status = "UNISSUED"
    BY <1>0, <1>4 DEF revokeBatch, expireLapsedCodes, CodeRows
  <2> QED
    BY <1>1, <2>1 DEF CardInv
<1> QED
  BY <1>2, <1>3, <1>4 DEF CodeStep

\* A move under a key that is not a card's leaves the card rows alone.
LEMMA OtherMovesKeepCards ==
  ASSUME NEW u \in Students, NEW type \in LedgerTypes, NEW direction \in Directions,
         NEW amount \in Nat, NEW key \in Keys,
         WalletInv, Move(u, type, direction, amount, key),
         NEW c, key # <<"recharge", c>>
  PROVE  /\ CreditRows(c)' = CreditRows(c)
         /\ \A w \in CreditRows(c) : ledger'[w[1]][w[2]] = ledger[w[1]][w[2]]
<1> DEFINE n == Len(ledger[u]) + 1
<1>1. CASE UNCHANGED walletVars
  BY <1>1 DEF walletVars, CreditRows
<1>2. CASE /\ n \notin DOMAIN ledger[u] /\ DOMAIN ledger'[u] = DOMAIN ledger[u] \cup {n}
           /\ \A i \in DOMAIN ledger[u] : ledger'[u][i] = ledger[u][i]
           /\ ledger'[u][n].key = key
           /\ \A v \in Students \ {u} : ledger'[v] = ledger[v]
  <2> HIDE DEF n
  <2>1. \A v \in Students : \A i \in DOMAIN ledger[v] : i \in DOMAIN ledger'[v] /\ ledger'[v][i] = ledger[v][i]
    BY <1>2
  <2>2. \A v \in Students : \A i \in DOMAIN ledger'[v] : i \in DOMAIN ledger[v] \/ ledger'[v][i].key = key
    BY <1>2
  <2>3. \A w : w \in CreditRows(c)' <=>
          \E v \in Students : \E i \in DOMAIN ledger'[v] :
            w = <<v, i>> /\ ledger'[v][i].key = <<"recharge", c>>
    BY DEF CreditRows
  <2>4. \A w : w \in CreditRows(c)' <=> w \in CreditRows(c)
    BY <2>1, <2>2, <2>3, CreditRowsAre
  <2>5. CreditRows(c)' = CreditRows(c)
    <3> DEFINE A == CreditRows(c)'
               B == CreditRows(c)
    <3> SUFFICES A = B
      OBVIOUS
    <3>1. \A w : w \in A <=> w \in B
      BY <2>4
    <3> HIDE DEF A, B
    <3> QED
      BY <3>1
  <2>6. ASSUME NEW w \in CreditRows(c)
        PROVE  ledger'[w[1]][w[2]] = ledger[w[1]][w[2]]
    <3>1. PICK v \in Students : \E i \in DOMAIN ledger[v] : w = <<v, i>>
      BY CreditRowsAre
    <3> QED
      BY <2>1, <3>1
  <2> QED
    BY <2>5, <2>6
<1>3. UNCHANGED walletVars \/
        (/\ n \notin DOMAIN ledger[u] /\ DOMAIN ledger'[u] = DOMAIN ledger[u] \cup {n}
         /\ \A i \in DOMAIN ledger[u] : ledger'[u][i] = ledger[u][i]
         /\ ledger'[u][n] = [type |-> type, direction |-> direction, amount |-> amount,
              before |-> wallet[u].balance, after |-> BalanceAfter(u, direction, amount), key |-> key]
         /\ \A v \in Students \ {u} : ledger'[v] = ledger[v])
  BY MoveAppends
<1> QED
  <2> HIDE DEF n
  <2> QED
    BY <1>1, <1>2, <1>3

\* The move of a card that this student has not used before adds its one credit row.
LEMMA OwnMoveCredits ==
  ASSUME WalletInv, NEW c \in Codes, NEW u \in Students, u \notin Takers(c), CardWhole(c),
         NEW amount \in Nat,
         Move(u, "CREDIT_RECHARGE", "CREDIT", amount, <<"recharge", c>>)
  PROVE  \E n : /\ <<u, n>> \notin CreditRows(c)
                /\ CreditRows(c)' = CreditRows(c) \cup {<<u, n>>}
                /\ ledger'[u][n].amount = amount
                /\ \A w \in CreditRows(c) : ledger'[w[1]][w[2]] = ledger[w[1]][w[2]]
<1> DEFINE key == <<"recharge", c>>
           n == Len(ledger[u]) + 1
<1>1. /\ key \in Keys /\ key # NoKey
      /\ "CREDIT_RECHARGE" \in LedgerTypes /\ "CREDIT" \in Directions
  BY WalletAssumption DEF Keys, LedgerTypes, Directions
<1>2. ~Replayed(u, key)
  <2> SUFFICES ASSUME NEW i \in DOMAIN ledger[u], ledger[u][i].key = key PROVE FALSE
    BY DEF Replayed
  <2>1. <<u, i>> \in CreditRows(c)
    BY CreditRowsAre
  <2>2. <<u, i>>[1] \in Takers(c)
    BY <2>1 DEF CardWhole
  <2> QED
    BY <2>2
<1>3. /\ n \notin DOMAIN ledger[u] /\ DOMAIN ledger'[u] = DOMAIN ledger[u] \cup {n}
      /\ \A i \in DOMAIN ledger[u] : ledger'[u][i] = ledger[u][i]
      /\ ledger'[u][n] = [type |-> "CREDIT_RECHARGE", direction |-> "CREDIT", amount |-> amount,
           before |-> wallet[u].balance, after |-> BalanceAfter(u, "CREDIT", amount), key |-> key]
      /\ \A v \in Students \ {u} : ledger'[v] = ledger[v]
  <2> HIDE DEF key
  <2> QED
    BY <1>1, <1>2, MoveAppends DEF key
<1>4. ledger'[u][n].key = key /\ ledger'[u][n].amount = amount
  BY <1>3
<1> HIDE DEF n
<1>5. \A v \in Students : \A i \in DOMAIN ledger[v] : i \in DOMAIN ledger'[v] /\ ledger'[v][i] = ledger[v][i]
  BY <1>3
<1>6. \A v \in Students : \A i \in DOMAIN ledger'[v] : i \in DOMAIN ledger[v] \/ (v = u /\ i = n)
  BY <1>3
<1>7. n \in DOMAIN ledger'[u]
  BY <1>3
<1>8. \A w : w \in CreditRows(c)' <=>
        \E v \in Students : \E i \in DOMAIN ledger'[v] : w = <<v, i>> /\ ledger'[v][i].key = <<"recharge", c>>
  BY DEF CreditRows
<1>9. \A w : w \in CreditRows(c)' <=> w \in CreditRows(c) \cup {<<u, n>>}
  BY <1>4, <1>5, <1>6, <1>7, <1>8, CreditRowsAre
<1>10. CreditRows(c)' = CreditRows(c) \cup {<<u, n>>}
  <2> DEFINE A == CreditRows(c)'
             B == CreditRows(c) \cup {<<u, n>>}
  <2> SUFFICES A = B
    OBVIOUS
  <2>1. \A w : w \in A <=> w \in B
    BY <1>9
  <2> HIDE DEF A, B
  <2> QED
    BY <2>1
<1>11. <<u, n>> \notin CreditRows(c)
  BY <1>3, CreditRowsAre
<1>12. ASSUME NEW w \in CreditRows(c)
       PROVE  ledger'[w[1]][w[2]] = ledger[w[1]][w[2]]
  <2>1. PICK v \in Students : \E i \in DOMAIN ledger[v] : w = <<v, i>>
    BY CreditRowsAre
  <2> QED
    BY <1>5, <2>1
<1> QED
  BY <1>4, <1>10, <1>11, <1>12

\* The redemption: one student, one use, one revenue row and one credit row more.
LEMMA UseKeepsCards ==
  ASSUME WalletIInv, CardInv, NEW u \in Students, NEW c \in Codes,
         CodeHonoured(c, u, "RECHARGE"), UseCode(c, u), RecordRevenue(c, u),
         IF code[c].credit > 0
           THEN Move(u, "CREDIT_RECHARGE", "CREDIT", code[c].credit, <<"recharge", c>>)
           ELSE UNCHANGED walletVars
  PROVE  CardInv'
<1>1. u \in Students /\ c \in Codes
  OBVIOUS
<1>2. /\ CodeHonoured(c, u, "RECHARGE") /\ UseCode(c, u) /\ RecordRevenue(c, u)
      /\ IF code[c].credit > 0
           THEN Move(u, "CREDIT_RECHARGE", "CREDIT", code[c].credit, <<"recharge", c>>)
           ELSE UNCHANGED walletVars
  OBVIOUS
<1>3. /\ code \in [Codes -> CodeRows] /\ code[c] \in CodeRows /\ revenue \in [Codes -> Seq(RevenueRows)]
      /\ code[c].credit \in Nat /\ code[c].paid \in Nat /\ code[c].count \in Nat /\ code[c].max \in Nat
  BY <1>1 DEF WalletIInv, TypeOK, CodesTypeOK, CodeRows, RevenueRows
<1>4. WalletInv
  BY DEF WalletIInv
<1>5. /\ u \notin Takers(c) /\ code[c].count < code[c].max /\ code[c].status # "UNISSUED"
  BY <1>2 DEF CodeHonoured, Takers
<1>6. /\ code'[c].credit = code[c].credit /\ code'[c].paid = code[c].paid /\ code'[c].max = code[c].max
      /\ code'[c].count = code[c].count + 1 /\ code'[c].status # "UNISSUED"
      /\ \A d \in Codes \ {c} : code'[d] = code[d]
  BY <1>1, <1>2, <1>3, <1>5 DEF UseCode, CodeRows
<1>7. /\ Takers(c)' = Takers(c) \cup {u}
      /\ \A d \in Codes \ {c} : Takers(d)' = Takers(d)
  BY <1>1, <1>2 DEF UseCode, Takers
<1>8. /\ Len(revenue'[c]) = Len(revenue[c]) + 1 /\ Len(revenue[c]) \in Nat
      /\ \A i \in 1..Len(revenue[c]) : revenue'[c][i] = revenue[c][i]
      /\ revenue'[c][Len(revenue[c]) + 1] = [user |-> u, paid |-> code[c].paid, credit |-> code[c].credit]
      /\ \A d \in Codes \ {c} : revenue'[d] = revenue[d]
  <2> DEFINE row == [user |-> u, paid |-> code[c].paid, credit |-> code[c].credit]
  <2>1. row \in RevenueRows
    BY <1>1, <1>3 DEF RevenueRows
  <2>2. revenue' = [revenue EXCEPT ![c] = Append(@, row)]
    BY <1>2 DEF RecordRevenue
  <2> HIDE DEF row
  <2>3. /\ Len(revenue'[c]) = Len(revenue[c]) + 1 /\ Len(revenue[c]) \in Nat
        /\ \A i \in 1..Len(revenue[c]) : revenue'[c][i] = revenue[c][i]
        /\ revenue'[c][Len(revenue[c]) + 1] = row
        /\ \A d \in Codes \ {c} : revenue'[d] = revenue[d]
    BY <1>1, <1>3, <2>1, <2>2
  <2> QED
    BY <2>3 DEF row
<1>9. ASSUME NEW d \in Codes \ {c} PROVE CardWhole(d)'
  <2>1. /\ CreditRows(d)' = CreditRows(d)
        /\ \A w \in CreditRows(d) : ledger'[w[1]][w[2]] = ledger[w[1]][w[2]]
    <3>1. CASE Move(u, "CREDIT_RECHARGE", "CREDIT", code[c].credit, <<"recharge", c>>)
      <4>1. /\ <<"recharge", c>> \in Keys /\ <<"recharge", c>> # <<"recharge", d>>
            /\ "CREDIT_RECHARGE" \in LedgerTypes /\ "CREDIT" \in Directions
        BY <1>1, WalletAssumption DEF Keys, LedgerTypes, Directions
      <4> QED
        BY <1>1, <1>3, <1>4, <3>1, <4>1, OtherMovesKeepCards
    <3>2. CASE UNCHANGED walletVars
      BY <3>2 DEF walletVars, CreditRows
    <3> QED
      BY <1>2, <3>1, <3>2
  <2>2. CardWhole(d)
    BY DEF CardInv
  <2> QED
    BY <1>6, <1>7, <1>8, <2>1, <2>2, CardKept
<1>10. CardWhole(c)'
  <2>0. CardWhole(c)
    BY <1>1 DEF CardInv
  <2>1. /\ IsFiniteSet(Takers(c)') /\ Cardinality(Takers(c)') = code'[c].count
        /\ code'[c].count <= code'[c].max
    BY <1>3, <1>5, <1>6, <1>7, <2>0, FS_AddElement DEF CardWhole
  <2>2. /\ Len(revenue'[c]) = code'[c].count
        /\ \A i \in 1..Len(revenue'[c]) :
             revenue'[c][i].user \in Takers(c)' /\ revenue'[c][i].paid = code'[c].paid
    <3>1. ASSUME NEW i \in 1..Len(revenue[c])
          PROVE  revenue'[c][i].user \in Takers(c)' /\ revenue'[c][i].paid = code'[c].paid
      BY <1>6, <1>7, <1>8, <2>0 DEF CardWhole
    <3>2. LET last == revenue'[c][Len(revenue[c]) + 1]
          IN  last.user \in Takers(c)' /\ last.paid = code'[c].paid
      BY <1>6, <1>7, <1>8
    <3>3. \A i \in 1..Len(revenue'[c]) : i \in 1..Len(revenue[c]) \/ i = Len(revenue[c]) + 1
      BY <1>8
    <3> QED
      BY <1>6, <1>8, <2>0, <3>1, <3>2, <3>3 DEF CardWhole
  <2>3. /\ IsFiniteSet(CreditRows(c)')
        /\ Cardinality(CreditRows(c)') = (IF code'[c].credit > 0 THEN code'[c].count ELSE 0)
        /\ \A w \in CreditRows(c)' : w[1] \in Takers(c)' /\ ledger'[w[1]][w[2]].amount = code'[c].paid
    <3>1. CASE code[c].credit > 0
      <4>1. PICK n : /\ <<u, n>> \notin CreditRows(c)
                     /\ CreditRows(c)' = CreditRows(c) \cup {<<u, n>>}
                     /\ ledger'[u][n].amount = code[c].credit
                     /\ \A w \in CreditRows(c) : ledger'[w[1]][w[2]] = ledger[w[1]][w[2]]
        BY <1>1, <1>2, <1>3, <1>4, <1>5, <2>0, <3>1, OwnMoveCredits
      <4>2. /\ IsFiniteSet(CreditRows(c)')
            /\ Cardinality(CreditRows(c)') = Cardinality(CreditRows(c)) + 1
        BY <2>0, <4>1, FS_AddElement DEF CardWhole
      <4>3. \A w \in CreditRows(c) : w[1] \in Takers(c)' /\ ledger'[w[1]][w[2]].amount = code'[c].paid
        BY <1>6, <1>7, <2>0, <4>1 DEF CardWhole
      <4>4. u \in Takers(c)' /\ ledger'[u][n].amount = code'[c].paid
        BY <1>6, <1>7, <2>0, <4>1 DEF CardWhole
      <4>5. \A w \in CreditRows(c)' : w[1] \in Takers(c)' /\ ledger'[w[1]][w[2]].amount = code'[c].paid
        BY <4>1, <4>3, <4>4
      <4> QED
        BY <1>3, <1>6, <2>0, <3>1, <4>2, <4>5 DEF CardWhole
    <3>2. CASE ~(code[c].credit > 0)
      <4>1. UNCHANGED walletVars
        BY <1>2, <3>2
      <4>2. CreditRows(c)' = CreditRows(c) /\ ledger' = ledger
        BY <4>1 DEF walletVars, CreditRows
      <4> QED
        BY <1>3, <1>6, <1>7, <2>0, <3>2, <4>2 DEF CardWhole
    <3> QED
      BY <3>1, <3>2
  <2> QED
    BY <1>6, <2>0, <2>1, <2>2, <2>3 DEF CardWhole
<1> QED
  BY <1>9, <1>10 DEF CardInv

LEMMA RedeemKeepsCards ==
  ASSUME WalletIInv, CardInv, NEW r \in Requests, redeemRechargeCode(r)
  PROVE  CardInv'
<1>1. PICK u \in Students, c \in Codes : u = request[r].user /\ c = request[r].card
  BY DEF WalletIInv, redeemRechargeCode, TypeOK, RequestRows
<1>2. /\ CodeHonoured(c, u, "RECHARGE") /\ UseCode(c, u) /\ RecordRevenue(c, u)
      /\ IF code[c].credit > 0
           THEN Move(u, "CREDIT_RECHARGE", "CREDIT", code[c].credit, <<"recharge", c>>)
           ELSE UNCHANGED walletVars
  BY <1>1 DEF redeemRechargeCode
<1> QED
  BY <1>2, UseKeepsCards

LEMMA CardInvInit == Init => CardInv
<1> SUFFICES ASSUME Init, NEW c \in Codes PROVE CardWhole(c)
  BY DEF CardInv
<1>1. Takers(c) = {} /\ CreditRows(c) = {}
  <2>1. \A w : w \notin CreditRows(c)
    BY CreditRowsAre DEF Init
  <2> QED
    BY <2>1 DEF Init, CodesInit, Takers
<1> QED
  BY <1>1, FS_EmptySet DEF Init, CodesInit, UnissuedRow, CardWhole

LEMMA CardInvNext == WalletIInv /\ CardInv /\ [Next]_vars => CardInv'
<1> SUFFICES ASSUME WalletIInv, CardInv, [Next]_vars PROVE CardInv'
  OBVIOUS
<1>1. CASE CodeStep
  BY <1>1, CodeStepKeepsCards DEF WalletIInv
<1>2. ASSUME UNCHANGED <<code, redemptions, ledger, revenue>>
      PROVE  CardInv'
  <2>1. \A c \in Codes : Takers(c)' = Takers(c) /\ CreditRows(c)' = CreditRows(c)
    BY <1>2 DEF Takers, CreditRows
  <2> QED
    BY <1>2, <2>1, CardKept DEF CardInv
<1>3. ASSUME NEW r \in Requests, adjust(r)
      PROVE  CardInv'
  <2>1. /\ request[r].user \in Students /\ request[r].direction \in Directions
        /\ request[r].amount \in Nat /\ NoKey \in Keys /\ "ADMIN_ADJUSTMENT" \in LedgerTypes
        /\ UNCHANGED <<code, redemptions, revenue>>
        /\ Move(request[r].user, "ADMIN_ADJUSTMENT", request[r].direction, request[r].amount, NoKey)
    BY <1>3 DEF WalletIInv, adjust, TypeOK, RequestRows, Keys, LedgerTypes
  <2>2. \A c \in Codes : NoKey # <<"recharge", c>>
    BY WalletAssumption
  <2>3. \A c \in Codes : /\ CreditRows(c)' = CreditRows(c)
                         /\ \A w \in CreditRows(c) : ledger'[w[1]][w[2]] = ledger[w[1]][w[2]]
    BY <2>1, <2>2, OtherMovesKeepCards DEF WalletIInv
  <2>4. \A c \in Codes : Takers(c)' = Takers(c)
    BY <2>1 DEF Takers
  <2> QED
    BY <2>1, <2>3, <2>4, CardKept DEF CardInv
<1>4. CASE UNCHANGED vars
  BY <1>2, <1>4 DEF vars
<1>5. CASE WalletStep
  BY <1>2, <1>3, <1>5, RedeemKeepsCards DEF WalletStep, summary, RedeemArrives, AdjustChecks, RequestRefused
<1> QED
  BY <1>1, <1>4, <1>5 DEF Next

\* A printed card is consumed by one student per use, books its cash once per use, and the
\* credit that reached the wallets because of it is what the cash bought, whatever requests
\* race for it (redeemRechargeCode).
THEOREM CardsRedeemedWhole == Spec => []CardRedeemedWhole
<1>1. Spec => []WalletIInv
  BY InitKeepsInv, NextKeepsInv, PTL DEF Spec
<1>2. Spec => []CardInv
  BY <1>1, CardInvInit, CardInvNext, PTL DEF Spec
<1>3. CardInv => CardRedeemedWhole
  BY DEF CardInv, CardWhole, CardRedeemedWhole, Takers
<1> QED
  BY <1>2, <1>3, PTL

-----------------------------------------------------------------------------
\* The library.


\* What a request in flight may have read.
OrderRows ==
  [op : {"idle"}]
    \cup [op : {"buy"}, user : Students, target : Targets]
    \cup [op : {"package"}, target : Packages, parts : SUBSET LibParts, cost : Nat]
    \cup [op : {"remove"}, target : Materials \cup Targets]

PurchaseRows == [user : Students, target : Targets, price : Nat, parts : SUBSET LibParts]

LibraryTypes ==
  /\ price \in [Targets -> Nat]
  /\ items \in [Packages -> SUBSET LibParts]
  /\ owned \in [Students -> SUBSET LibParts]
  /\ purchases \subseteq PurchaseRows
  /\ order \in [Orders -> OrderRows]

\* The two sides PurchasesMatchLedger compares.
Paid(u) == {i \in DOMAIN ledger[u] : ledger[u][i].type = "PURCHASE"}
Bought(u) == {row \in purchases : row.user = u}

\* What u paid and what u bought are counted, and agree.
PaidIsBought(u) ==
  /\ IsFiniteSet(Paid(u)) /\ IsFiniteSet(Bought(u))
  /\ Cardinality(Paid(u)) = Cardinality(Bought(u))
  /\ \A row \in Bought(u) : \E i \in Paid(u) :
       ledger[u][i].key = <<"library", row.target>> /\ ledger[u][i].amount = row.price

\* A key of the library in a wallet stands for a purchase: a debit under the key of a purchase
\* that is not on record is therefore never taken for a replay.
KeyIsPurchase(u) ==
  \A i \in DOMAIN ledger[u] : \A t \in Targets :
    ledger[u][i].key = <<"library", t>> => Purchased(u, t)

\* The inductive invariant.
LibraryInv ==
  /\ WalletIInv
  /\ LibraryTypes
  /\ HeldIsBought
  /\ \A u \in Students : PaidIsBought(u) /\ KeyIsPurchase(u)

LEMMA LibraryInvMeans == LibraryInv => PurchasesMatchLedger
BY DEF LibraryInv, PaidIsBought, Paid, Bought, PurchasesMatchLedger

LEMMA LibraryInvInit == LibraryInit => LibraryInv
<1> SUFFICES ASSUME LibraryInit PROVE LibraryInv
  OBVIOUS
<1>1. WalletIInv
  BY InitKeepsInv DEF LibraryInit
<1>2. LibraryTypes
  BY DEF LibraryInit, LibraryTypes, OrderRows
<1>3. HeldIsBought
  BY DEF LibraryInit, HeldIsBought
<1>4. ASSUME NEW u \in Students PROVE PaidIsBought(u) /\ KeyIsPurchase(u)
  <2>1. DOMAIN ledger[u] = {}
    BY DEF LibraryInit, Init
  <2>2. Paid(u) = {} /\ Bought(u) = {}
    BY <2>1 DEF LibraryInit, Paid, Bought
  <2> QED
    BY <2>1, <2>2, FS_EmptySet DEF PaidIsBought, KeyIsPurchase
<1> QED
  BY <1>1, <1>2, <1>3, <1>4 DEF LibraryInv

\* Nothing happens to the money and to what was bought.
LEMMA NoSaleKeeps ==
  ASSUME LibraryInv, WalletIInv', LibraryTypes', UNCHANGED <<ledger, purchases, owned>>
  PROVE  LibraryInv'
<1>1. HeldIsBought'
  BY DEF LibraryInv, HeldIsBought
<1>2. ASSUME NEW u \in Students PROVE PaidIsBought(u)' /\ KeyIsPurchase(u)'
  <2>1. Paid(u)' = Paid(u) /\ Bought(u)' = Bought(u)
    BY DEF Paid, Bought
  <2> QED
    BY <2>1 DEF LibraryInv, PaidIsBought, KeyIsPurchase, Purchased
<1> QED
  BY <1>1, <1>2 DEF LibraryInv

\* A purchase of u, as it commits.
LEMMA SaleKeeps ==
  ASSUME LibraryInv, NEW o \in Orders, NEW u \in Students, NEW t \in Targets,
         order[o].op = "buy", order[o].user = u, order[o].target = t, purchase(o)
  PROVE  LibraryInv'
<1> DEFINE key == <<"library", t>>
           n == Len(ledger[u]) + 1
           sold == [user |-> u, target |-> t, price |-> price[t], parts |-> partIds(t)]
<1>0. /\ MayBuy(u, t) /\ Charge(u, t) /\ RecordPurchase(u, t) /\ GrantParts(u, t) /\ End(o)
      /\ UNCHANGED <<code, redemptions, user, revenue, request, shopVars>>
  BY DEF purchase
<1>1. /\ price[t] \in Nat /\ partIds(t) \subseteq LibParts /\ t \in Refs
  BY LibraryAssumption DEF LibraryInv, LibraryTypes, partIds, Targets
<1>2. /\ key \in Keys /\ "PURCHASE" \in LedgerTypes /\ "DEBIT" \in Directions
  BY <1>1 DEF Keys, LedgerTypes, Directions
<1>3. ~Purchased(u, t)
  BY <1>0 DEF MayBuy
<1>4. ~Replayed(u, key)
  BY <1>3 DEF Replayed, LibraryInv, KeyIsPurchase
<1>5. WalletInv /\ TypeOK /\ Move(u, "PURCHASE", "DEBIT", price[t], key)
  BY <1>0 DEF LibraryInv, WalletIInv, Charge
<1>6. WalletIInv'
  <2>1. WalletInv'
    BY <1>1, <1>2, <1>5, MoveKeepsInv
  <2>2. TypeOK'
    BY <1>0, <1>5, <2>1 DEF TypeOK, CodesTypeOK, WalletInv
  <2> QED
    BY <2>1, <2>2 DEF WalletIInv
<1>7. /\ n \notin DOMAIN ledger[u] /\ DOMAIN ledger'[u] = DOMAIN ledger[u] \cup {n}
      /\ \A i \in DOMAIN ledger[u] : ledger'[u][i] = ledger[u][i]
      /\ ledger'[u][n] = [type |-> "PURCHASE", direction |-> "DEBIT", amount |-> price[t],
           before |-> wallet[u].balance, after |-> BalanceAfter(u, "DEBIT", price[t]), key |-> key]
      /\ \A v \in Students \ {u} : ledger'[v] = ledger[v]
  <2> HIDE DEF key
  <2> QED
    BY <1>1, <1>2, <1>4, <1>5, MoveAppends
<1>8. ledger'[u][n].type = "PURCHASE" /\ ledger'[u][n].key = key /\ ledger'[u][n].amount = price[t]
  BY <1>7
<1> HIDE DEF n
<1>9. sold \in PurchaseRows /\ purchases' = purchases \cup {sold} /\ sold.user = u /\ sold.target = t
      /\ sold.price = price[t] /\ sold.parts = partIds(t)
  BY <1>0, <1>1 DEF RecordPurchase, PurchaseRows
<1> HIDE DEF sold
<1>10. LibraryTypes'
  <2>1. order' \in [Orders -> OrderRows]
    BY <1>0 DEF End, LibraryInv, LibraryTypes, OrderRows
  <2>2. owned' \in [Students -> SUBSET LibParts]
    BY <1>0, <1>1 DEF GrantParts, LibraryInv, LibraryTypes
  <2> QED
    BY <1>0, <1>9, <2>1, <2>2 DEF LibraryInv, LibraryTypes, shopVars
<1>11. HeldIsBought'
  <2> SUFFICES ASSUME NEW v \in Students
               PROVE  owned'[v] = UNION {row.parts : row \in {p \in purchases' : p.user = v}}
    BY DEF HeldIsBought
  <2>1. owned[v] = UNION {row.parts : row \in {p \in purchases : p.user = v}}
    BY DEF LibraryInv, HeldIsBought
  <2>2. owned'[v] = IF v = u THEN owned[v] \cup partIds(t) ELSE owned[v]
    BY <1>0 DEF GrantParts, LibraryInv, LibraryTypes
  <2>3. CASE v = u
    BY <1>9, <2>1, <2>2, <2>3
  <2>4. CASE v # u
    <3>1. {p \in purchases' : p.user = v} = {p \in purchases : p.user = v}
      BY <1>9, <2>4
    <3> QED
      BY <2>1, <2>2, <2>4, <3>1
  <2> QED
    BY <2>3, <2>4
<1>12. ASSUME NEW v \in Students PROVE KeyIsPurchase(v)'
  <2> SUFFICES ASSUME NEW i \in DOMAIN ledger'[v], NEW s \in Targets, ledger'[v][i].key = <<"library", s>>
               PROVE  Purchased(v, s)'
    BY DEF KeyIsPurchase
  <2>1. CASE v = u /\ i = n
    <3>1. s = t
      BY <1>8, <2>1
    <3> QED
      BY <1>9, <2>1, <3>1 DEF Purchased
  <2>2. CASE ~(v = u /\ i = n)
    <3>1. i \in DOMAIN ledger[v] /\ ledger[v][i].key = <<"library", s>>
      BY <1>7, <2>2
    <3>2. Purchased(v, s)
      BY <3>1 DEF LibraryInv, KeyIsPurchase
    <3> QED
      BY <1>9, <3>2 DEF Purchased
  <2> QED
    BY <2>1, <2>2
<1>13. ASSUME NEW v \in Students PROVE PaidIsBought(v)'
  <2>0. PaidIsBought(v)
    BY DEF LibraryInv
  <2>1. CASE v = u
    <3>1. Paid(u)' = Paid(u) \cup {n} /\ n \notin Paid(u)
      BY <1>7, <1>8 DEF Paid
    <3>2. Bought(u)' = Bought(u) \cup {sold} /\ sold \notin Bought(u)
      BY <1>3, <1>9 DEF Bought, Purchased
    <3>3. /\ IsFiniteSet(Paid(u)') /\ IsFiniteSet(Bought(u)')
          /\ Cardinality(Paid(u)') = Cardinality(Bought(u)')
      <4>1. /\ IsFiniteSet(Paid(u)) /\ IsFiniteSet(Bought(u))
            /\ Cardinality(Paid(u)) = Cardinality(Bought(u))
        BY <2>0, <2>1 DEF PaidIsBought
      <4>2. IsFiniteSet(Paid(u)') /\ Cardinality(Paid(u)') = Cardinality(Paid(u)) + 1
        BY <3>1, <4>1, FS_AddElement
      <4>3. IsFiniteSet(Bought(u)') /\ Cardinality(Bought(u)') = Cardinality(Bought(u)) + 1
        BY <3>2, <4>1, FS_AddElement
      <4> QED
        BY <4>1, <4>2, <4>3
    <3>4. ASSUME NEW row \in Bought(u)'
          PROVE  \E i \in Paid(u)' : /\ ledger'[u][i].key = <<"library", row.target>>
                                     /\ ledger'[u][i].amount = row.price
      <4>1. CASE row = sold
        BY <1>8, <1>9, <3>1, <4>1
      <4>2. CASE row \in Bought(u)
        <5>1. PICK i \in Paid(u) : ledger[u][i].key = <<"library", row.target>> /\ ledger[u][i].amount = row.price
          BY <2>0, <2>1, <4>2 DEF PaidIsBought
        <5>2. ledger'[u][i] = ledger[u][i]
          BY <1>7 DEF Paid
        <5> QED
          BY <3>1, <5>1, <5>2
      <4> QED
        BY <3>2, <4>1, <4>2
    <3> QED
      BY <2>1, <3>3, <3>4 DEF PaidIsBought
  <2>2. CASE v # u
    <3>1. Paid(v)' = Paid(v) /\ ledger'[v] = ledger[v]
      BY <1>7, <2>2 DEF Paid
    <3>2. Bought(v)' = Bought(v)
      BY <1>9, <2>2 DEF Bought
    <3> QED
      BY <2>0, <3>1, <3>2 DEF PaidIsBought
  <2> QED
    BY <2>1, <2>2
<1> QED
  BY <1>6, <1>10, <1>11, <1>12, <1>13 DEF LibraryInv

\* An adjustment adds a row that is neither a purchase nor under a key of the library.
LEMMA AdjustKeepsLibrary ==
  ASSUME LibraryInv, WalletIInv', NEW r \in Requests, adjust(r), UNCHANGED <<shopVars, owned, purchases, order>>
  PROVE  LibraryInv'
<1>1. PICK u \in Students, d \in Directions, a \in Nat :
        u = request[r].user /\ d = request[r].direction /\ a = request[r].amount
  BY DEF LibraryInv, WalletIInv, adjust, TypeOK, RequestRows
<1> DEFINE n == Len(ledger[u]) + 1
<1>2. /\ WalletInv /\ Move(u, "ADMIN_ADJUSTMENT", d, a, NoKey)
      /\ NoKey \in Keys /\ "ADMIN_ADJUSTMENT" \in LedgerTypes
  BY <1>1 DEF LibraryInv, WalletIInv, adjust, Keys, LedgerTypes
<1>3. ~Replayed(u, NoKey)
  BY DEF Replayed
<1>4. /\ n \notin DOMAIN ledger[u] /\ DOMAIN ledger'[u] = DOMAIN ledger[u] \cup {n}
      /\ \A i \in DOMAIN ledger[u] : ledger'[u][i] = ledger[u][i]
      /\ ledger'[u][n] = [type |-> "ADMIN_ADJUSTMENT", direction |-> d, amount |-> a,
           before |-> wallet[u].balance, after |-> BalanceAfter(u, d, a), key |-> NoKey]
      /\ \A v \in Students \ {u} : ledger'[v] = ledger[v]
  BY <1>2, <1>3, MoveAppends
<1>5. ledger'[u][n].type # "PURCHASE" /\ ledger'[u][n].key = NoKey
  BY <1>4
<1>6. \A t \in Targets : NoKey # <<"library", t>>
  BY LibraryAssumption, WalletAssumption
<1> HIDE DEF n
<1>7. LibraryTypes' /\ HeldIsBought'
  BY DEF LibraryInv, LibraryTypes, HeldIsBought, shopVars
<1>8. ASSUME NEW v \in Students PROVE PaidIsBought(v)' /\ KeyIsPurchase(v)'
  <2>1. Paid(v)' = Paid(v) /\ Bought(v)' = Bought(v)
    BY <1>4, <1>5 DEF Paid, Bought
  <2>2. \A i \in Paid(v) : ledger'[v][i] = ledger[v][i]
    BY <1>4 DEF Paid
  <2>3. PaidIsBought(v)'
    <3>1. PaidIsBought(v)
      BY DEF LibraryInv
    <3>2. ASSUME NEW row \in Bought(v)
          PROVE  \E i \in Paid(v) : /\ ledger'[v][i].key = <<"library", row.target>>
                                    /\ ledger'[v][i].amount = row.price
      BY <2>2, <3>1 DEF PaidIsBought
    <3> QED
      BY <2>1, <3>1, <3>2 DEF PaidIsBought
  <2>4. KeyIsPurchase(v)'
    <3> SUFFICES ASSUME NEW i \in DOMAIN ledger'[v], NEW t \in Targets, ledger'[v][i].key = <<"library", t>>
                 PROVE  Purchased(v, t)'
      BY DEF KeyIsPurchase
    <3>1. i \in DOMAIN ledger[v] /\ ledger'[v][i] = ledger[v][i]
      BY <1>4, <1>5, <1>6
    <3>2. Purchased(v, t)
      BY <3>1 DEF LibraryInv, KeyIsPurchase
    <3> QED
      BY <3>2 DEF Purchased
  <2> QED
    BY <2>3, <2>4
<1> QED
  BY <1>7, <1>8 DEF LibraryInv

\* Nothing but a purchase and an adjustment touches the money or what was bought.
LEMMA OtherStepsKeepLibrary ==
  ASSUME LibraryInv, LibraryNext, ~\E o \in Orders : purchase(o), ~\E r \in Requests : adjust(r)
  PROVE  LibraryInv'
<1> USE DEF Begin, End
<1>0. /\ price \in [Targets -> Nat] /\ items \in [Packages -> SUBSET LibParts]
      /\ owned \in [Students -> SUBSET LibParts] /\ purchases \subseteq PurchaseRows
      /\ order \in [Orders -> OrderRows] /\ LibPrices \subseteq Nat /\ LibParts \subseteq Targets
      /\ Packages \subseteq Targets /\ [op |-> "idle"] \in OrderRows /\ WalletIInv
  BY LibraryAssumption DEF LibraryInv, LibraryTypes, Targets, OrderRows
<1>1. ASSUME UNCHANGED vars PROVE WalletIInv'
  BY <1>0, <1>1, NextKeepsInv
<1>2. CASE BuyStep
  <2>1. UNCHANGED <<vars, shopVars, owned, purchases>>
    BY <1>2 DEF BuyStep, PurchaseChecks, PurchaseRefused
  <2>2. order' \in [Orders -> OrderRows]
    BY <1>0, <1>2 DEF BuyStep, PurchaseChecks, PurchaseRefused, OrderRows
  <2>3. LibraryTypes'
    BY <1>0, <2>1, <2>2 DEF LibraryTypes, shopVars
  <2> QED
    BY <1>1, <2>1, <2>3, NoSaleKeeps DEF vars
<1>3. CASE ShopStep
  <2>1. UNCHANGED <<vars, owned, purchases>>
    BY <1>3 DEF ShopStep, createMaterial, createPart, updateRow, updatePrice, updateAudience, PackageReads,
                removeMaterial, removePart, removePackage, RemoveChecks, updatePackage, remove
  <2>2. LibraryTypes'
    <3>1. CASE \E m \in Materials, who \in SUBSET Students : createMaterial(m, who)
      BY <1>0, <3>1 DEF createMaterial, LibraryTypes
    <3>2. CASE \E p \in LibParts, cost \in LibPrices : createPart(p, cost)
      BY <1>0, <3>2 DEF createPart, LibraryTypes
    <3>3. CASE \E x \in Materials \cup Targets, s \in {"HIDDEN", "PUBLISHED"} : updateRow(x, s)
      BY <1>0, <3>3 DEF updateRow, LibraryTypes
    <3>4. CASE \E p \in LibParts, cost \in LibPrices : updatePrice(p, cost)
      BY <1>0, <3>4 DEF updatePrice, LibraryTypes
    <3>5. CASE \E m \in Materials, who \in SUBSET Students : updateAudience(m, who)
      BY <1>0, <3>5 DEF updateAudience, LibraryTypes
    <3>6. ASSUME NEW o \in Orders, NEW g \in Packages, NEW parts \in SUBSET LibParts, NEW cost \in LibPrices,
                 PackageReads(o, g, parts, cost)
          PROVE  LibraryTypes'
      <4>1. [op |-> "package", target |-> g, parts |-> parts, cost |-> cost] \in OrderRows
        BY <1>0 DEF OrderRows
      <4> QED
        BY <1>0, <3>6, <4>1 DEF PackageReads, LibraryTypes, shopVars
    <3>7. ASSUME NEW o \in Orders, NEW x \in Materials \cup Targets, RemoveChecks(o, x)
          PROVE  LibraryTypes'
      <4>1. [op |-> "remove", target |-> x] \in OrderRows
        BY DEF OrderRows
      <4> QED
        BY <1>0, <3>7, <4>1 DEF RemoveChecks, LibraryTypes, shopVars
    <3>8. ASSUME NEW o \in Orders, updatePackage(o)
          PROVE  LibraryTypes'
      <4>1. order[o].parts \in SUBSET LibParts /\ order[o].cost \in Nat
        BY <1>0, <3>8 DEF updatePackage, OrderRows
      <4> QED
        BY <1>0, <3>8, <4>1 DEF updatePackage, LibraryTypes
    <3>9. ASSUME NEW o \in Orders, remove(o)
          PROVE  LibraryTypes'
      BY <1>0, <3>9 DEF remove, LibraryTypes
    <3> QED
      BY <1>0, <1>3, <3>1, <3>2, <3>3, <3>4, <3>5, <3>6, <3>7, <3>8, <3>9
         DEF ShopStep, removeMaterial, removePart, removePackage
  <2> QED
    BY <1>1, <2>1, <2>2, NoSaleKeeps DEF vars
<1>4. CASE CreditStep
  <2>1. WalletIInv'
    BY <1>0, <1>4, NextKeepsInv DEF CreditStep, Next, WalletStep
  <2>2. UNCHANGED <<shopVars, owned, purchases, order, ledger>>
    BY <1>4 DEF CreditStep, AdjustChecks, RequestRefused
  <2>3. LibraryTypes'
    BY <1>0, <2>2 DEF LibraryTypes, shopVars
  <2> QED
    BY <2>1, <2>2, <2>3, NoSaleKeeps
<1> QED
  BY <1>2, <1>3, <1>4 DEF LibraryNext

LEMMA LibraryInvNext == LibraryInv /\ [LibraryNext]_libraryVars => LibraryInv'
<1> SUFFICES ASSUME LibraryInv, [LibraryNext]_libraryVars PROVE LibraryInv'
  OBVIOUS
<1>1. CASE UNCHANGED libraryVars
  <2>1. UNCHANGED <<vars, shopVars, owned, purchases, order>>
    BY <1>1 DEF libraryVars
  <2>2. WalletIInv'
    BY <2>1, NextKeepsInv DEF LibraryInv
  <2>3. LibraryTypes'
    BY <2>1 DEF LibraryInv, LibraryTypes, shopVars
  <2> QED
    BY <2>1, <2>2, <2>3, NoSaleKeeps DEF vars
<1>2. ASSUME NEW o \in Orders, purchase(o) PROVE LibraryInv'
  <2>1. PICK u \in Students, t \in Targets : order[o].user = u /\ order[o].target = t
    BY <1>2 DEF purchase, LibraryInv, LibraryTypes, OrderRows
  <2> QED
    BY <1>2, <2>1, SaleKeeps DEF purchase
<1>3. ASSUME NEW r \in Requests, adjust(r), LibraryNext PROVE LibraryInv'
  <2>1. \/ CreditStep
        \/ UNCHANGED <<ledger, request>>
        \/ \E o \in Orders : purchase(o)
    BY <1>3 DEF LibraryNext, BuyStep, ShopStep, createMaterial, createPart, updateRow, updatePrice,
                updateAudience, PackageReads, removeMaterial, removePart, removePackage, RemoveChecks,
                updatePackage, remove, PurchaseChecks, PurchaseRefused, vars
  <2>2. CASE CreditStep
    <3>1. WalletIInv' /\ UNCHANGED <<shopVars, owned, purchases, order>>
      BY <2>2, NextKeepsInv DEF LibraryInv, CreditStep, Next, WalletStep
    <3> QED
      BY <1>3, <3>1, AdjustKeepsLibrary
  <2>3. CASE UNCHANGED <<ledger, request>>
    <3>1. request[r].op = "adjust" /\ request'[r].op = "done"
      BY <1>3 DEF adjust, Finish, LibraryInv, WalletIInv, TypeOK
    <3> QED
      BY <2>3, <3>1
  <2> QED
    BY <1>2, <2>1, <2>2, <2>3
<1> QED
  BY <1>1, <1>2, <1>3, OtherStepsKeepLibrary

\* What a student holds is what they bought, whatever happens to packages, prices and shelves
\* between the look and the purchase, and after it (purchase, updatePackage, remove).
THEOREM HoldingsAreBought == LibrarySpec => []HeldIsBought
<1>1. LibraryInv => HeldIsBought
  BY DEF LibraryInv
<1> QED
  BY <1>1, LibraryInvInit, LibraryInvNext, PTL DEF LibrarySpec

\* Every purchase has its one ledger row at its frozen price, and every PURCHASE row its
\* purchase; a repeated tap never pays twice (purchase, Charge).
THEOREM PurchasesArePaid == LibrarySpec => []PurchasesMatchLedger
  BY LibraryInvInit, LibraryInvNext, LibraryInvMeans, PTL DEF LibrarySpec

\* The purchases keep the wallet whole: its chain of rows, its range and its totals.
THEOREM LibraryKeepsWallet ==
  LibrarySpec => [](LedgerExplainsBalance /\ BalanceReadable /\ TotalsAgree)
<1>1. LibraryInv => LedgerExplainsBalance /\ BalanceReadable /\ TotalsAgree
  BY DEF LibraryInv, WalletIInv, WalletInv
<1> QED
  BY <1>1, LibraryInvInit, LibraryInvNext, PTL DEF LibrarySpec

\* A purchase hands out parts that are on sale as it commits (the second look of purchase).
THEOREM SalesAreOnSale == LibrarySpec => SoldIsOnSale
<1>1. [LibraryNext]_libraryVars =>
        [\A row \in purchases' \ purchases : \A p \in row.parts : isOnSale(p)]_libraryVars
  <2> SUFFICES ASSUME LibraryNext, NEW row \in purchases' \ purchases, NEW p \in row.parts PROVE isOnSale(p)
    OBVIOUS
  <2>1. PICK o \in Orders : purchase(o)
    BY DEF LibraryNext, BuyStep, ShopStep, CreditStep, createMaterial, createPart, updateRow, updatePrice,
           updateAudience, PackageReads, removeMaterial, removePart, removePackage, RemoveChecks,
           updatePackage, remove, PurchaseChecks, PurchaseRefused
  <2>2. p \in partIds(order[o].target) /\ ForSale(order[o].target)
    BY <2>1 DEF purchase, RecordPurchase, MayBuy
  <2> QED
    BY <2>2 DEF ForSale
<1> QED
  BY <1>1, PTL DEF LibrarySpec, SoldIsOnSale

-----------------------------------------------------------------------------
\* The deletion of accounts.


DeletionRows ==
  [user : Students \cup {NoOne}, due : BOOLEAN, attempts : Nat, failed : BOOLEAN,
   status : {"NONE", "PENDING", "PROCESSING", "CANCELLED", "COMPLETED"},
   held : BOOLEAN, settled : BOOLEAN, amount : Nat]

\* A row that is in use has its student; one that is not is blank.
DeletionTypes ==
  /\ deletion \in [DeletionIds -> DeletionRows]
  /\ \A q \in DeletionIds : IF deletion[q].status = "NONE" THEN deletion[q] = NoDeletion
                                                            ELSE deletion[q].user \in Students

\* A sweep in flight: where it is, and what it has read.
IsSweep(s) == s = [at |-> s.at, seen |-> s.seen]

\* The sweep works on rows that are in use, and none of them has been put on hold since it was
\* read: the only hold is the sweep's own, on a row it then leaves.
SweepIsClear ==
  sweep.at # "idle" =>
    /\ IsSweep(sweep)
    /\ DOMAIN sweep.seen \subseteq DeletionIds /\ DOMAIN sweep.seen # {}
    /\ \A q \in DOMAIN sweep.seen :
         /\ deletion[q].status \notin {"NONE", "COMPLETED"}
         /\ deletion[q].held => deletion[q].settled

\* The ledger rows of a settlement in the wallet of u, and whether there ought to be one.
PaidOut(q, u) == {i \in DOMAIN ledger[u] : ledger[u][i].key = <<"settlement", q>>}
Owed(q, u) == deletion[q].settled /\ deletion[q].amount > 0 /\ deletion[q].user = u

PaidAsOwed(q, u) ==
  /\ IsFiniteSet(PaidOut(q, u))
  /\ Cardinality(PaidOut(q, u)) = IF Owed(q, u) THEN 1 ELSE 0
  /\ \A i \in PaidOut(q, u) : ledger[u][i].amount = deletion[q].amount

\* The inductive invariant.
DeletionInv ==
  /\ WalletIInv
  /\ DeletionTypes
  /\ SweepIsClear
  /\ HoldBlocksErasure
  /\ \A q \in DeletionIds, u \in Students : PaidAsOwed(q, u)

LEMMA DeletionInvMeans == DeletionInv => SettlementMatchesLedger
BY DEF DeletionInv, PaidAsOwed, PaidOut, Owed, SettlementMatchesLedger

\* FiniteSetsExt's Min picks a member.
LEMMA OldestIsMember == ASSUME NEW S \in SUBSET Nat, S # {} PROVE Min(S) \in S
<1> DEFINE Less == {ss \in Nat \X Nat : ss[1] < ss[2]}
<1>1. IsWellFoundedOn(Less, Nat)
  BY NatLessThanWellFounded DEF OpToRel
<1>2. PICK x \in S : \A y \in S : <<y, x>> \notin Less
  <2> HIDE DEF Less
  <2> QED
    BY <1>1, WFMin
<1>3. ASSUME NEW y \in S PROVE x <= y
  <2>1. <<y, x>> \in Nat \X Nat /\ <<y, x>> \notin Less
    BY <1>2
  <2> QED
    BY <2>1
<1> QED
  BY <1>3 DEF Min

\* The row a sweep works on is one it has read.
LEMMA CurrentIsSeen ==
  ASSUME SweepIsClear, sweep.at # "idle"
  PROVE  Current \in DOMAIN sweep.seen /\ Current \in DeletionIds
<1>1. DOMAIN sweep.seen \in SUBSET Nat /\ DOMAIN sweep.seen # {}
  BY DEF SweepIsClear, DeletionIds
<1> QED
  BY <1>1, OldestIsMember DEF Current, SweepIsClear

LEMMA DeletionInvInit == DeletionInit => DeletionInv
<1> SUFFICES ASSUME DeletionInit PROVE DeletionInv
  OBVIOUS
<1>1. WalletIInv
  BY InitKeepsInv DEF DeletionInit
<1>2. DeletionTypes /\ SweepIsClear /\ HoldBlocksErasure
  BY DEF DeletionInit, DeletionTypes, DeletionRows, NoDeletion, SweepIsClear, HoldBlocksErasure
<1>3. ASSUME NEW q \in DeletionIds, NEW u \in Students PROVE PaidAsOwed(q, u)
  <2>1. PaidOut(q, u) = {} /\ ~Owed(q, u)
    BY DEF DeletionInit, Init, PaidOut, Owed, NoDeletion
  <2> QED
    BY <2>1, FS_EmptySet DEF PaidAsOwed
<1> QED
  BY <1>1, <1>2, <1>3 DEF DeletionInv

\* Where no money moves and no settlement is recorded, the two sides stand still.
LEMMA NoPaymentKeeps ==
  ASSUME DeletionInv, UNCHANGED ledger,
         \A q \in DeletionIds : /\ deletion'[q].settled = deletion[q].settled
                                /\ deletion'[q].amount = deletion[q].amount
                                /\ deletion[q].settled => deletion'[q].user = deletion[q].user
  PROVE  \A q \in DeletionIds, u \in Students : PaidAsOwed(q, u)'
<1> SUFFICES ASSUME NEW q \in DeletionIds, NEW u \in Students PROVE PaidAsOwed(q, u)'
  OBVIOUS
<1>1. PaidOut(q, u)' = PaidOut(q, u) /\ (Owed(q, u)' <=> Owed(q, u))
  BY DEF PaidOut, Owed
<1> QED
  BY <1>1 DEF DeletionInv, PaidAsOwed

\* A change of one request that is in use: it stays in use, with its student and its settlement,
\* and is not completed on a hold that is not settled.
Continues(q, row) ==
  /\ row \in DeletionRows /\ row.status # "NONE" /\ row.user = deletion[q].user
  /\ row.settled = deletion[q].settled /\ row.amount = deletion[q].amount
  /\ row.status = "COMPLETED" => (row.held => row.settled)

LEMMA ContinuesKeeps ==
  ASSUME DeletionInv, NEW q \in DeletionIds, deletion[q].status # "NONE",
         NEW row, Continues(q, row), Set(q, row), UNCHANGED ledger
  PROVE  /\ DeletionTypes' /\ HoldBlocksErasure'
         /\ \A p \in DeletionIds, u \in Students : PaidAsOwed(p, u)'
         /\ deletion'[q] = row /\ \A p \in DeletionIds \ {q} : deletion'[p] = deletion[p]
<1>1. deletion' = [deletion EXCEPT ![q] = row] /\ deletion \in [DeletionIds -> DeletionRows]
  BY DEF Set, DeletionInv, DeletionTypes
<1>2. deletion'[q] = row /\ \A p \in DeletionIds \ {q} : deletion'[p] = deletion[p]
  BY <1>1
<1>3. DeletionTypes'
  BY <1>1, <1>2 DEF DeletionInv, DeletionTypes, Continues
<1>4. HoldBlocksErasure'
  BY <1>2 DEF DeletionInv, HoldBlocksErasure, Continues
<1>5. \A p \in DeletionIds, u \in Students : PaidAsOwed(p, u)'
  BY <1>2, NoPaymentKeeps DEF Continues
<1> QED
  BY <1>2, <1>3, <1>4, <1>5

\* A request that is left alone continues.
LEMMA StillContinues ==
  ASSUME DeletionInv, NEW q \in DeletionIds, deletion[q].status # "NONE", UNCHANGED deletion
  PROVE  Continues(q, deletion[q]) /\ Set(q, deletion[q])
BY DEF DeletionInv, DeletionTypes, HoldBlocksErasure, Continues, Set

\* Students and administrators do not disturb the sweep.
LEMMA HolderStepKeeps ==
  ASSUME DeletionInv, NEW q \in DeletionIds, WalletIInv', UNCHANGED ledger,
         GracePasses(q) \/ cancel(q) \/ retryFailed(q) \/ cancelFailed(q)
  PROVE  DeletionInv'
<1>1. PICK row : /\ Set(q, row) /\ Continues(q, row) /\ row.held = deletion[q].held
                 /\ row.status # "COMPLETED" /\ deletion[q].status = "PENDING"
  <2>0. deletion[q] \in DeletionRows /\ deletion[q].status = "PENDING"
    BY DEF DeletionInv, DeletionTypes, GracePasses, cancel, retryFailed, cancelFailed
  <2>1. CASE GracePasses(q)
    BY <2>0, <2>1 DEF GracePasses, Continues, DeletionRows
  <2>2. CASE cancel(q)
    BY <2>0, <2>2 DEF cancel, Continues, DeletionRows
  <2>3. CASE retryFailed(q)
    BY <2>0, <2>3 DEF retryFailed, Continues, DeletionRows
  <2>4. CASE cancelFailed(q)
    BY <2>0, <2>4 DEF cancelFailed, Continues, DeletionRows
  <2> QED
    BY <2>1, <2>2, <2>3, <2>4
<1>2. UNCHANGED sweep
  BY DEF GracePasses, cancel, retryFailed, cancelFailed, NotSweeping
<1>3. /\ DeletionTypes' /\ HoldBlocksErasure'
      /\ \A p \in DeletionIds, u \in Students : PaidAsOwed(p, u)'
      /\ deletion'[q] = row /\ \A p \in DeletionIds \ {q} : deletion'[p] = deletion[p]
  BY <1>1, ContinuesKeeps
<1>4. SweepIsClear'
  BY <1>1, <1>2, <1>3 DEF DeletionInv, SweepIsClear, Continues
<1> QED
  BY <1>3, <1>4 DEF DeletionInv

\* A new request takes a row that was not in use.
LEMMA RequestKeeps ==
  ASSUME DeletionInv, NEW u \in Students, WalletIInv', UNCHANGED ledger, requestDeletion(u)
  PROVE  DeletionInv'
<1>1. PICK q \in DeletionIds : /\ deletion[q].status = "NONE"
                               /\ Set(q, [NoDeletion EXCEPT !.user = u, !.status = "PENDING"])
                               /\ UNCHANGED sweep
  BY DEF requestDeletion, NotSweeping
<1>2. /\ deletion \in [DeletionIds -> DeletionRows] /\ deletion[q] = NoDeletion
      /\ deletion' = [deletion EXCEPT ![q] = [NoDeletion EXCEPT !.user = u, !.status = "PENDING"]]
  BY <1>1 DEF Set, DeletionInv, DeletionTypes
<1> DEFINE row == [NoDeletion EXCEPT !.user = u, !.status = "PENDING"]
<1>3. /\ row \in DeletionRows /\ row.status = "PENDING" /\ row.user = u
      /\ row.settled = deletion[q].settled /\ ~row.settled /\ row.amount = deletion[q].amount /\ ~row.held
  BY <1>2 DEF NoDeletion, DeletionRows
<1>4. deletion'[q] = row /\ \A p \in DeletionIds \ {q} : deletion'[p] = deletion[p]
  BY <1>2
<1> HIDE DEF row
<1>5. DeletionTypes'
  BY <1>2, <1>3, <1>4 DEF DeletionInv, DeletionTypes
<1>6. SweepIsClear' /\ HoldBlocksErasure'
  BY <1>1, <1>3, <1>4 DEF DeletionInv, SweepIsClear, HoldBlocksErasure
<1>7. \A p \in DeletionIds, v \in Students : PaidAsOwed(p, v)'
  BY <1>3, <1>4, NoPaymentKeeps
<1> QED
  BY <1>5, <1>6, <1>7 DEF DeletionInv

\* The sweep goes on with its row, or leaves it for the next.
LEMMA SweepStaysClear ==
  ASSUME SweepIsClear, sweep.at # "idle",
         \A q \in DeletionIds \ {Current} : deletion'[q] = deletion[q],
         \/ NextRow
         \/ /\ \E at : Goto(at)
            /\ deletion'[Current].status \notin {"NONE", "COMPLETED"}
            /\ deletion'[Current].held => deletion'[Current].settled
  PROVE  SweepIsClear'
<1>0. /\ IsSweep(sweep)
      /\ DOMAIN sweep.seen \subseteq DeletionIds /\ DOMAIN sweep.seen # {}
      /\ \A q \in DOMAIN sweep.seen : /\ deletion[q].status \notin {"NONE", "COMPLETED"}
                                      /\ deletion[q].held => deletion[q].settled
  BY DEF SweepIsClear
<1>1. Current \in DOMAIN sweep.seen
  BY CurrentIsSeen
<1>2. CASE NextRow
  <2>1. CASE sweep' = [at |-> "idle"]
    BY <2>1 DEF SweepIsClear
  <2>2. CASE /\ DOMAIN sweep.seen # {Current}
             /\ sweep' = [at |-> "balance",
                          seen |-> [q \in DOMAIN sweep.seen \ {Current} |-> sweep.seen[q]]]
    <3>1. /\ DOMAIN sweep'.seen = DOMAIN sweep.seen \ {Current}
          /\ IsSweep(sweep')
      BY <2>2 DEF IsSweep
    <3> QED
      BY <1>0, <1>1, <2>2, <3>1 DEF SweepIsClear
  <2> QED
    BY <1>2, <2>1, <2>2 DEF NextRow
<1>3. ASSUME NEW at, Goto(at),
             deletion'[Current].status \notin {"NONE", "COMPLETED"},
             deletion'[Current].held => deletion'[Current].settled
      PROVE  SweepIsClear'
  <2>1. sweep' = [at |-> at, seen |-> sweep.seen]
    BY <1>0, <1>3 DEF Goto, IsSweep
  <2>2. sweep'.seen = sweep.seen /\ IsSweep(sweep')
    BY <2>1 DEF IsSweep
  <2>3. ASSUME NEW q \in DOMAIN sweep.seen
        PROVE  deletion'[q].status \notin {"NONE", "COMPLETED"} /\ (deletion'[q].held => deletion'[q].settled)
    BY <1>0, <1>3
  <2> QED
    BY <1>0, <2>2, <2>3 DEF SweepIsClear
<1> QED
  BY <1>2, <1>3

\* The sweep, its failures and its crash.
LEMMA SweepKeeps ==
  ASSUME DeletionInv, WalletIInv', UNCHANGED ledger, SweepStep \/ EraseFails \/ SweepCrashes
  PROVE  DeletionInv'
<1>0. DeletionTypes /\ SweepIsClear
  BY DEF DeletionInv
<1>1. CASE SweepReads
  <2>1. UNCHANGED deletion /\ DueRows # {} /\ DueRows \subseteq DeletionIds
    BY <1>1 DEF SweepReads, DueRows
  <2>2. sweep' = [at |-> "balance", seen |-> sweep'.seen] /\ sweep'.at = "balance" /\ DOMAIN sweep'.seen = DueRows
    BY <1>1 DEF SweepReads
  <2>3. \A q \in DueRows : /\ deletion[q].status \notin {"NONE", "COMPLETED"}
                           /\ deletion[q].held => deletion[q].settled
    BY DEF DueRows
  <2>4. SweepIsClear'
    <3>1. IsSweep(sweep')
      BY <2>2 DEF IsSweep
    <3>2. \A q \in DOMAIN sweep'.seen : /\ deletion'[q].status \notin {"NONE", "COMPLETED"}
                                        /\ deletion'[q].held => deletion'[q].settled
      BY <2>1, <2>2, <2>3
    <3>3. DOMAIN sweep'.seen \subseteq DeletionIds /\ DOMAIN sweep'.seen # {}
      BY <2>1, <2>2
    <3> QED
      BY <3>1, <3>2, <3>3 DEF SweepIsClear
  <2>5. DeletionTypes' /\ HoldBlocksErasure' /\ \A q \in DeletionIds, u \in Students : PaidAsOwed(q, u)'
    BY <2>1, NoPaymentKeeps DEF DeletionInv, DeletionTypes, HoldBlocksErasure
  <2> QED
    BY <2>4, <2>5 DEF DeletionInv
<1>2. CASE SweepCrashes
  <2>1. UNCHANGED deletion /\ SweepIsClear'
    BY <1>2 DEF SweepCrashes, SweepIsClear
  <2>2. DeletionTypes' /\ HoldBlocksErasure' /\ \A q \in DeletionIds, u \in Students : PaidAsOwed(q, u)'
    BY <2>1, NoPaymentKeeps DEF DeletionInv, DeletionTypes, HoldBlocksErasure
  <2> QED
    BY <2>1, <2>2 DEF DeletionInv
<1>3. CASE ~SweepReads /\ ~SweepCrashes
  <2>0. sweep.at # "idle"
    BY <1>3 DEF SweepStep, SweepBalance, SweepHolds, SweepClaims, EraseChecks, erase, SweepFails, EraseFails
  <2>1. /\ Current \in DeletionIds /\ deletion[Current] \in DeletionRows
        /\ deletion[Current].status \notin {"NONE", "COMPLETED"}
        /\ deletion[Current].held => deletion[Current].settled
    BY <1>0, <2>0, CurrentIsSeen DEF SweepIsClear, DeletionTypes
  <2> DEFINE Moves(row) ==
               \/ NextRow
               \/ (\E at : Goto(at)) /\ row.status # "COMPLETED" /\ (row.held => row.settled)
  <2>2. PICK row : Set(Current, row) /\ Continues(Current, row) /\ Moves(row)
    <3>1. ASSUME UNCHANGED deletion, NextRow \/ \E at : Goto(at)
          PROVE  \E row : Set(Current, row) /\ Continues(Current, row) /\ Moves(row)
      BY <2>1, <3>1, StillContinues
    <3>2. CASE SweepBalance \/ EraseChecks \/ EraseFails
      BY <3>1, <3>2 DEF SweepBalance, EraseChecks, EraseFails
    <3>3. CASE SweepHolds
      <4> DEFINE row == [deletion[Current] EXCEPT !.held = TRUE]
      <4>1. CASE Set(Current, row)
        <5>1. Continues(Current, row)
          BY <2>1 DEF Continues, DeletionRows
        <5> QED
          BY <3>3, <4>1, <5>1 DEF SweepHolds
      <4> QED
        BY <3>1, <3>3, <4>1 DEF SweepHolds
    <3>4. CASE SweepClaims
      <4> DEFINE row == [deletion[Current] EXCEPT !.attempts = @ + 1,
                   !.status = IF sweep.seen[Current].status = "PENDING" THEN "PROCESSING" ELSE @]
      <4>1. CASE Set(Current, row) /\ Goto("erase")
        <5>1. deletion[Current].attempts + 1 \in Nat
          BY <2>1 DEF DeletionRows
        <5>2. Continues(Current, row) /\ row.status # "COMPLETED" /\ (row.held => row.settled)
          BY <2>1, <5>1 DEF Continues, DeletionRows
        <5> HIDE DEF row
        <5> QED
          BY <4>1, <5>2
      <4> QED
        BY <3>1, <3>4, <4>1 DEF SweepClaims
    <3>5. CASE erase
      <4> DEFINE row == [deletion[Current] EXCEPT !.status = "COMPLETED"]
      <4>1. Continues(Current, row)
        BY <2>1 DEF Continues, DeletionRows
      <4> QED
        BY <3>5, <4>1 DEF erase
    <3>6. CASE SweepFails
      <4> DEFINE row == [deletion[Current] EXCEPT !.status = "PENDING", !.failed = @ \/ Exhausted(Attempt)]
      <4>1. CASE Set(Current, row)
        <5>1. (deletion[Current].failed \/ Exhausted(Attempt)) \in BOOLEAN
          OBVIOUS
        <5>2. Continues(Current, row)
          BY <2>1, <5>1 DEF Continues, DeletionRows
        <5> QED
          BY <3>6, <4>1, <5>2 DEF SweepFails
      <4> QED
        BY <3>1, <3>6, <4>1 DEF SweepFails
    <3> QED
      BY <1>3, <3>2, <3>3, <3>4, <3>5, <3>6 DEF SweepStep
  <2>3. /\ DeletionTypes' /\ HoldBlocksErasure'
        /\ \A p \in DeletionIds, u \in Students : PaidAsOwed(p, u)'
    BY <2>1, <2>2, ContinuesKeeps
  <2>4. SweepIsClear'
    <3>1. deletion' = [deletion EXCEPT ![Current] = row] /\ deletion \in [DeletionIds -> DeletionRows]
      BY <1>0, <2>2 DEF Set, DeletionTypes
    <3>2. deletion'[Current] = row /\ \A q \in DeletionIds \ {Current} : deletion'[q] = deletion[q]
      <4> DEFINE k == Current
      <4>1. k \in DeletionIds /\ deletion' = [deletion EXCEPT ![k] = row]
        BY <2>1, <3>1
      <4> HIDE DEF k
      <4> QED
        BY <3>1, <4>1 DEF k
    <3> QED
      BY <1>0, <2>0, <2>2, <3>2, SweepStaysClear DEF Continues
  <2> QED
    BY <2>3, <2>4 DEF DeletionInv
<1> QED
  BY <1>1, <1>2, <1>3

\* A move under a key that is not this settlement's leaves its rows alone.
LEMMA OtherMovesKeepPaidOut ==
  ASSUME NEW u \in Students, NEW type \in LedgerTypes, NEW direction \in Directions,
         NEW amount \in Nat, NEW key \in Keys,
         WalletInv, Move(u, type, direction, amount, key),
         NEW q \in DeletionIds, key # <<"settlement", q>>, NEW v \in Students
  PROVE  PaidOut(q, v)' = PaidOut(q, v) /\ \A i \in PaidOut(q, v) : ledger'[v][i] = ledger[v][i]
<1> DEFINE n == Len(ledger[u]) + 1
           row == [type |-> type, direction |-> direction, amount |-> amount,
             before |-> wallet[u].balance, after |-> BalanceAfter(u, direction, amount), key |-> key]
<1>1. CASE UNCHANGED walletVars
  BY <1>1 DEF walletVars, PaidOut
<1>2. CASE ~UNCHANGED walletVars
  <2>1. /\ DOMAIN ledger'[u] = DOMAIN ledger[u] \cup {n} /\ n \notin DOMAIN ledger[u]
        /\ \A i \in DOMAIN ledger[u] : ledger'[u][i] = ledger[u][i]
        /\ ledger'[u][n] = row
        /\ \A w \in Students \ {u} : ledger'[w] = ledger[w]
    BY <1>2, MoveAppends
  <2>2. ledger'[u][n].key = key
    BY <2>1
  <2> HIDE DEF n, row
  <2> QED
    BY <2>1, <2>2 DEF PaidOut
<1> QED
  BY <1>1, <1>2

\* The wallet moves for other reasons: settlements stand still.
LEMMA WalletStepKeeps ==
  ASSUME DeletionInv, WalletIInv', DeletionWalletStep
  PROVE  DeletionInv'
<1>0. UNCHANGED <<deletion, sweep>>
  BY DEF DeletionWalletStep
<1>1. DeletionTypes' /\ SweepIsClear' /\ HoldBlocksErasure'
  BY <1>0 DEF DeletionInv, DeletionTypes, SweepIsClear, HoldBlocksErasure
<1>2. ASSUME NEW q \in DeletionIds, NEW v \in Students
      PROVE  PaidOut(q, v)' = PaidOut(q, v) /\ \A i \in PaidOut(q, v) : ledger'[v][i] = ledger[v][i]
  <2>1. CASE UNCHANGED ledger
    BY <2>1 DEF PaidOut
  <2>2. ASSUME NEW r \in Requests, adjust(r)
        PROVE  PaidOut(q, v)' = PaidOut(q, v) /\ \A i \in PaidOut(q, v) : ledger'[v][i] = ledger[v][i]
    <3>1. PICK u \in Students, d \in Directions, a \in Nat : Move(u, "ADMIN_ADJUSTMENT", d, a, NoKey)
      BY <2>2 DEF DeletionInv, WalletIInv, adjust, TypeOK, RequestRows
    <3>2. NoKey \in Keys /\ "ADMIN_ADJUSTMENT" \in LedgerTypes /\ NoKey # <<"settlement", q>>
      BY WalletAssumption, DeletionAssumption DEF Keys, LedgerTypes, DeletionIds
    <3> QED
      BY <3>1, <3>2, OtherMovesKeepPaidOut DEF DeletionInv, WalletIInv
  <2>3. ASSUME NEW r \in Requests, redeemRechargeCode(r)
        PROVE  PaidOut(q, v)' = PaidOut(q, v) /\ \A i \in PaidOut(q, v) : ledger'[v][i] = ledger[v][i]
    <3>1. PICK u \in Students, c \in Codes : u = request[r].user /\ c = request[r].card
      BY <2>3 DEF DeletionInv, WalletIInv, redeemRechargeCode, TypeOK, RequestRows
    <3>2. \/ UNCHANGED walletVars
          \/ Move(u, "CREDIT_RECHARGE", "CREDIT", code[c].credit, <<"recharge", c>>)
      BY <2>3, <3>1 DEF redeemRechargeCode
    <3>3. code[c].credit \in Nat
      BY DEF DeletionInv, WalletIInv, TypeOK, CodesTypeOK, CodeRows
    <3>4. /\ <<"recharge", c>> \in Keys /\ <<"recharge", c>> # <<"settlement", q>>
          /\ "CREDIT_RECHARGE" \in LedgerTypes /\ "CREDIT" \in Directions
      BY WalletAssumption DEF Keys, LedgerTypes, Directions
    <3>5. CASE UNCHANGED walletVars
      BY <2>1, <3>5 DEF walletVars
    <3>6. CASE Move(u, "CREDIT_RECHARGE", "CREDIT", code[c].credit, <<"recharge", c>>)
      BY <3>3, <3>4, <3>6, OtherMovesKeepPaidOut DEF DeletionInv, WalletIInv
    <3> QED
      BY <3>2, <3>5, <3>6
  <2> QED
    BY <2>1, <2>2, <2>3 DEF DeletionWalletStep, PlainCards, summary, RedeemArrives, AdjustChecks, RequestRefused
<1>3. ASSUME NEW q \in DeletionIds, NEW v \in Students PROVE PaidAsOwed(q, v)'
  <2>1. Owed(q, v)' <=> Owed(q, v)
    BY <1>0 DEF Owed
  <2> QED
    BY <1>0, <1>2, <2>1 DEF DeletionInv, PaidAsOwed
<1> QED
  BY <1>1, <1>3 DEF DeletionInv

\* A settlement is confirmed once, at what the wallet holds, and pays that out.
LEMMA SettlementKeeps ==
  ASSUME DeletionInv, NEW q \in DeletionIds, confirmSettlement(q)
  PROVE  DeletionInv'
<1> DEFINE u == deletion[q].user
           balance == wallet[u].balance
           key == <<"settlement", q>>
           row == [deletion[q] EXCEPT !.settled = TRUE, !.amount = balance]
<1>0. /\ deletion[q].held /\ ~deletion[q].settled /\ Set(q, row)
      /\ UNCHANGED <<sweep, code, redemptions, user, revenue, request>>
      /\ IF balance > 0 THEN Move(u, "REFUND", "DEBIT", balance, key) ELSE UNCHANGED walletVars
  BY DEF confirmSettlement, Settleable, NotSweeping
<1>1. /\ deletion \in [DeletionIds -> DeletionRows] /\ deletion[q].status # "NONE" /\ u \in Students
  BY <1>0 DEF DeletionInv, DeletionTypes, NoDeletion
<1>2. balance \in Nat /\ WalletInv /\ TypeOK
  BY <1>1, WalletAssumption DEF DeletionInv, WalletIInv, WalletInv, BalanceReadable
<1>3. key \in Keys /\ "REFUND" \in LedgerTypes /\ "DEBIT" \in Directions
  BY DeletionAssumption DEF Keys, LedgerTypes, Directions, DeletionIds
<1>4. WalletIInv'
  <2>1. WalletInv'
    BY <1>0, <1>1, <1>2, <1>3, MoveKeepsInv, UnchangedKeepsInv
  <2> QED
    BY <1>0, <1>2, <2>1 DEF WalletIInv, TypeOK, CodesTypeOK, WalletInv
<1>5. row \in DeletionRows /\ row.settled /\ row.amount = balance /\ row.user = u
      /\ row.status = deletion[q].status /\ row.held = deletion[q].held
  BY <1>1, <1>2 DEF DeletionRows
<1>6. deletion'[q] = row /\ \A p \in DeletionIds \ {q} : deletion'[p] = deletion[p]
  BY <1>0, <1>1 DEF Set
<1>7. DeletionTypes' /\ SweepIsClear' /\ HoldBlocksErasure'
  <2> HIDE DEF row
  <2>1. DeletionTypes'
    BY <1>0, <1>1, <1>5, <1>6 DEF DeletionInv, DeletionTypes, Set
  <2>2. HoldBlocksErasure'
    BY <1>5, <1>6 DEF DeletionInv, HoldBlocksErasure
  <2>3. SweepIsClear'
    BY <1>0, <1>5, <1>6 DEF DeletionInv, SweepIsClear
  <2> QED
    BY <2>1, <2>2, <2>3
<1>8. ASSUME NEW v \in Students PROVE PaidOut(q, v) = {} /\ IsFiniteSet({})
  <2>1. ~Owed(q, v)
    BY <1>0 DEF Owed
  <2> QED
    BY <2>1, FS_EmptySet DEF DeletionInv, PaidAsOwed
<1>9. ASSUME NEW p \in DeletionIds, NEW v \in Students, p # q PROVE PaidAsOwed(p, v)'
  <2>1. PaidOut(p, v)' = PaidOut(p, v) /\ \A i \in PaidOut(p, v) : ledger'[v][i] = ledger[v][i]
    <3>1. CASE UNCHANGED walletVars
      BY <3>1 DEF walletVars, PaidOut
    <3>2. CASE Move(u, "REFUND", "DEBIT", balance, key)
      <4>1. key # <<"settlement", p>>
        BY <1>9
      <4> HIDE DEF key, balance, u
      <4> QED
        BY <1>1, <1>2, <1>3, <3>2, <4>1, OtherMovesKeepPaidOut
    <3> QED
      BY <1>0, <3>1, <3>2
  <2>2. Owed(p, v)' <=> Owed(p, v)
    BY <1>6, <1>9 DEF Owed
  <2> QED
    BY <1>6, <1>9, <2>1, <2>2 DEF DeletionInv, PaidAsOwed
<1>10. ASSUME NEW v \in Students PROVE PaidAsOwed(q, v)'
  <2>1. CASE balance > 0
    <3>1. ~Replayed(u, key)
      BY <1>1, <1>8 DEF Replayed, PaidOut
    <3> DEFINE n == Len(ledger[u]) + 1
    <3>2. /\ DOMAIN ledger'[u] = DOMAIN ledger[u] \cup {n}
          /\ \A i \in DOMAIN ledger[u] : ledger'[u][i] = ledger[u][i]
          /\ ledger'[u][n] = [type |-> "REFUND", direction |-> "DEBIT", amount |-> balance,
               before |-> wallet[u].balance, after |-> BalanceAfter(u, "DEBIT", balance), key |-> key]
          /\ \A w \in Students \ {u} : ledger'[w] = ledger[w]
      <4> HIDE DEF key, balance, u
      <4> QED
        BY <1>0, <1>1, <1>2, <1>3, <2>1, <3>1, MoveAppends
    <3>3. ledger'[u][n].key = key /\ ledger'[u][n].amount = balance
      BY <3>2
    <3> HIDE DEF n
    <3>4. PaidOut(q, v)' = IF v = u THEN {n} ELSE {}
      BY <1>1, <1>8, <3>2, <3>3 DEF PaidOut
    <3>5. Owed(q, v)' <=> v = u
      BY <1>5, <1>6, <2>1 DEF Owed
    <3>6. CASE v = u
      <4>1. PaidOut(q, v)' = {n} /\ Owed(q, v)' /\ ledger'[v][n].amount = deletion'[q].amount
        BY <1>5, <1>6, <3>3, <3>4, <3>5, <3>6
      <4>2. IsFiniteSet({n}) /\ Cardinality({n}) = 1
        BY FS_Singleton
      <4> QED
        BY <4>1, <4>2 DEF PaidAsOwed
    <3>7. CASE v # u
      BY <3>4, <3>5, <3>7, FS_EmptySet DEF PaidAsOwed
    <3> QED
      BY <3>6, <3>7
  <2>2. CASE ~(balance > 0)
    <3>1. PaidOut(q, v)' = {}
      BY <1>0, <1>8, <2>2 DEF PaidOut, walletVars
    <3>2. ~Owed(q, v)'
      BY <1>5, <1>6, <2>2 DEF Owed
    <3> QED
      BY <3>1, <3>2, FS_EmptySet DEF PaidAsOwed
  <2> QED
    BY <2>1, <2>2
<1> QED
  BY <1>4, <1>7, <1>9, <1>10 DEF DeletionInv

LEMMA DeletionInvNext == DeletionInv /\ [DeletionNext]_deletionVars => DeletionInv'
<1> SUFFICES ASSUME DeletionInv, [DeletionNext]_deletionVars PROVE DeletionInv'
  OBVIOUS
<1>0. WalletIInv
  BY DEF DeletionInv
<1>1. ASSUME UNCHANGED vars PROVE WalletIInv' /\ UNCHANGED ledger
  BY <1>0, <1>1, NextKeepsInv DEF vars
<1>2. CASE SweepStep \/ EraseFails \/ SweepCrashes
  <2>1. CASE erase
    <3>1. /\ UNCHANGED <<code, redemptions, wallet, ledger, revenue, request>>
          /\ user' = [user EXCEPT ![CurrentUser] = "DELETED"]
      BY <2>1 DEF erase
    <3>2. WalletInv' /\ UNCHANGED ledger
      BY <1>0, <3>1, UnchangedKeepsInv DEF WalletIInv, walletVars
    <3>3. user' \in [Students -> {"ACTIVE", "DELETED"}]
      BY <1>0, <3>1 DEF WalletIInv, TypeOK
    <3>4. WalletIInv'
      BY <1>0, <3>1, <3>2, <3>3 DEF WalletIInv, TypeOK, CodesTypeOK
    <3> QED
      BY <1>2, <3>2, <3>4, SweepKeeps
  <2>2. CASE ~erase
    <3>1. UNCHANGED vars
      BY <1>2, <2>2 DEF SweepStep, SweepReads, SweepBalance, SweepHolds, SweepClaims, EraseChecks,
                        SweepFails, EraseFails, SweepCrashes
    <3> QED
      BY <1>1, <1>2, <3>1, SweepKeeps
  <2> QED
    BY <2>1, <2>2
<1>3. CASE HolderStep
  <2>1. UNCHANGED vars
    BY <1>3 DEF HolderStep, requestDeletion, cancel, GracePasses
  <2> QED
    BY <1>1, <1>3, <2>1, RequestKeeps, HolderStepKeeps DEF HolderStep
<1>4. CASE AdminStep
  <2>1. ASSUME NEW q \in DeletionIds, retryFailed(q) \/ cancelFailed(q) PROVE DeletionInv'
    <3>1. UNCHANGED vars
      BY <2>1 DEF retryFailed, cancelFailed
    <3> QED
      BY <1>1, <2>1, <3>1, HolderStepKeeps
  <2> QED
    BY <1>4, <2>1, SettlementKeeps DEF AdminStep
<1>5. CASE DeletionWalletStep
  <2>1. PlainCards => CodeStep
    BY DEF PlainCards, CodeStep
  <2>2. Next
    BY <1>5, <2>1 DEF DeletionWalletStep, Next, WalletStep
  <2> QED
    BY <1>0, <1>5, <2>2, NextKeepsInv, WalletStepKeeps
<1>6. CASE UNCHANGED deletionVars
  <2>1. UNCHANGED <<vars, deletion, sweep, ledger>> /\ WalletIInv'
    BY <1>1, <1>6 DEF deletionVars
  <2>2. \A q \in DeletionIds, u \in Students : PaidAsOwed(q, u)'
    BY <2>1, NoPaymentKeeps
  <2> QED
    BY <2>1, <2>2 DEF DeletionInv, DeletionTypes, SweepIsClear, HoldBlocksErasure
<1> QED
  BY <1>2, <1>3, <1>4, <1>5, <1>6 DEF DeletionNext

LEMMA DeletionSafe == DeletionSpec => []DeletionInv
  BY DeletionInvInit, DeletionInvNext, PTL DEF DeletionSpec

\* An account on hold is not erased before its settlement is confirmed, whatever the sweep had
\* read of it before and however often it crashed (sweep, erase, confirmSettlement).
THEOREM HoldsBlockErasure == DeletionSpec => []HoldBlocksErasure
<1>1. DeletionInv => HoldBlocksErasure
  BY DEF DeletionInv
<1> QED
  BY <1>1, DeletionSafe, PTL

\* A settlement is paid out once, at the amount its request records (confirmSettlement).
THEOREM SettlementsArePaid == DeletionSpec => []SettlementMatchesLedger
  BY DeletionSafe, DeletionInvMeans, PTL

\* The wallet stays whole while accounts are settled and erased.
THEOREM DeletionKeepsWallet ==
  DeletionSpec => [](LedgerExplainsBalance /\ BalanceReadable /\ TotalsAgree)
<1>1. DeletionInv => LedgerExplainsBalance /\ BalanceReadable /\ TotalsAgree
  BY DEF DeletionInv, WalletIInv, WalletInv
<1> QED
  BY <1>1, DeletionSafe, PTL
=============================================================================
