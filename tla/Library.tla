------------------------------ MODULE Library ------------------------------
(***************************************************************************)
(* The library: documents sold for wallet credit, one by one or in         *)
(* packages (src/modules/library).                                         *)
(*                                                                         *)
(* A purchase checks, then runs one Serializable closure that checks again *)
(* and debits the wallet.  The administrator's removals and package edits  *)
(* look first and write later, in statements of their own.                 *)
(***************************************************************************)
EXTENDS Wallet

CONSTANTS
  Materials, LibParts, Packages,
  MaterialOf,   \* MaterialOf[x]: the material of a part or a package
  LibPrices,    \* the prices an administrator may set, 0 included
  Orders        \* library requests in flight: a repeated tap is two ids

Targets == LibParts \cup Packages

ASSUME LibraryAssumption ==
  /\ MaterialOf \in [Targets -> Materials]
  /\ LibParts \cap Packages = {} /\ Materials \cap Targets = {}
  /\ LibPrices \subseteq Nat
  /\ Targets \subseteq Refs

VARIABLES
  shelf,      \* shelf[x]: status, isActive and deletedAt of a row
  price,      \* price[t]: the price of a part or a package
  items,      \* items[g]: library_package_items
  audience,   \* audience[m]: the students the academic rule lets see m
  owned,      \* owned[u]: library_entitlements
  purchases,  \* library_purchases, unique on (user, target)
  order       \* order[o]: what an in-flight request has read

shopVars == <<shelf, price, items, audience>>
libraryVars == <<vars, shopVars, owned, purchases, order>>

Exists(x) == shelf[x] \notin {"NONE", "DELETED"}

LibraryInit ==
  /\ Init
  /\ shelf = [x \in Materials \cup Targets |-> "NONE"]
  /\ price = [t \in Targets |-> 0]
  /\ items = [g \in Packages |-> {}]
  /\ audience = [m \in Materials |-> {}]
  /\ owned = [u \in Students |-> {}]
  /\ purchases = {}
  /\ order = [o \in Orders |-> [op |-> "idle"]]

Begin(o, row) == order[o].op = "idle" /\ order' = [order EXCEPT ![o] = row]
End(o) == order' = [order EXCEPT ![o] = [op |-> "idle"]]

-----------------------------------------------------------------------------
\* Buying.

\* isOnSale / isPublished: PUBLISHED, active and not deleted.
isOnSale(x) == shelf[x] = "PUBLISHED"

\* The parts a target stands for right now.
partIds(t) == IF t \in LibParts THEN {t} ELSE items[t]

\* assertMayAcquire.
assertMayAcquire(u, t) ==
  /\ Exists(t)
  /\ isOnSale(MaterialOf[t])
  /\ u \in audience[MaterialOf[t]]

\* Mutant: the parts of a package are not looked at.
ForSale_PackageOnly(t) ==
  /\ isOnSale(t) /\ isOnSale(MaterialOf[t])
  /\ partIds(t) # {} /\ price[t] > 0

\* loadPart / loadPackage: the target, its material and every part of it are on
\* sale, and it has a price.
ForSale(t) ==
  /\ isOnSale(t) /\ isOnSale(MaterialOf[t])
  /\ partIds(t) # {}
  /\ \A p \in partIds(t) : isOnSale(p) /\ MaterialOf[p] = MaterialOf[t]
  /\ price[t] > 0

\* findExisting: the purchase recorded under this student's key for t.
Purchased(u, t) == \E row \in purchases : row.user = u /\ row.target = t

\* purchase: the checks before the transaction.
PurchaseChecks(o, u, t) ==
  /\ user[u] = "ACTIVE"
  /\ assertMayAcquire(u, t)
  /\ ~Purchased(u, t)
  /\ Begin(o, [op |-> "buy", user |-> u, target |-> t])
  /\ UNCHANGED <<vars, shopVars, owned, purchases>>

\* The closure goes through: everything is checked again, something is left to
\* buy, and the unique keys of the purchase are free.
MayBuy(u, t) ==
  /\ assertMayAcquire(u, t) /\ ForSale(t) /\ user[u] = "ACTIVE"
  /\ ~(partIds(t) \subseteq owned[u])
  /\ ~Purchased(u, t)
  /\ CanMove(u, "DEBIT", price[t])

\* The purchase row, with its frozen price and parts.
RecordPurchase(u, t) ==
  purchases' = purchases \cup
    {[user |-> u, target |-> t, price |-> price[t], parts |-> partIds(t)]}

\* Mutant: the wallet is charged the cheapest part of a package.
Charge_OnePart(u, t) ==
  Move(u, "PURCHASE", "DEBIT",
       IF t \in Packages THEN price[CHOOSE p \in items[t] : TRUE] ELSE price[t],
       <<"library", t>>)

\* The debit, under the key of this student and target.
Charge(u, t) == Move(u, "PURCHASE", "DEBIT", price[t], <<"library", t>>)

\* Mutant: the entitlements are those of the package's first part.
GrantParts_FirstOnly(u, t) ==
  owned' = [owned EXCEPT ![u] = @ \cup {CHOOSE p \in partIds(t) : TRUE}]

\* The entitlements.
GrantParts(u, t) == owned' = [owned EXCEPT ![u] = @ \cup partIds(t)]

\* purchase: the transaction.
purchase(o) ==
  LET u == order[o].user
      t == order[o].target
  IN  /\ order[o].op = "buy"
      /\ MayBuy(u, t)
      /\ Charge(u, t)
      /\ RecordPurchase(u, t)
      /\ GrantParts(u, t)
      /\ End(o)
      /\ UNCHANGED <<code, redemptions, user, revenue, request, shopVars>>

\* The closure throws, or loses to the purchase of a repeated tap.
PurchaseRefused(o) ==
  /\ order[o].op = "buy"
  /\ ~MayBuy(order[o].user, order[o].target)
  /\ End(o)
  /\ UNCHANGED <<vars, shopVars, owned, purchases>>

-----------------------------------------------------------------------------
\* The administrator.

\* createMaterial: a draft for an audience that assertAudience accepts.
createMaterial(m, who) ==
  /\ shelf[m] = "NONE"
  /\ shelf' = [shelf EXCEPT ![m] = "HIDDEN"]
  /\ audience' = [audience EXCEPT ![m] = who]
  /\ UNCHANGED <<vars, price, items, owned, purchases, order>>

\* createPart.
createPart(p, cost) ==
  /\ shelf[p] = "NONE" /\ Exists(MaterialOf[p])
  /\ shelf' = [shelf EXCEPT ![p] = "PUBLISHED"]
  /\ price' = [price EXCEPT ![p] = cost]
  /\ UNCHANGED <<vars, items, audience, owned, purchases, order>>

\* updatePart, and the scalars of updateMaterial and updatePackage: a row that is
\* deleted stays deleted.
updateRow(x, s) ==
  /\ Exists(x) /\ s # shelf[x]
  /\ shelf' = [shelf EXCEPT ![x] = s]
  /\ UNCHANGED <<vars, price, items, audience, owned, purchases, order>>

\* updatePart with a new price.
updatePrice(p, cost) ==
  /\ Exists(p) /\ cost # price[p]
  /\ price' = [price EXCEPT ![p] = cost]
  /\ UNCHANGED <<vars, shelf, items, audience, owned, purchases, order>>

\* updateMaterial with a new audience.
updateAudience(m, who) ==
  /\ Exists(m) /\ who # audience[m]
  /\ audience' = [audience EXCEPT ![m] = who]
  /\ UNCHANGED <<vars, shelf, price, items, owned, purchases, order>>

\* createPackage / updatePackage: assertPackageItems.
PackageReads(o, g, parts, cost) ==
  /\ shelf[g] = "NONE" => Exists(MaterialOf[g])
  /\ shelf[g] # "DELETED"
  /\ parts # {}
  /\ \A p \in parts : Exists(p) /\ MaterialOf[p] = MaterialOf[g]
  /\ Begin(o, [op |-> "package", target |-> g, parts |-> parts, cost |-> cost])
  /\ UNCHANGED <<vars, shopVars, owned, purchases>>

\* createPackage / updatePackage: the transaction.
updatePackage(o) ==
  LET g == order[o].target
  IN  /\ order[o].op = "package"
      /\ items' = [items EXCEPT ![g] = order[o].parts]
      /\ shelf' = [shelf EXCEPT ![g] = IF @ = "NONE" THEN "PUBLISHED" ELSE @]
      /\ price' = [price EXCEPT ![g] = order[o].cost]
      /\ End(o)
      /\ UNCHANGED <<vars, audience, owned, purchases>>

RemoveChecks(o, x) ==
  /\ Exists(x)
  /\ Begin(o, [op |-> "remove", target |-> x])
  /\ UNCHANGED <<vars, shopVars, owned, purchases>>

\* removeMaterial: nobody holds a part of it.
removeMaterial(o, m) ==
  /\ \A u \in Students : \A p \in owned[u] : MaterialOf[p] # m
  /\ RemoveChecks(o, m)

\* removePart: nobody holds it, and it is in no package, not even in one that was removed.
removePart(o, p) ==
  /\ \A u \in Students : p \notin owned[u]
  /\ \A g \in Packages : p \notin items[g]
  /\ RemoveChecks(o, p)

\* removePackage: nobody bought it.
removePackage(o, g) ==
  /\ \A u \in Students : ~Purchased(u, g)
  /\ RemoveChecks(o, g)

\* The removal, on the answer read before.
remove(o) ==
  /\ order[o].op = "remove"
  /\ shelf' = [shelf EXCEPT ![order[o].target] = "DELETED"]
  /\ End(o)
  /\ UNCHANGED <<vars, price, items, audience, owned, purchases>>

-----------------------------------------------------------------------------
BuyStep ==
  \E o \in Orders :
    \/ \E u \in Students, t \in Targets : PurchaseChecks(o, u, t)
    \/ purchase(o) \/ PurchaseRefused(o)

ShopStep ==
  \/ \E m \in Materials, who \in SUBSET Students : createMaterial(m, who)
  \/ \E p \in LibParts, cost \in LibPrices : createPart(p, cost)
  \/ \E x \in Materials \cup Targets, s \in {"HIDDEN", "PUBLISHED"} : updateRow(x, s)
  \/ \E p \in LibParts, cost \in LibPrices : updatePrice(p, cost)
  \/ \E m \in Materials, who \in SUBSET Students : updateAudience(m, who)
  \/ \E o \in Orders :
       \/ \E g \in Packages, parts \in SUBSET LibParts, cost \in LibPrices :
            PackageReads(o, g, parts, cost)
       \/ \E m \in Materials : removeMaterial(o, m)
       \/ \E p \in LibParts : removePart(o, p)
       \/ \E g \in Packages : removePackage(o, g)
       \/ updatePackage(o) \/ remove(o)

\* Credit comes from adjustments here; Wallet checks the recharge cards.
CreditStep ==
  /\ \/ \E r \in Requests, u \in Students, d \in Directions, a \in Amounts :
          AdjustChecks(r, u, d, a)
     \/ \E r \in Requests : adjust(r) \/ RequestRefused(r)
  /\ UNCHANGED <<shopVars, owned, purchases, order>>

LibraryNext == BuyStep \/ ShopStep \/ CreditStep

LibrarySpec == LibraryInit /\ [][LibraryNext]_libraryVars

-----------------------------------------------------------------------------
\* Entitlements and purchases are the same thing twice: a student holds exactly
\* the parts of the purchases they made, whatever happens to prices, packages and
\* shelves afterwards ("what anyone already bought is untouched").
HeldIsBought ==
  \A u \in Students :
    owned[u] = UNION {row.parts : row \in {p \in purchases : p.user = u}}

\* "A library purchase without a ledger entry is impossible": the PURCHASE rows of
\* a wallet and the purchases of its student correspond one to one, at the price
\* frozen in the purchase; a repeated tap never pays twice.
PurchasesMatchLedger ==
  \A u \in Students :
    LET paid == {i \in DOMAIN ledger[u] : ledger[u][i].type = "PURCHASE"}
        bought == {row \in purchases : row.user = u}
    IN  /\ Cardinality(paid) = Cardinality(bought)
        /\ \A row \in bought : \E i \in paid :
             ledger[u][i].key = <<"library", row.target>> /\ ledger[u][i].amount = row.price

\* No purchase hands out a document that was withdrawn, hidden or deleted, even
\* through a package that was composed before that or while it happened.
SoldIsOnSale ==
  [][\A row \in purchases' \ purchases : \A p \in row.parts : isOnSale(p)]_libraryVars
=============================================================================
