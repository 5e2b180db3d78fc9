----------------------------- MODULE PartPrices -----------------------------
(***************************************************************************)
(* What the parts of a course cost (src/modules/course-parts).  Every      *)
(* write to a part, and every change of the course price, is validated     *)
(* against the whole allocation inside its transaction; the transactions   *)
(* on parts are READ COMMITTED, so a validated one may commit after        *)
(* another has.                                                            *)
(*                                                                         *)
(* A part is identified with its position, which a deleted part keeps.     *)
(***************************************************************************)
EXTENDS Handlers, Integers, FiniteSets, Functions

CONSTANTS
  MaxParts,      \* bound on the rows of course_parts
  Percents,      \* basis points staff enter; 6000 and 4000 are the default structure's
  Amounts        \* piastres: course prices and fixed part prices

Parts == 1..MaxParts
Models == {"PERCENTAGE", "FIXED"}

ASSUME PartAssumption ==
  /\ MaxParts \in Nat /\ MaxParts >= 2
  /\ Percents \subseteq 0..10000 /\ {4000, 6000} \subseteq Percents
  /\ Amounts \subseteq Nat

VARIABLES
  price,     \* the current course price
  part,      \* part[q]: the course_parts row
  sold,      \* sold[q]: history, priceAtPurchase of its sale since the last change, or -1
  everSold,  \* the parts with a row in course_part_purchases
  skewed     \* history: a write was committed between another's check and its commit

partVars == <<price, part, sold, everSold, skewed>>

NoPart == [live |-> FALSE, used |-> FALSE, active |-> FALSE, model |-> "PERCENTAGE", share |-> 0]
Unsold == [q \in Parts |-> -1]

PartInit ==
  /\ price \in Amounts
  /\ part = [q \in Parts |-> NoPart]
  /\ sold = Unsold /\ everSold = {} /\ skewed = FALSE

-----------------------------------------------------------------------------
\* The parts an allocation is made of.
Active(rows) == {q \in Parts : rows[q].live /\ rows[q].active}

ShareOf(rows, q) == rows[q].share
Shares(rows, qs) == SumFunction([q \in qs |-> rows[q].share])

\* Mutant: each share is rounded down on its own.
allocateByPercentage_Floor(rows, amount) ==
  [q \in Active(rows) |-> (amount * ShareOf(rows, q)) \div 10000]

\* allocateByPercentage: floors, then one piastre each to the largest remainders, earlier
\* parts first.
allocateByPercentage(rows, amount) ==
  LET qs == Active(rows)
      floor(q) == (amount * ShareOf(rows, q)) \div 10000
      rem(q) == (amount * ShareOf(rows, q)) % 10000
      leftover == amount - SumFunction([q \in qs |-> floor(q)])
      before(q) == {r \in qs : rem(r) > rem(q) \/ (rem(r) = rem(q) /\ r < q)}
  IN  [q \in qs |-> floor(q) + IF Cardinality(before(q)) < leftover THEN 1 ELSE 0]

\* allocateByFixedAmount.
allocateByFixedAmount(rows) == [q \in Active(rows) |-> ShareOf(rows, q)]

\* What allocatePartPrices and its two halves refuse.
AllocationRefused(rows, amount) ==
  LET qs == Active(rows) IN
  \/ \E q, r \in qs : rows[q].model # rows[r].model
  \/ (\A q \in qs : rows[q].model = "PERCENTAGE") /\ Shares(rows, qs) # 10000
  \/ (\A q \in qs : rows[q].model = "FIXED") /\ Shares(rows, qs) # amount

allocatePartPrices(rows, amount) ==
  IF \A q \in Active(rows) : rows[q].model = "PERCENTAGE"
  THEN allocateByPercentage(rows, amount) ELSE allocateByFixedAmount(rows)

\* loadPartAllocation, asked whether it throws: a course without active parts has nothing to allocate.
loadPartAllocation(rows, amount) == Active(rows) = {} \/ ~AllocationRefused(rows, amount)

-----------------------------------------------------------------------------
\* p has checked the rows and not yet committed.
Checked(p) == call[p].op \in {"default", "validated", "changePrice"}

\* p's transaction commits.
Commits(p) ==
  /\ sold' = Unsold
  /\ skewed' = (skewed \/ \E q \in Calls \ {p} : Checked(q))

Looks(p, op, saw, who) == Go(p, op, saw, who) /\ UNCHANGED partVars

\* The transaction of a write to part q has validated what it wrote and is about to commit.
Validates(p, q, row) ==
  /\ loadPartAllocation([part EXCEPT ![q] = row], price)
  /\ Looks(p, "validated", row, q)

CommitParts(p) ==
  /\ At(p, "validated")
  /\ part' = [part EXCEPT ![call[p].who] = call[p].saw]
  /\ End(p) /\ Commits(p)
  /\ UNCHANGED <<price, everSold>>

\* createDefaultStructure counts the parts ...
BeginDefault(p) ==
  /\ At(p, "idle") /\ \A q \in Parts : ~part[q].live
  /\ Looks(p, "default", "none", "none")

\* ... and creates 60/40 at the first two positions, or fails where a row has them.
createDefaultStructure(p) ==
  /\ At(p, "default")
  /\ IF part[1].used \/ part[2].used
     THEN UNCHANGED <<part, sold, skewed>>
     ELSE /\ part' = [part EXCEPT ![1] = [live |-> TRUE, used |-> TRUE, active |-> TRUE,
                                          model |-> "PERCENTAGE", share |-> 6000],
                                  ![2] = [live |-> TRUE, used |-> TRUE, active |-> TRUE,
                                          model |-> "PERCENTAGE", share |-> 4000]]
          /\ Commits(p)
  /\ End(p)
  /\ UNCHANGED <<price, everSold>>

ShareIn(model) == IF model = "PERCENTAGE" THEN Percents ELSE Amounts

\* create: one more part; its position must be free.
createPricedPart(p, q) ==
  /\ At(p, "idle") /\ ~part[q].used
  /\ \A r \in Calls : At(r, "validated") => call[r].who # q
  /\ \E m \in Models : \E s \in ShareIn(m) :
       Validates(p, q, [live |-> TRUE, used |-> TRUE, active |-> TRUE, model |-> m, share |-> s])

\* update reads the part and, before another pricing model, counts its sales ...
BeginUpdatePart(p, q) ==
  /\ At(p, "idle") /\ part[q].live
  /\ \E m \in Models : (m = part[q].model \/ q \notin everSold) /\ Looks(p, "updatePart", m, q)

\* ... and writes the price or the activity.
updatePart(p) ==
  LET q == call[p].who  m == call[p].saw IN
  /\ At(p, "updatePart")
  /\ \/ \E s \in ShareIn(m) : Validates(p, q, [part[q] EXCEPT !.model = m, !.share = s])
     \/ \E b \in BOOLEAN : Validates(p, q, [part[q] EXCEPT !.active = b])

\* remove counts the sales first.
BeginRemovePart(p, q) ==
  /\ At(p, "idle") /\ part[q].live /\ q \notin everSold
  /\ Looks(p, "removePart", "none", q)

removePricedPart(p) ==
  /\ At(p, "removePart")
  /\ Validates(p, call[p].who, [part[call[p].who] EXCEPT !.live = FALSE, !.active = FALSE])

\* A write whose allocation does not add up is rolled back.
Refused(p) ==
  /\ call[p].op \in {"updatePart", "removePart"}
  /\ End(p) /\ UNCHANGED partVars

\* changePrice validates the parts at the new price.
BeginChangePrice(p) ==
  /\ At(p, "idle")
  /\ \E a \in Amounts :
       /\ loadPartAllocation(part, a)
       /\ Looks(p, "changePrice", a, "none")

changePrice(p) ==
  /\ At(p, "changePrice")
  /\ price' = call[p].saw
  /\ End(p) /\ Commits(p)
  /\ UNCHANGED <<part, everSold>>

\* grantPartFromCode charges the part's line of the allocation, and nothing for one whose
\* allocation does not add up.
SellPart(q) ==
  /\ part[q].live /\ part[q].active
  /\ sold' = [sold EXCEPT ![q] =
                IF AllocationRefused(part, price) THEN 0 ELSE allocatePartPrices(part, price)[q]]
  /\ everSold' = everSold \cup {q}
  /\ UNCHANGED <<price, part, skewed, call>>

PartNext ==
  \/ \E p \in Calls :
       \/ BeginDefault(p) \/ createDefaultStructure(p)
       \/ updatePart(p) \/ removePricedPart(p) \/ Refused(p) \/ CommitParts(p)
       \/ BeginChangePrice(p) \/ changePrice(p)
       \/ \E q \in Parts : createPricedPart(p, q) \/ BeginUpdatePart(p, q) \/ BeginRemovePart(p, q)
  \/ \E q \in Parts : SellPart(q)

PartSpec == HandlersInit /\ PartInit /\ [][PartNext]_<<call, partVars>>

-----------------------------------------------------------------------------
\* Whoever buys every part of a course as it stands pays the price of the course, however the
\* parts came to be priced ("The result sums to the course price exactly"): the structure
\* always adds up and nobody is charged 0 for a part because it does not, unless a write was
\* committed between the check and the commit of another (revalidate, allocatePartPrices).
PartsPayTheCourse ==
  (~skewed /\ Active(part) # {} /\ \A q \in Active(part) : sold[q] # -1)
    => SumFunctionOnSet(sold, Active(part)) = price
=============================================================================
