------------------------------ MODULE Platform ------------------------------
(***************************************************************************)
(* What the components that move money or access share: who the students   *)
(* are, and the arithmetic of amounts, in whole piastres (1/100 EGP) and   *)
(* whole basis points (1/100 %), as src/modules/wallet/money.ts,           *)
(* src/modules/wallet/discount.ts and the revenue splits compute it.       *)
(*                                                                         *)
(* A parsed amount is a natural number of piastres; text that does not     *)
(* parse (a sign, a third decimal, anything above the ceiling) has no      *)
(* piastre value and the operation that received it refuses.               *)
(***************************************************************************)
EXTENDS Integers

CONSTANT Students   \* the students' user ids

\* MAX_PIASTRES: one million EGP, the ceiling of every amount and balance.
MAX_PIASTRES == 1000000 * 100

\* 100 % in basis points.
FullBasisPoints == 10000

\* toPiastres: the amounts that parse.
IsPiastres(p) == p \in Nat /\ p <= MAX_PIASTRES

\* toBasisPoints: the percentages that parse.
IsBasisPoints(bp) == bp \in Nat /\ bp <= FullBasisPoints

\* percentOf: half-up to the nearest piastre.
percentOf(p, bp) == (p * bp + 5000) \div 10000

DiscountTypes == {"NONE", "PERCENTAGE", "FIXED"}

\* The discount in piastres; an unparsable or absent discount is refused by
\* DiscountAccepted below.
DiscountPiastres(face, type, discount) ==
  CASE type = "PERCENTAGE" -> percentOf(face, discount)
    [] type = "FIXED"      -> discount
    [] type = "NONE"       -> 0

\* resolveDiscount refuses a discount above the face value.
DiscountAccepted(face, type, discount) ==
  /\ IsPiastres(face)
  /\ type = "PERCENTAGE" => IsBasisPoints(discount)
  /\ type = "FIXED" => IsPiastres(discount)
  /\ DiscountPiastres(face, type, discount) <= face

\* resolveDiscount: what the student pays, and the credit the card carries.
resolveDiscount(face, type, discount) ==
  LET paid == face - DiscountPiastres(face, type, discount)
  IN  [face |-> face, paid |-> paid, credit |-> paid]
=============================================================================
