------------------------- MODULE MCAccountDeletion -------------------------
(* A finite instance of AccountDeletion: one student and one recharge card. *)
EXTENDS AccountDeletion

CONSTANTS s1, c1, r1, r2, r3

OneStudent == {s1}
OneCard == {c1}
OneBatch == {OneCard}
OneRequest == {r1}
ThreeRequests == {r1, r2, r3}
OnePiastre == {1}
FullPrice == {[face |-> 1, type |-> "NONE", discount |-> 0]}
CardsAndDeletions == OneCard \cup DeletionIds
=============================================================================
