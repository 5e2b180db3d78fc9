----------------------------- MODULE MCPayments -----------------------------
(* Finite instances of Payments: one student and one course. *)
EXTENDS Payments

CONSTANTS s1, k1, r1, r2, h1, h2, key1, key2

OneStudent == {s1}
OneCourse == {k1}
NoSections == {}
OneRequest == {r1}
TwoRequests == {r1, r2}
TwoHooks == {h1, h2}
TwoKeys == {key1, key2}
OnePrice == {2}
HalfShare == {5000}
NoLimit == [k \in OneCourse |-> [type |-> "LIFETIME", days |-> 0, until |-> 0]]

Symmetry == Permutations(TwoRequests) \cup Permutations(TwoHooks) \cup Permutations(TwoKeys)
=============================================================================
