----------------------------- MODULE MCLibrary -----------------------------
(* A finite instance of Library: one material with two parts and a package. *)
EXTENDS Library, TLC

CONSTANTS s1, m1, p1, p2, g1, r1, o1, o2

OneStudent == {s1}
OneMaterial == {m1}
TwoParts == {p1, p2}
OnePackage == {g1}
AllOfOne == [t \in TwoParts \cup OnePackage |-> m1]
MCTargets == TwoParts \cup OnePackage
MCOrders == {o1, o2}
OneRequest == {r1}
None == {}
TwoPiastres == {2}
TwoPrices == {1, 2}

Symmetry == Permutations(TwoParts) \cup Permutations(MCOrders)
=============================================================================
