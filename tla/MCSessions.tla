----------------------------- MODULE MCSessions -----------------------------
(* A finite instance of Sessions: one session, its tokens and one device. *)
EXTENDS Sessions, TLC

CONSTANTS s1, t1, t2, t3, i1, d1, c1, c2

OneSession == {s1}
ThreeTokens == {t1, t2, t3}
OneChange == {i1}
OneDevice == {d1}
TwoCalls == {c1, c2}

Symmetry == Permutations(ThreeTokens) \cup Permutations(TwoCalls)
=============================================================================
