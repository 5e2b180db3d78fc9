------------------------------ MODULE MCVideos ------------------------------
(* Finite instances of Delivery and of Videos.                              *)
EXTENDS Videos, TLC

CONSTANTS w1, r1, r2

OneWorker == {w1}
OneRequest == {r1}
TwoRequests == {r1, r2}
Symmetric == Permutations(TwoRequests)
=============================================================================
