------------------------------ MODULE MCWallet ------------------------------
(* A finite instance of Wallet: two students, one print run of two cards, three requests. *)
EXTENDS Wallet, SequencesExt

CONSTANTS s1, s2, c1, c2, r1, r2, r3

MCStudents == {s1, s2}
MCCodes == {c1, c2}
MCBatches == {{c1, c2}}
MCRequests == {r1, r2, r3}
MCAmounts == {1, 2}
\* A full-price card, a card at half price (rounded half up), a giveaway, and a
\* discount above the face value, which is refused.
MCPrintTerms ==
  {[face |-> 2, type |-> "NONE", discount |-> 0],
   [face |-> 3, type |-> "PERCENTAGE", discount |-> 5000],
   [face |-> 2, type |-> "FIXED", discount |-> 2],
   [face |-> 2, type |-> "FIXED", discount |-> 3]}

Symmetry == Permutations(MCStudents) \cup Permutations(MCCodes) \cup Permutations(MCRequests)
=============================================================================
