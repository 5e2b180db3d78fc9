------------------------------- MODULE Codes -------------------------------
(***************************************************************************)
(* The table of printed codes (AccessCode, CodeBatch) and their            *)
(* redemptions (AccessCodeRedemption), src/modules/codes/codes.service.ts. *)
(*                                                                         *)
(* A code is either a RECHARGE card, worth wallet credit, or an ACCESS     *)
(* card, worth a course.  Redemption belongs to the component that gives   *)
(* the value (Wallet for recharge cards, Enrollments for access cards) and *)
(* runs in that component's transaction; this module holds the shared row  *)
(* and the operations the codes service performs on its own.               *)
(***************************************************************************)
EXTENDS Platform, FiniteSets

CONSTANTS
  Codes,      \* the code rows that may ever be printed
  Batches,    \* CodeBatch rows: a partition of Codes into print runs
  NoOne,      \* reservedForUserId = null
  RechargeMin, RechargeMax,   \* the configured face-value bounds, piastres
  AllowOverride               \* may an admin print below the minimum

ASSUME CodesAssumption ==
  /\ Batches \subseteq SUBSET Codes
  /\ \A c \in Codes : \E b \in Batches : c \in b
  /\ NoOne \notin Students
  /\ RechargeMin \in Nat /\ RechargeMax \in Nat /\ AllowOverride \in BOOLEAN

VARIABLES
  code,         \* code[c]: the access_codes row
  redemptions   \* access_code_redemptions, unique on (codeId, userId)

CodeStatuses == {"UNISSUED", "ACTIVE", "REVOKED", "EXPIRED", "EXHAUSTED"}
CodeKinds == {"RECHARGE", "ACCESS"}

CodeRows ==
  [kind : CodeKinds, status : CodeStatuses, count : Nat, max : Nat,
   reserved : Students \cup {NoOne}, expires : BOOLEAN, lapsed : BOOLEAN,
   face : Nat, paid : Nat, credit : Nat]

UnissuedRow ==
  [kind |-> "ACCESS", status |-> "UNISSUED", count |-> 0, max |-> 1,
   reserved |-> NoOne, expires |-> FALSE, lapsed |-> FALSE,
   face |-> 0, paid |-> 0, credit |-> 0]

CodesInit ==
  /\ code = [c \in Codes |-> UnissuedRow]
  /\ redemptions = {}

CodesTypeOK ==
  /\ code \in [Codes -> CodeRows]
  /\ redemptions \subseteq Codes \X Students

-----------------------------------------------------------------------------
\* createMany of a print run: every card of the batch gets the same terms.
IssueBatch(b, terms) ==
  /\ \A c \in b : code[c].status = "UNISSUED"
  /\ code' = [c \in Codes |-> IF c \in b THEN terms ELSE code[c]]
  /\ UNCHANGED redemptions

\* generateBatch: ACCESS cards with a number of uses.
generateBatch(b, uses, reserved, expires) ==
  IssueBatch(b, [UnissuedRow EXCEPT !.status = "ACTIVE", !.max = uses,
                                    !.reserved = reserved, !.expires = expires])

\* generateRechargeBatch: single-use RECHARGE cards with frozen amounts.
generateRechargeBatch(b, face, type, discount, override, reserved, expires) ==
  LET money == resolveDiscount(face, type, discount)
  IN  /\ DiscountAccepted(face, type, discount)
      /\ face <= RechargeMax
      /\ face >= RechargeMin \/ (override /\ AllowOverride)
      /\ IssueBatch(b, [UnissuedRow EXCEPT
           !.kind = "RECHARGE", !.status = "ACTIVE",
           !.reserved = reserved, !.expires = expires,
           !.face = money.face, !.paid = money.paid, !.credit = money.credit])

\* The clock passes a code's expiresAt.
ExpiryPasses(c) ==
  /\ code[c].status # "UNISSUED" /\ code[c].expires /\ ~code[c].lapsed
  /\ code' = [code EXCEPT ![c].lapsed = TRUE]
  /\ UNCHANGED redemptions

\* revoke: conditional on ACTIVE, so a card already used is left alone.
revoke(c) ==
  /\ code[c].status = "ACTIVE"
  /\ code' = [code EXCEPT ![c].status = "REVOKED"]
  /\ UNCHANGED redemptions

\* revokeBatch: the same, for every card of the run.
revokeBatch(b) ==
  /\ \E c \in b : code[c].status = "ACTIVE"
  /\ code' = [c \in Codes |-> IF c \in b /\ code[c].status = "ACTIVE"
                              THEN [code[c] EXCEPT !.status = "REVOKED"]
                              ELSE code[c]]
  /\ UNCHANGED redemptions

\* expireLapsedCodes: the maintenance job.
expireLapsedCodes ==
  /\ \E c \in Codes : code[c].status = "ACTIVE" /\ code[c].lapsed
  /\ code' = [c \in Codes |-> IF code[c].status = "ACTIVE" /\ code[c].lapsed
                              THEN [code[c] EXCEPT !.status = "EXPIRED"]
                              ELSE code[c]]
  /\ UNCHANGED redemptions

-----------------------------------------------------------------------------
\* The checks both redemption paths make on the row they read.
CodeHonoured(c, u, kind) ==
  /\ code[c].kind = kind
  /\ code[c].status \notin {"UNISSUED", "REVOKED"}
  /\ kind = "RECHARGE" => code[c].status # "EXPIRED"
  /\ ~code[c].lapsed
  /\ code[c].reserved \in {NoOne, u}
  /\ code[c].count < code[c].max
  /\ <<c, u>> \notin redemptions

\* The writes both redemption paths make: the redemption row, then the counter
\* and, at the last use, the status.
UseCode(c, u) ==
  LET next == code[c].count + 1
  IN  /\ redemptions' = redemptions \cup {<<c, u>>}
      /\ code' = [code EXCEPT ![c].count = next,
                              ![c].status = IF next >= code[c].max
                                            THEN "EXHAUSTED" ELSE @]
=============================================================================
