----------------------------- MODULE Transfers -----------------------------
(***************************************************************************)
(* Moving a student from one course to another                             *)
(* (EnrollmentsService.transfer).  Everything is read and checked first;   *)
(* one serializable transaction then grants the destination, revokes the   *)
(* source and files the student where the destination is filed.            *)
(*                                                                         *)
(* One student; the catalogue stands still here (see Catalog).             *)
(***************************************************************************)
EXTENDS Handlers, Naturals, FiniteSets

CONSTANTS
  Offers,            \* the courses, each filed under a college of its own
  Targets(_),        \* the departments a course targets
  Rungs(_, _),       \* the active rungs of the ladder of a course's college or department
  MaxGrants          \* bound: purchases, cards and grants outside transfers

ASSUME TransferAssumption == IsFiniteSet(Offers) /\ MaxGrants \in Nat

VARIABLES
  place,     \* place[k]: the student's enrollment in course k
  inPart,    \* courses a part of which the student holds
  filed,     \* the student's academic profile
  granted,   \* history: accesses that did not come from a transfer
  changed    \* history: an enrollment changed under a transfer in flight

transferVars == <<place, inPart, filed, granted, changed>>

NoPlace == [state |-> "NONE", covers |-> FALSE, live |-> FALSE]
NoDepartment == "none"

TransferInit ==
  /\ place = [k \in Offers |-> NoPlace]
  /\ inPart = {}
  /\ filed \in {[at |-> k, department |-> d, rung |-> r] :
                  k \in Offers, d \in UNION {Targets(j) : j \in Offers}, r \in UNION {Rungs(j, NoDepartment) : j \in Offers}}
  /\ filed.department \in Targets(filed.at) /\ filed.rung \in Rungs(filed.at, filed.department)
  /\ granted = [any |-> 0, whole |-> 0] /\ changed = FALSE

InFlight == \E p \in Calls : At(p, "transfer")

\* A live row that covers the whole course stays whole (grantAccess).
WholeAfterMove(k, part) ==
  ~part \/ (place[k].state = "ACTIVE" /\ place[k].covers /\ place[k].live)

\* A payment, a card or an administrator opens a course, or a part of it.
Enrol(k, part) ==
  /\ granted.any < MaxGrants
  /\ ~(place[k].state = "ACTIVE" /\ place[k].covers /\ place[k].live)
  /\ place' = [place EXCEPT ![k] = [state |-> "ACTIVE", covers |-> ~part, live |-> TRUE]]
  /\ inPart' = IF part THEN inPart \cup {k} ELSE inPart
  /\ granted' = [any |-> granted.any + 1, whole |-> granted.whole + IF part THEN 0 ELSE 1]
  /\ changed' = (changed \/ InFlight)
  /\ UNCHANGED <<filed, call>>

\* The clock passes the end of an access; the row says ACTIVE until the sweep.
PlaceLapses(k) ==
  /\ place[k].state = "ACTIVE" /\ place[k].live
  /\ place' = [place EXCEPT ![k].live = FALSE]
  /\ UNCHANGED <<inPart, filed, granted, changed, call>>

\* revokeEnrollmentInTx.
Withdrawn(rows, k) == [rows EXCEPT ![k] = [state |-> "REVOKED", covers |-> FALSE, live |-> @.live]]

Withdraw(k) ==
  /\ place[k].state = "ACTIVE"
  /\ place' = Withdrawn(place, k)
  /\ inPart' = inPart \ {k}
  /\ changed' = (changed \/ InFlight)
  /\ UNCHANGED <<filed, granted, call>>

-----------------------------------------------------------------------------
\* The department the student is to be filed under: the one asked for, or the only one.
DepartmentsFor(k) ==
  IF Targets(k) = {} THEN {NoDepartment} ELSE Targets(k)

\* The destination's scope: a part, or the whole course for a student who holds the whole source.
ScopeGiven(from, part) == part \/ place[from].covers

\* The rung asked for, or the student's own, must be on the destination's ladder.
RungFits(k, d, r) == r \in Rungs(k, d)

\* A part-scoped transfer is refused for a student who holds the whole destination.
HoldsWholeDestination(k) == place[k].state = "ACTIVE" /\ place[k].covers /\ place[k].live

\* transfer's reads and checks.  For a REVOKED source it only answers that the student has
\* been transferred, or refuses.
BeginTransfer(p, from, to, part) ==
  /\ At(p, "idle") /\ from # to
  /\ place[from].state \notin {"NONE", "REVOKED"}
  /\ ScopeGiven(from, part)
  /\ part => ~HoldsWholeDestination(to)
  /\ \E d \in DepartmentsFor(to), r \in {filed.rung} \cup Rungs(to, NoDepartment) :
       /\ RungFits(to, d, r)
       /\ Go(p, "transfer", [part |-> part, department |-> d, rung |-> r], <<from, to>>)
  /\ UNCHANGED transferVars

\* Mutant: the transaction does not look at the source again.
SourceStillActive_Assumed(k) == TRUE

SourceStillActive(k) == place[k].state = "ACTIVE"

\* Its transaction, or the conflict that rolls it back.
transfer(p) ==
  LET from == call[p].who[1]  to == call[p].who[2]  t == call[p].saw IN
  /\ At(p, "transfer")
  /\ IF SourceStillActive(from)
     THEN /\ place' = [Withdrawn(place, from) EXCEPT ![to] =
                         [state |-> "ACTIVE", covers |-> WholeAfterMove(to, t.part), live |-> TRUE]]
          /\ inPart' = (inPart \ {from}) \cup (IF t.part THEN {to} ELSE {})
          /\ filed' = [at |-> to, department |-> t.department, rung |-> t.rung]
          /\ changed' = (changed \/ \E q \in Calls \ {p} : At(q, "transfer"))
     ELSE UNCHANGED <<place, inPart, filed, changed>>
  /\ End(p)
  /\ UNCHANGED granted

TransferNext ==
  \/ \E k \in Offers : (\E part \in BOOLEAN : Enrol(k, part)) \/ PlaceLapses(k) \/ Withdraw(k)
  \/ \E p \in Calls :
       (\E from, to \in Offers, part \in BOOLEAN : BeginTransfer(p, from, to, part)) \/ transfer(p)

TransferSpec == HandlersInit /\ TransferInit /\ [][TransferNext]_<<call, transferVars>>

-----------------------------------------------------------------------------
\* isTargetedToStudent: the student is filed where the course is, in a department it targets.
isTargetedToStudent(k) == filed.at = k /\ (Targets(k) # {} => filed.department \in Targets(k))

\* A transfer moves access and never makes any: two administrators who transfer the same
\* student at once, to one course or to two, leave no more courses open than were paid for or
\* granted; nor more whole courses, unless the source was exchanged under a transfer; and the
\* student stands on a rung of the college they were moved to, where the course opens to them
\* (transfer, isTargetedToStudent).
TransferCreatesNothing ==
  /\ Cardinality({k \in Offers : place[k].state = "ACTIVE"}) <= granted.any
  /\ ~changed => Cardinality({k \in Offers : place[k].state = "ACTIVE" /\ place[k].covers}) <= granted.whole
  /\ RungFits(filed.at, filed.department, filed.rung) /\ isTargetedToStudent(filed.at)
=============================================================================
