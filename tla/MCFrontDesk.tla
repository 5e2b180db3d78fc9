---------------------------- MODULE MCFrontDesk ----------------------------
(***************************************************************************)
(* Finite instances of the parts that deal with one student: accounts,     *)
(* transfers, the catalogue they choose from, pages and documents,         *)
(* uploads, notices and support.  Each behaviour is about one of them,     *)
(* chosen in the initial state; the tables of the others stand still.      *)
(***************************************************************************)
EXTENDS Transfers, Catalog, Pages, Notices, Accounts, Uploads, Support, TLC

CONSTANTS p1, p2, a1, a2         \* two requests in flight; two devices, two push tokens, two keys

VARIABLE desk                    \* the part this behaviour is about

\* Requests that are being handled.
Busy == {p \in Calls : call[p].op # "idle"}

TwoCalls == {p1, p2}
Two == {a1, a2}
OneNumber == {"n1"}
ThreeOffers == {1, 2, 3}
TargetsOf(k) == CASE k = 1 -> {"d1"} [] k = 2 -> {} [] OTHER -> {"d3", "d4"}
RungsOf(k, d) == CASE k = 2 -> {"y1", "y2"} [] d = "d4" -> {"y2"} [] OTHER -> {"y1"}
TwoPeople == {"u1", "u2"}
TwoNotes == {"n1", "n2"}
OneReminder == {"n1"}
AddresseeOf(n) == IF n = "n1" THEN "u1" ELSE "u2"
TwoOwners == {"c1", "c2"}

Symmetric == {f @@ g : f \in Permutations(TwoCalls), g \in Permutations(Two)}

-----------------------------------------------------------------------------
\* The initial states of the part at work differ; the others have one each.
Init ==
  /\ desk \in {"transfer", "catalog", "pages", "notices", "accounts", "uploads", "support"}
  /\ HandlersInit /\ TransferInit /\ CatalogInit /\ DocInit /\ NoticeInit /\ AccountInit /\ UploadInit
  /\ SupportInit
  /\ desk # "transfer" => filed = [at |-> 1, department |-> "d1", rung |-> "y1"]
  /\ desk # "catalog" => system.default = "none"
  /\ desk # "pages" => shelf = "course"

\* A behaviour ends where two handlers have crossed and nothing is claimed any more.  At the
\* catalogue, where every write is a crossing, one request at a time is in flight.
Next ==
  \/ /\ desk = "transfer" /\ TransferNext
     /\ UNCHANGED <<desk, catalogVars, docVars, noticeVars, accountVars, uploadVars, supportVars>>
  \/ /\ desk = "catalog" /\ ~outdated /\ CatalogNext /\ Cardinality(Busy') <= 1
     /\ UNCHANGED <<desk, transferVars, docVars, noticeVars, accountVars, uploadVars, supportVars>>
  \/ /\ desk = "pages" /\ DocNext
     /\ UNCHANGED <<desk, call, transferVars, catalogVars, noticeVars, accountVars, uploadVars, supportVars>>
  \/ /\ desk = "notices" /\ ~crowded /\ NoticeNext
     /\ UNCHANGED <<desk, transferVars, catalogVars, docVars, accountVars, uploadVars, supportVars>>
  \/ /\ desk = "accounts" /\ ~hasty /\ AccountNext
     /\ UNCHANGED <<desk, transferVars, catalogVars, docVars, noticeVars, uploadVars, supportVars>>
  \/ /\ desk = "uploads" /\ ~reused /\ UploadNext
     /\ UNCHANGED <<desk, transferVars, catalogVars, docVars, noticeVars, accountVars, supportVars>>
  \/ /\ desk = "support" /\ ~crossing /\ SupportNext
     /\ UNCHANGED <<desk, transferVars, catalogVars, docVars, noticeVars, accountVars, uploadVars>>

Spec ==
  Init /\ [][Next]_<<desk, call, transferVars, catalogVars, docVars, noticeVars, accountVars, uploadVars, supportVars>>
=============================================================================
