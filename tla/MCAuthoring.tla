---------------------------- MODULE MCAuthoring ----------------------------
(***************************************************************************)
(* Finite instances of the parts that make and run a course.  Each         *)
(* behaviour is about one of them, chosen in the initial state; the tables *)
(* of the others stand still.                                              *)
(***************************************************************************)
EXTENDS Ordering, CourseAdmin, Content, PartPrices, Announcements, Progress, TLC

CONSTANTS p1, p2, a1, a2         \* two requests in flight; two teachers, two tickets

VARIABLE desk                    \* the part this behaviour is about

\* Requests that are being handled.
Busy == {p \in Calls : call[p].op # "idle"}

TwoCalls == {p1, p2}
Two == {a1, a2}
OneStudent == {"s1"}
TwoLectures == {"l1", "l2"}
TwoSections == {"x1", "x2"}
OneClip == {"v1"}
EachItsSection(l) == IF l = "l1" THEN "x1" ELSE "x2"
SixtyForty == {4000, 6000, 10000}
FreeOrThree == {0, 3}

Symmetric == {f @@ g : f \in Permutations(TwoCalls), g \in Permutations(Two)}

-----------------------------------------------------------------------------
\* The initial states of the part at work differ; the others have one each.
Init ==
  /\ desk \in {"order", "staffing", "status", "content", "prices", "announce", "progress"}
  /\ HandlersInit /\ OrderInit /\ CourseInit /\ ContentInit /\ PartInit /\ AnnInit /\ ProgressInit
  /\ desk # "order" => kind = "section"
  /\ desk # "prices" => price = 0
  /\ desk # "progress" => rule = [type |-> "MANUAL", contiguous |-> FALSE]

\* A behaviour ends where two handlers have crossed and nothing is claimed any more (of an
\* announcement one fan-out of each occurrence still is: the recurring ones check that).
Next ==
  \/ /\ desk = "order" /\ OrderNext
     /\ UNCHANGED <<desk, call, courseVars, contentVars, partVars, annVars, progressVars>>
  \/ /\ \/ desk = "staffing" /\ StaffingStep
        \/ desk = "status" /\ StatusStep
     /\ UNCHANGED <<desk, orderVars, contentVars, partVars, annVars, progressVars>>
  \/ /\ desk = "content" /\ ~crossed /\ ContentNext
     /\ UNCHANGED <<desk, orderVars, courseVars, partVars, annVars, progressVars>>
  \/ /\ desk = "prices" /\ ~skewed /\ PartNext
     /\ UNCHANGED <<desk, orderVars, courseVars, contentVars, annVars, progressVars>>
  \/ /\ desk = "announce" /\ ~raced /\ AnnNext
     /\ UNCHANGED <<desk, orderVars, courseVars, contentVars, partVars, progressVars>>
  \/ /\ desk = "progress" /\ ProgressNext
     /\ UNCHANGED <<desk, orderVars, courseVars, contentVars, partVars, annVars>>

Spec == Init /\ [][Next]_<<desk, call, orderVars, courseVars, contentVars, partVars, annVars, progressVars>>
=============================================================================
