CONSTANTS
  p1 = p1  p2 = p2  a1 = a1  a2 = a2
  Calls <- TwoCalls
  Items = {1, 2, 3}
  MaxPos = 3
  Students <- OneStudent
  Teachers <- Two
  MaxArchives = 2
  Lectures <- TwoLectures
  Sections <- TwoSections
  Clips <- OneClip
  SectionOf <- EachItsSection
  MaxParts = 2
  Percents <- SixtyForty
  Amounts <- FreeOrThree
  MaxTime = 2
  Period = 1
  MaxCount = 2
  Plays <- Two
  Duration = 2
  MaxDelta = 1
  MaxWatched = 2
  Threshold = 60
SPECIFICATION Spec
INVARIANTS
  NobodyApprovedByRestore
  ContentInOrder
  PartsPayTheCourse
  NothingSentTwice
  ProgressOnEvidence
PROPERTY
  NeighboursKeepOrder
SYMMETRY Symmetric
CHECK_DEADLOCK FALSE
