CONSTANTS
  s1 = s1  s2 = s2  k1 = k1  k2 = k2  c1 = c1  c2 = c2  r1 = r1  t1 = t1  t2 = t2
  key1 = key1  x = x  y = y  part1 = part1
  Forever = Forever
  Nobody = Nobody
  NoOne = NoOne
  NoPart = NoPart
  Students <- TwoStudents
  Courses <- TwoCourses
  Sections <- TwoSections
  Parts <- OnePart
  CourseTerms <- CourseUntil
  MaxPayments = 1
  MaxTime = 2
  Requests <- OneRequest
  Hooks <- None
  Prices <- OnePrice
  Shares <- OneShare
  RefundKeys <- OneKey
  MaxRows = 1
  Online = FALSE
  Codes <- TwoCards
  Batches <- TwoBatches
  RechargeMin = 1
  RechargeMax = 1
  AllowOverride = FALSE
  Tasks <- TwoTasks
  Cards <- SectionAndPart
  FreeCourses <- TwoCourses
  Reserved <- Unreserved
  ExtendDays <- OneDay
  PartSections <- BothSections
SPECIFICATION MCSpec
INVARIANTS
  HoldingsAreRedeemed
PROPERTIES
  SectionCardNeverOpensCourse
CHECK_DEADLOCK FALSE
