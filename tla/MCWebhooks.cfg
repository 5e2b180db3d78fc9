CONSTANTS
  s1 = s1  k1 = k1  r1 = r1  r2 = r2  h1 = h1  h2 = h2
  key1 = key1  key2 = key2
  Forever = Forever
  Nobody = Nobody
  Students <- OneStudent
  Courses <- OneCourse
  Sections <- NoSections
  Parts <- NoSections
  CourseTerms <- NoLimit
  MaxPayments = 1
  MaxTime = 0
  Requests <- OneRequest
  Hooks <- TwoHooks
  Prices <- OnePrice
  Shares <- HalfShare
  RefundKeys <- TwoKeys
  MaxRows = 3
  Online = TRUE
SPECIFICATION Spec
SYMMETRY Symmetry
INVARIANTS
  RefundedNeverExceedsPaid
CHECK_DEADLOCK FALSE
