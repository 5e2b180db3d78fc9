CONSTANTS
  s1 = s1  c1 = c1  r1 = r1  r2 = r2  r3 = r3
  NoOne = NoOne
  NoKey = NoKey
  Students <- OneStudent
  Codes <- OneCard
  Batches <- OneBatch
  Requests <- ThreeRequests
  Amounts <- OnePiastre
  PrintTerms <- FullPrice
  Refs <- CardsAndDeletions
  MaxMoney = 2
  RechargeMin = 1
  RechargeMax = 2
  AllowOverride = FALSE
  MaxDeletions = 2
  MaxAttempts = 2
  MaxCrashes = 1
SPECIFICATION DeletionSpec
INVARIANTS
  HoldBlocksErasure
  SettlementMatchesLedger
PROPERTIES
  DueRequestIsHandled
CHECK_DEADLOCK FALSE
