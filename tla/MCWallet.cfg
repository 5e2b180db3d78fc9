CONSTANTS
  s1 = s1  s2 = s2  c1 = c1  c2 = c2  r1 = r1  r2 = r2  r3 = r3
  NoOne = NoOne
  NoKey = NoKey
  Students <- MCStudents
  Codes <- MCCodes
  Batches <- MCBatches
  Requests <- MCRequests
  Amounts <- MCAmounts
  PrintTerms <- MCPrintTerms
  Refs <- MCCodes
  MaxMoney = 3
  RechargeMin = 2
  RechargeMax = 3
  AllowOverride = TRUE
SPECIFICATION Spec
SYMMETRY Symmetry
INVARIANTS
  LedgerExplainsBalance
  BalanceReadable
  CardRedeemedWhole
CHECK_DEADLOCK FALSE
