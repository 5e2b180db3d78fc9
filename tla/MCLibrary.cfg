CONSTANTS
  s1 = s1  m1 = m1  p1 = p1  p2 = p2  g1 = g1  r1 = r1  o1 = o1  o2 = o2
  NoOne = NoOne
  NoKey = NoKey
  Students <- OneStudent
  Codes <- None
  Batches <- None
  Requests <- OneRequest
  Amounts <- TwoPiastres
  PrintTerms <- None
  Refs <- MCTargets
  MaxMoney = 2
  RechargeMin = 1
  RechargeMax = 2
  AllowOverride = FALSE
  Materials <- OneMaterial
  LibParts <- TwoParts
  Packages <- OnePackage
  MaterialOf <- AllOfOne
  LibPrices <- TwoPrices
  Orders <- MCOrders
SPECIFICATION LibrarySpec
SYMMETRY Symmetry
INVARIANTS
  HeldIsBought
  PurchasesMatchLedger
PROPERTIES
  SoldIsOnSale
CHECK_DEADLOCK FALSE
