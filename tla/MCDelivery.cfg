CONSTANTS
  w1 = w1  r1 = r1  r2 = r2
  NoCall = NoCall
  Workers = {}
  Requests <- TwoRequests
  MaxUploads = 2
  MaxAssets = 2
  MaxJobs = 1
SPECIFICATION DeliverySpec
INVARIANTS
  ServedIsEncrypted
PROPERTY
  ImplementsProtection
SYMMETRY Symmetric
CHECK_DEADLOCK FALSE
