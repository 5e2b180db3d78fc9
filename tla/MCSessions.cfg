CONSTANTS
  s1 = s1  t1 = t1  t2 = t2  t3 = t3  i1 = i1  d1 = d1  c1 = c1  c2 = c2
  Null = Null
  SessionIds <- OneSession
  TokenIds <- ThreeTokens
  ChangeIds <- OneChange
  Devices <- OneDevice
  Calls <- TwoCalls
  DeviceLimit = 1
  AutoBindFirst = TRUE
  MaxPasswords = 1
  MaxResets = 1
SPECIFICATION SessionsSpec
SYMMETRY Symmetry
INVARIANTS
  RotatedOnce
  RevokedTokenIsOfEndedSession
  OpenSessionKeepsDevice
PROPERTIES
  ReuseEndsFamily
CHECK_DEADLOCK FALSE
