CONSTANTS
  p1 = p1  p2 = p2  a1 = a1  a2 = a2
  Calls <- TwoCalls
  Offers <- ThreeOffers
  Targets <- TargetsOf
  Rungs <- RungsOf
  MaxGrants = 2
  MaxLadders = 2
  Positions = {1}
  Listed = {"department"}
  MaxEdits = 4
  Phones <- Two
  Tokens <- Two
  People <- TwoPeople
  Notes <- TwoNotes
  Reminders <- OneReminder
  Addressee <- AddresseeOf
  TokenCap = 1
  FailureLimit = 2
  MaxPushes = 2
  Numbers <- OneNumber
  MaxFailedLogins = 2
  MaxPasswords = 2
  Keys <- Two
  Owners <- TwoOwners
  Rows = {1}
  Threads = {1, 2}
  References = {1, 2, 3}
  MaxMessages = 2
SPECIFICATION Spec
INVARIANTS
  TransferCreatesNothing
  ListedYearsAreCurrent
  LiveLinkIsStillEarned
  PagesTellTheTruth
  NewestPhoneRings
  SessionsMatchAccount
  RegisteredFileIsThere
  UnseenIsUnread
SYMMETRY Symmetric
CHECK_DEADLOCK FALSE
