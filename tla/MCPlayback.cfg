CONSTANTS
  q1 = q1  q2 = q2  b1 = b1  b2 = b2
  Issues <- TwoIssues
  Beats <- TwoBeats
  MaxTickets = 2
  MaxAttempts = 2
  maxPlaysPerVideo = 1
  ticketTtl = 2
  heartbeatGrace = 1
  playResumeWindow = 5
SPECIFICATION Spec
INVARIANTS
  PlaysWithinLimit
  RunningPlayIsOpen
PROPERTY
  LostAccessEndsPlayback
CHECK_DEADLOCK FALSE
