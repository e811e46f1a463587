SPECIFICATION FairSpec
CONSTANTS
  u1 = u1
  Users = {u1}
  NoUser = NoUser
  MaxSid = 2
  MaxSessions = 2
  MaxRestarts = 1
  ReportsCarrySid = FALSE
  PollWithinGrace = TRUE
PROPERTY GoneCallIsEnded
CHECK_DEADLOCK FALSE
