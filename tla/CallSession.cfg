SPECIFICATION Spec
CONSTANTS
  u1 = u1
  u2 = u2
  Users = {u1, u2}
  NoUser = NoUser
  MaxSid = 2
  MaxSessions = 2
  MaxRestarts = 0
  ReportsCarrySid = TRUE
  PollWithinGrace = TRUE
SYMMETRY Symmetry
INVARIANT OneRunningSession
INVARIANT ChatOnlyForThoseInTheCall
PROPERTY LiveSessionEndsByJoinOnly
PROPERTY ImplementsGroupCall
CHECK_DEADLOCK FALSE
