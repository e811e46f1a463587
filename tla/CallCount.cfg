SPECIFICATION Spec
CONSTANTS
  r1 = r1
  r2 = r2
  Rooms = {r1, r2}
  NoRoom = NoRoom
  Nothing = Nothing
  NoQuery = NoQuery
  MaxCount = 1
  MaxMoves = 4
  MaxAsks = 1
  MaxFailures = 1
  MaxDisturbed = 1
PROPERTY OwedUntilOut
PROPERTY RunningIsCorrected
CHECK_DEADLOCK FALSE
