SPECIFICATION Spec
CONSTANTS
  Me = Me
  o1 = o1
  Others = {o1}
  a = a
  b = b
  Rooms = {a, b}
  NoRoom = NoRoom
  PageSize = 1
  MaxAsking = 2
  MaxMessages = 2
  MaxHappenings = 5
SYMMETRY Symmetry
INVARIANT TypeOK
INVARIANT ShownOnceInItsRoom
INVARIANT StatusIsTrue
INVARIANT StatusArrives
INVARIANT UnseenIsWatched
INVARIANT NoGaps
PROPERTY ReadIsReported
CHECK_DEADLOCK FALSE
