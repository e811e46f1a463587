SPECIFICATION FairSpec
CONSTANTS
  i1 = i1
  i2 = i2
  standard = standard
  other = other
  later = later
  k1 = k1
  Instances = {i1, i2}
  Keys = {k1}
  Values <- OldAndNew
  Valid <- OlderSecond
  Default = standard
  None = None
  NoKey = NoKey
  MaxHappenings = 2
INVARIANT ServesValidValues
PROPERTY ResyncGoesForward
PROPERTY EventuallyInLine
CHECK_DEADLOCK FALSE
