SPECIFICATION Spec
CONSTANTS
  s1 = s1
  s2 = s2
  Slots = {s1, s2}
  Asks <- SomeAsks
  Mays <- TwoKinds
  MaxAsked = 1
SYMMETRY Symmetry
PROPERTY ShowMembersIsForClosedGroups
CHECK_DEADLOCK FALSE
