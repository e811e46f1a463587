SPECIFICATION Spec
CONSTANTS
  s1 = s1
  s2 = s2
  Slots = {s1, s2}
  Asks <- SomeAsks
  Mays <- TwoKinds
  MaxAsked = 3
SYMMETRY Symmetry
INVARIANT ColumnsMirrorTheRole
INVARIANT NothingWithoutSight
INVARIANT OwnRightsAreMarked
INVARIANT UntouchedShowsAsItsTemplate
INVARIANT OpenListStaysOpen
PROPERTY PrivacyIsCapped
CHECK_DEADLOCK FALSE
