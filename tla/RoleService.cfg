SPECIFICATION FairSpec
CONSTANTS
  i1 = i1
  i2 = i2
  Instances = {i1, i2}
  Owner = Owner
  User = User
  moderator = moderator
  made = made
  Names <- AllNames
  Defaults <- SeededNames
  Seeded = seeded
  Values = {seeded}
  Protected = Protected
  Absent = Absent
  Stored <- WithoutOwner
  MaxHappenings = 2
INVARIANT TypeOK
INVARIANT ServesMandatory
INVARIANT HeardAllInLine
PROPERTY EventuallyInLine
CHECK_DEADLOCK FALSE
