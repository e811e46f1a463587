SPECIFICATION Spec
CONSTANTS
  a1 = a1
  a2 = a2
  a3 = a3
  Accounts = {a1, a2, a3}
  made1 = made1
  made2 = made2
  Roles <- MadeRoles
  Owner = Owner
  User = User
  None = None
  MaxCalls = 3
SYMMETRY Symmetry
INVARIANT EveryoneHasARole
INVARIANT OwnerEdgeRemains
CHECK_DEADLOCK FALSE
PROPERTY OnlyADeletionOrphans
