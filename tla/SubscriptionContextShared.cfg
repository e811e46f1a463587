SPECIFICATION Spec
CONSTANTS
  s1 = s1
  s2 = s2
  Streams = {s1, s2}
  roles = roles
  policy = policy
  Caches = {roles, policy}
  None = None
  MaxChanges = 2
  MaxVersion = 1
  MaxOthers = 1
  MaxFailures = 1
PROPERTY NextEventReads
CHECK_DEADLOCK FALSE
