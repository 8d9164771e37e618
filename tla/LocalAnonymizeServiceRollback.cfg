SPECIFICATION Spec
CONSTANTS
  None = None
  Absent = Absent
  Ids = {id1}
  Ops = {o1, o2, o3}
  LifecycleIds = {}
  Modes = {TRUE}
  MaxSessions = 1
INVARIANTS
  UnpublishedIsRolledBack
