SPECIFICATION Spec
CONSTANTS
  None = None
  Absent = Absent
  Ids = {id1}
  Ops = {o1, o2, o3}
  LifecycleIds = {id1}
  Modes = {TRUE}
  MaxSessions = 1
INVARIANTS
  NoSessionIsStuck
