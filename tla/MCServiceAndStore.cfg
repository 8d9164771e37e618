SPECIFICATION MCSpec
CONSTANTS
  None = None
  Absent = Absent
  Ids = {id1, id2}
  Ops = {o1, o2, o3}
  LifecycleIds = {id2}
  Modes = {TRUE, FALSE}
  MaxSessions = 1
  Torn = Torn
  Servers = {s1, s2}
  Archives = {small}
  Size <- MCSize
  MaxCount = 1
  MaxBytes = 2
  MaxTotalBytes = 3
  MaxQueue = 2
INVARIANTS
  TypeOK
  PublishedOutputsRestore
  MemoryMatchesLock
  NoOwnSessionIsStuck
  RollbackLeavesNoTrace
PROPERTIES
  EveryCloseEnds
