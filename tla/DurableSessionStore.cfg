SPECIFICATION Spec
CONSTANTS
  Absent = Absent
  Torn = Torn
  None = None
  Servers = {s1, s2}
  Ids = {id1, id2}
  Archives = {1, 2}
  Size <- MCSize
  MaxCount = 2
  MaxBytes = 2
  MaxTotalBytes = 3
  MaxQueue = 1
SYMMETRY Symmetry
CONSTRAINT FewAtRisk
INVARIANTS
  TypeOK
  PromisesSurvive
  DirectoryStaysAcceptable
PROPERTIES
  ImplementsShelf
