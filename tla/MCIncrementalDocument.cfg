SPECIFICATION MCSpec
CONSTANTS
  Ids = {a, b, c, d}
  quiet = quiet
  loud = loud
  broken = broken
  long = long
  Texts = {quiet, loud, broken, long}
  m = m
  Metas = {m, n}
  Quiet = {quiet}
  Broken = {broken}
  Size <- MCSize
  MaxBlocks = 3
  MaxBlock = 3
  MaxBytes = 5
  Radii = {1}
  Failed = Failed
  MaxRevision = 2
  Patches <- MCPatches
  NoReport = NoReport
  MinRetired = 1
INVARIANTS RecordsMatchDocument CacheHoldsCurrentFindings PatchedInPlaceAsWhole
SYMMETRY Symmetry
PROPERTY ImplementsAnalysis
