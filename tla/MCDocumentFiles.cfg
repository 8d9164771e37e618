SPECIFICATION MCSpec
CONSTANTS
  x = x
  y = y
  Identities = {x, y}
  MaxMappings = 2
  Batches = {}
  Failed = Failed
  Processes = {p1, p2, p3}
  Outputs = {o1, o2}
  Documents <- MCDocs
  NoFile = NoFile
  Nobody = Nobody
  Commands = {c1, c2}
  Nodes = {n1, n2}
  LastPage = 2
  MaxSize = 2
  NoDocument = NoDocument
  Gone = Gone
  Users = {u1, u2}
  NoNode = NoNode
  Stranger = Stranger
  Texts <- MCTexts
  LabelKeys = {"p", "q"}
  Digits <- MCDigits
  Configurations <- MCConfigurations
  RedactString <- MCRedactString
  Blocks <- MCBlocks
  Markers <- MCMarkers
  MaxReplacements = 2
  MaxPlaceholder = 3
  Refused = Refused
  PageTexts <- MCPageTexts
  Rectangles <- MCRectangles
  HandRegions <- MCHandRegions
  PageWidth = 4
  PageHeight = 4
  PixelColumns = 6
  PixelRows = 6
  Overdraw = 1
  MaxGlyphs = 2
  MaxMarked = 2
  Pending = Pending
SYMMETRY Symmetry
CHECK_DEADLOCK FALSE
INVARIANTS
  TypeOK
  OutputsAreUndoable
  OnlyInterruptionsLeaveTraces
  DocumentsAreExact
PROPERTY NoOutputIsReplaced
