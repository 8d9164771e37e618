SPECIFICATION Spec
CONSTANTS
  Calls = {text, pdf1, pdf2}
  Writers = {text, pdf1}
  PdfCalls = {pdf1, pdf2}
  Paths = {shared}
  Path <- OnePath
  NoFile = NoFile
  Foreign = Foreign
  Nobody = Nobody
CHECK_DEADLOCK FALSE
INVARIANTS
  OperationsAreAccounted
  OutputsAreSafe
PROPERTIES
  OthersFilesStay
  EverythingEnds
