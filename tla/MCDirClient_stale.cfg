CONSTANTS
  c1 = c1
  c2 = c2
  p1 = p1
  p2 = p2
  Cids <- MCCids
  Paths <- MCPaths
  ListResults <- MCListResults
  FileIdBits = 2
  MaxCreates = 2
  MaxInitialQueries = 1
  Majors = {"CREATE", "SET_INFORMATION", "CLOSE"}
  CreateDispositions = {3}
  SetInfoClasses = {"Disposition"}
  BrowserFs = TRUE
  InDir <- MCInDir
  InitialFs <- MCEmptyDirFs
  QueryLevelOk = {TRUE}
  TdpRepliesFramed = TRUE
SPECIFICATION Spec
SYMMETRY CidSymmetry
PROPERTY NonEmptyDirNeverDeleted
