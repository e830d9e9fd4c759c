CONSTANTS
  c1 = c1
  c2 = c2
  p1 = p1
  p2 = p2
  Cids <- MCCids
  Paths <- MCPaths
  ListResults <- MCListResults
  FileIdBits = 2
  MaxCreates = 1
  MaxInitialQueries = 1
  Majors = {"CREATE", "CLOSE", "READ", "DIRECTORY_CONTROL", "SET_INFORMATION"}
  CreateDispositions = {0, 1, 2, 3, 4, 5}
  SetInfoClasses = {"Rename", "Disposition"}
  BrowserFs = FALSE
  InDir = {}
  InitialFs <- MCNoFs
  QueryLevelOk = {TRUE}
  TdpRepliesFramed = FALSE
SPECIFICATION Spec
PROPERTY IrpsEventuallyCompleted
