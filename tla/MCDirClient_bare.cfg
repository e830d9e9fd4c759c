CONSTANTS
  c1 = c1
  c2 = c2
  p1 = p1
  p2 = p2
  Cids <- MCCids
  Paths <- MCPaths
  ListResults <- MCListResults
  FileIdBits = 2
  MaxCreates = 1
  MaxInitialQueries = 1
  Majors = {"CREATE"}
  CreateDispositions = {1}
  SetInfoClasses = {"Rename", "Disposition", "Basic", "Other"}
  BrowserFs = FALSE
  InDir = {}
  InitialFs <- MCNoFs
  QueryLevelOk = {TRUE, FALSE}
  TdpRepliesFramed = TRUE
SPECIFICATION Spec
SYMMETRY Symmetry
INVARIANT NoBareCompletion
