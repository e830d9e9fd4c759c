CONSTANTS
  c1 = c1
  c2 = c2
  p1 = p1
  p2 = p2
  Cids <- MCCids
  Paths <- MCPaths
  ListResults <- MCListResults
  FileIdBits = 2
  MaxCreates = 1
  MaxInitialQueries = 1
  Majors = {"CREATE", "CLOSE", "QUERY_INFORMATION", "READ", "WRITE", "DEVICE_CONTROL", "DIRECTORY_CONTROL", "QUERY_VOLUME_INFORMATION", "SET_INFORMATION"}
  CreateDispositions = {0, 1, 2, 3, 4, 5}
  SetInfoClasses = {"Rename", "Disposition", "Basic", "Other"}
  BrowserFs = FALSE
  InDir = {}
  InitialFs <- MCNoFs
  QueryLevelOk = {TRUE, FALSE}
  TdpRepliesFramed = TRUE
SPECIFICATION Spec
INVARIANT TypeOK
INVARIANT CompletionCorrelation
INVARIANT DirListingOrder
PROPERTY ReplyMatchesIrp
PROPERTY DeleteOnCloseHonoured
PROPERTY IrpServiceRefined
SYMMETRY Symmetry
