CONSTANTS
    CHUNK = 2
    HostTexts <- MCHostTexts
    ServerFormatLists <- MCServerFormatLists
    CopiesSpaced = TRUE
    MaxCopies = 2
    MaxPastes = 2
    MaxUpdates = 1
    MaxStrays = 1
SPECIFICATION Spec
INVARIANTS
    TypeOK
    ReassemblyInOrder
    RemoteCopyMatchesFormat
    SessionSurvives
    ChunkRoundTrip
    OemTextNormalised
PROPERTIES
    PastesAnswered
