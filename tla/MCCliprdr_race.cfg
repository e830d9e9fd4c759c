CONSTANTS
    CHUNK = 2
    HostTexts <- MCHostTexts
    ServerFormatLists <- MCServerFormatLists
    CopiesSpaced = FALSE
    MaxCopies = 2
    MaxPastes = 2
    MaxUpdates = 2
    MaxStrays = 1
SPECIFICATION Spec
INVARIANT
    RemoteCopyMatchesFormat
