SPECIFICATION Spec
CONSTANTS
    MaxChunkBytes = 3
    WordOverhead = 1
    MaxAddressInput = 60
    MaxNewtype = 4
    StringCompat = TRUE
    WriteMimePart <- WritePart
    ReadMimePart <- ReadPart
    MimePartSchema <- PartSchema
    AppProviderKey <- MCAppProviderKey
    Scenarios <- MCScenarios
    JsonValues <- MCJsonValues
INVARIANTS
    WorkerSeesRequest
    SchemaAdmitsRequests
    EveryoneAddressed
    ReportsAgree
    OneOptionPerKey
    PayloadComplete
CHECK_DEADLOCK FALSE
