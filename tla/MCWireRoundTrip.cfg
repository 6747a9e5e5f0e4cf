SPECIFICATION Spec
CONSTANTS
    MaxChunkBytes = 3
    WordOverhead = 1
    MaxAddressInput = 58
    HardLineLen = 12
    NameLength <- MCNameLength
    FileNames <- MCFileNames
    QpLineLen = 6
    DelimiterWidth = 3
    MaxDepth = 2
    MaxParts = 3
    MaxAttempts = 2
    Messages <- MCMessages
    Inbound <- MCInbound
    Options <- MCOptions
    MaxHops = 2
    MaxInput = 250
    RenderPayload <- BuildRenderPayload
    ReadBody <- ParseBody
    BodySize <- BodyWidth
INVARIANT
    LinesWithinLimit
PROPERTIES
    RenderedParses
    FieldsSurvive
    BodySurvives
    Settled
CHECK_DEADLOCK FALSE
