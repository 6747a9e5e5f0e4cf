SPECIFICATION Spec
CONSTANTS
    MaxChunkBytes = 3
    WordOverhead = 1
    MaxAddressInput = 58
    HardLineLen = 12
    NameLength <- MCNameLength
    FileNames <- MCFileNames
    QpLineLen = 6
    DelimiterWidth = 3
    MaxDepth = 2
    MaxParts = 3
    MaxAttempts = 2
    Messages <- NoMessages
    Inbound <- QInbound
    Options <- OneOption
    MaxHops = 2
    MaxInput = 250
    RenderPayload <- BuildRenderPayload
    ReadBody <- ParseBody
    BodySize <- BodyWidth
INVARIANT
    EncodedWordsDecoded
CHECK_DEADLOCK FALSE
