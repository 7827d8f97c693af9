CONSTANTS
    MaxBlocks = 12
    Slack = 2
    PoolSizes <- MCPoolSizes
    ChildSizes <- MCChildSizes
    BufferSizes <- MCBufferSizes
    Lengths <- MCLengths
    Words <- MCWords
    Fills <- MCFills
    Texts <- MCTexts
    Delims <- MCDelims
    Rows <- MCRows
    OpsOf <- MCOpsOf
    SavesOf <- MCSavesOf
SPECIFICATION Spec
INVARIANTS
    NoOverlap
    Accounted
    BufferExact
    LogsBackOff
    TextExact
CHECK_DEADLOCK FALSE
