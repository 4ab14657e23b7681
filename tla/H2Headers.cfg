CONSTANTS
    Name = {"a", "b"}
    Value = {"x", "y"}
    FieldSize <- Sizes
    TooLongToKeep = {}
    TooLongToRead <- HugeFields
    DEFAULT_TABLE_SIZE = 4
    TableSizes = {0, 1, 3, 4}
    MAX_ENTRIES = 3
    MAX_HEADER_BLOCK = 2
    MAX_STREAMS = 1
    Bodies = {1, 2}
    FrameSizes = {1}
    DEFAULT_MAX_FRAME = 2
    RECEIVE_WINDOW = 2
    DEFAULT_WINDOW = 2
    Chunks = {}
    MaxRequests = 2
SPECIFICATION Spec
CHECK_DEADLOCK FALSE
INVARIANT Inv
INVARIANT NeverWrong
INVARIANT InStep
INVARIANT SlotsAccounted
