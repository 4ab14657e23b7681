CONSTANTS
    Name = {}
    Value = {}
    FieldSize <- Sizes
    TooLongToKeep = {}
    TooLongToRead = {}
    DEFAULT_TABLE_SIZE = 0
    TableSizes = {}
    MAX_ENTRIES = 1
    MAX_HEADER_BLOCK = 0
    MAX_STREAMS = 2
    Bodies = {1}
    FrameSizes = {1}
    DEFAULT_MAX_FRAME = 1
    RECEIVE_WINDOW = 5
    DEFAULT_WINDOW = 2
    Chunks = {1, 2}
    MaxRequests = 2
SPECIFICATION FlowSpec
CHECK_DEADLOCK FALSE
INVARIANT NeverStalls
PROPERTY KeepsStreaming
