CONSTANTS
    MSG_START = "mark"
    ZERO = "0"
    Type <- MCType
    MIN_SIZE = 3
    DataSize <- MCDataSize
    ObjectSize <- MCObjectSize
    Content = {"mark", "x", "y"}
    BUFF_SIZE = 18
    Streams <- MCStreams
SPECIFICATION Spec
INVARIANTS
    TypeOK
    AllExtracted
    ReadInOrder
    Resynchronises
