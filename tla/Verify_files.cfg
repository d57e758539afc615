SPECIFICATION Spec
CONSTANTS
    Contents = {1}
    Buffers = {"b1"}
    MaxInMemory = 2
    NoBuffer = NoBuffer
    BufSize = 2
    Files <- MCFiles
INVARIANTS
    VerdictIsRight
    OffsetsAreExact
    NothingIsLeft
