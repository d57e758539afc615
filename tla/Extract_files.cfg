SPECIFICATION Spec
CONSTANTS
    Contents = {1, 2, 3}
    Buffers = {"b1", "b2", "b3"}
    MaxInMemory = 2
    NoBuffer = NoBuffer
    BufSize = 4
    Settings <- MCSettings
INVARIANTS
    FilesAreBodies
    BodiesAreKept
    ReportMissesOneAtMost
