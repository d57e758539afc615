SPECIFICATION Spec
CONSTANTS
    w1 = w1  w2 = w2  r1 = r1  b1 = b1  b2 = b2  b3 = b3
    Rotators = {r1}
    Writers = {w1}
    RotatorOf <- OneRotator
    Batches = {b1, b2, b3}
    BatchLen <- MCBatchLen
    FeedbackKind <- MCFeedbackKind
    WARCSize = 1
    RecordsPerMiB = 1
    MaxSerial = 2
    MaxClock = 3
    OldOpen <- MCOldOpen
    OldDone <- MCOldDone
    NoBatch = NoBatch
    NoFile = NoFile
    NoWriter = NoWriter
\* With both bounds used up (MaxSerial, MaxClock) no name is left and the
\* instance stops.
CHECK_DEADLOCK FALSE
INVARIANTS
    TypeOK
PROPERTIES
    NothingIsOverwritten
