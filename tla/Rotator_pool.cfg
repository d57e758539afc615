SPECIFICATION FairSpec
CONSTANTS
    w1 = w1  w2 = w2  r1 = r1  b1 = b1  b2 = b2  b3 = b3
    Rotators = {r1}
    Writers = {w1, w2}
    RotatorOf <- OneRotator
    Batches = {b1, b2, b3}
    BatchLen <- MCBatchLen
    FeedbackKind <- MCFeedbackKind
    WARCSize = 1
    RecordsPerMiB = 2
    MaxSerial = 6
    MaxClock = 1
    OldOpen <- MCOldOpen
    OldDone <- NoneLeft
    NoBatch = NoBatch
    NoFile = NoFile
    NoWriter = NoWriter
INVARIANTS
    OneWriterPerFile
    PairsStayTogether
    WrittenOnce
    WarcinfoOfOwnFile
    AckedIsStored
PROPERTIES
    ImplementsArchive
    EveryBatchIsStored
    CloseFinishesFiles
