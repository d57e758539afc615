SPECIFICATION Spec
CONSTANTS
    ReqLen = 2
    Requests = {"good", "bad"}
    Replies = {"length", "close", "head", "garbage"}
INVARIANTS
    NoPanic
    SentIsPair
    SentIsWhole
    RecordedIsReceived
    ContentsAreClosed
    DroppedIsReported
PROPERTIES
    ImplementsExchange
