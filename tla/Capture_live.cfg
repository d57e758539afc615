SPECIFICATION FairSpec
CONSTANTS
    ReqLen = 1
    Requests = {"good", "bad"}
    Replies = {"length"}
PROPERTIES
    CaptureEnds
    GoodExchangeIsStored
