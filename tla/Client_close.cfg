SPECIFICATION FairSpec
CONSTANTS
    q1 = q1  q2 = q2  w1 = w1  w2 = w2
    Requests = {q1, q2}
    Writers = {w1, w2}
    Settings <- MCSettings
    None = None
INVARIANTS
    NoPanic
    CloseMeansStored
    RevisitsRefer
PROPERTIES
    CloseEnds
