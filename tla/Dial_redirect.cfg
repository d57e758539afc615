SPECIFICATION Spec
CONSTANTS
    Hops = 2
    ConnChans = {"fresh"}
CHECK_DEADLOCK FALSE
INVARIANTS
    NoPanic
