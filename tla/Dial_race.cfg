SPECIFICATION FairSpec
CONSTANTS
    Hops = 2
    ConnChans = {"none", "fresh"}
\* A request ends, or waits for the receiver of its channel, or panics.
CHECK_DEADLOCK FALSE
INVARIANTS
    NothingLeaks
    ErrorMeansAllFailed
PROPERTIES
    PrimaryHasHeadStart
    DialEnds
