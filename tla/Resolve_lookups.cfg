SPECIFICATION Spec
CONSTANTS
    l1 = l1  l2 = l2  c1 = c1  w1 = w1  w2 = w2
    Lookups = {l1, l2}
    Clients = {c1}
    ClientOf <- OneClient
    NServers = 2
    Workers = {w1, w2}
    Settings <- MCSettings
SYMMETRY LookupSymmetry
\* Lookups end.
CHECK_DEADLOCK FALSE
INVARIANTS
    UsedIsArchived
    MissingMeansAllFailed
    NobodyIsStuck
