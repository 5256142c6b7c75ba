CONSTANTS
    Ids = {m1, m2}
    Flags = {seen}
    Workers = {w1, w2}
    Clients = {c1}
    Absent = Absent
    Torn = Torn
    NoList = NoList
    MaxState = 3
    MaxCrashes = 1
    MaxFailures = 1
SPECIFICATION MCSpec
SYMMETRY Symmetry
INVARIANTS TypeOK DiskMatchesIndex LogComplete NoSilentStaleness
PROPERTY ImplementsFeed
CHECK_DEADLOCK FALSE
