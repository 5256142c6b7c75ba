SPECIFICATION Spec
CONSTANTS
    d1 = d1
    d2 = d2
    s1 = s1
    Addresses = {alice, bob, s1}
    Static = {bob}
    Dids = {d1, d2}
    Scid <- MCScid
    None = None
    Threads = {t1, t2}
    PurgeInactive = TRUE
    MaxOperations = 3
    MaxCrashes = 1
    MaxFailures = 1
SYMMETRY Symmetric
CHECK_DEADLOCK FALSE
INVARIANTS TypeOK RoutingClosed MemoryMatchesDisk BoundAccounts
PROPERTY RestartConsistent
