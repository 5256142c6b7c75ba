SPECIFICATION Spec
CONSTANTS
    d1 = d1
    d2 = d2
    s1 = s1
    Addresses = {alice, s1}
    Static = {}
    Dids = {d1, d2}
    Scid <- MCScid
    None = None
    Threads = {t1}
    PurgeInactive = FALSE
    MaxOperations = 2
    MaxCrashes = 1
    MaxFailures = 0
CHECK_DEADLOCK FALSE
INVARIANT AccountsSurvive
