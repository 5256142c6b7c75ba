CONSTANTS
    Workers = {w1, w2}
    Devices = {d1, d2}
    Absent = Absent
    Torn = Torn
    NonceTTL = 1
    SessionTTL = 1
    FreshnessWindow = 1
    MaxTime = 1
    MaxNonces = 1
    MaxSessions = 2
    MaxTokens = 2
    MaxCrashes = 1
    MaxFailures = 1
SPECIFICATION Spec
SYMMETRY Symmetry
INVARIANTS NonceSpentOnce RevokedLosesSessions ClaimedOnce ClaimableOrClaimed 
CHECK_DEADLOCK FALSE
