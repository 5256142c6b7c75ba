CONSTANTS
    Threads = {t1, t2}
    Streams = {s1}
    MaxChanges = 2
    MaxCrashes = 1
    Buffer = 1
    Accounts = {a1}
    Endpoints = {e1, e2}
    Torn = Torn
    MaxExpired = 1
    MaxFailures = 1
SPECIFICATION MCPushSpec
INVARIANT PushKept
PROPERTY ChangeIsSeen
CHECK_DEADLOCK FALSE
