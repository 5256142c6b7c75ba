CONSTANTS
    m1 = m1
    m2 = m2
    a1 = a1
    a2 = a2
    Addresses = {a1, a2}
    Accounts = {x}
    Mails = {m1, m2}
    WithId = {m1}
    None = None
    Body <- MCBody
    ErrorThreshold = 1
    Vocabulary = {"EHLO", "DATA", "QUIT"}
    Oddities = {}
    Window = 1
    MaxCommands = 4
    MaxTxns = 1
    MaxConnections = 1
    MaxReroutes = 0
    MaxFailures = 0
    MaxNow = 0
SPECIFICATION MCSpec
SYMMETRY Symmetric
INVARIANTS CutIsDiscarded
CHECK_DEADLOCK FALSE
