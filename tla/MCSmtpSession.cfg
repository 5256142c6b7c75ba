CONSTANTS
    m1 = m1
    m2 = m2
    a1 = a1
    a2 = a2
    Addresses = {a1, a2}
    Accounts = {x}
    Mails = {m1, m2}
    WithId = {m1}
    None = None
    Body <- MCBody
    ErrorThreshold = 1
    Vocabulary = {"EHLO", "DATA", "RSET", "STARTTLS", "QUIT", "NOOP", "VRFY", "AUTH", "MAIL?", "RCPT?", "XYZZ"}
    Oddities = {"RSET", "QUIT", "NOOP", "VRFY", "AUTH", "MAIL?", "RCPT?", "XYZZ"}
    Window = 2
    MaxCommands = 7
    MaxTxns = 2
    MaxConnections = 2
    MaxReroutes = 1
    MaxFailures = 1
    MaxNow = 1
SPECIFICATION MCSpec
SYMMETRY Symmetric
INVARIANTS InStep OnlyAskedFor  SentToAll NoStandoff
CHECK_DEADLOCK FALSE
