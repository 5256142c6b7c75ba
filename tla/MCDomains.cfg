CONSTANTS
    s1 = s1
    c1 = c1
    i1 = i1
    i2 = i2
    Static = {s1}
    Custom = {c1}
    Onboarding = TRUE
    Dids = {i1, i2}
    Home <- MCHome
    Configs = {{"home", "open"}, {"secret"}}
    Told = {i1}
    Threads = {t1, t2}
    None = None
    Absent = Absent
    Torn = Torn
    MaxAccounts = 1
    MaxKeys = 3
    MaxCrashes = 1
    MaxFailures = 1
SPECIFICATION Spec
SYMMETRY Symmetry
INVARIANTS NothingForgotten PublishedKeyStands
CHECK_DEADLOCK FALSE
