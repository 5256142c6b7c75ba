CONSTANTS
    Messages = {m1, m2}
    Companion = m2
    Domains = {1, 2}
    Schedule = 2
    Silent = {1}
    MaxCrashes = 1
    MaxFailures = 1
SPECIFICATION MCFairSpec
INVARIANTS  AttemptsCounted OutcomeIsFinal
PROPERTY Settles
CHECK_DEADLOCK FALSE
