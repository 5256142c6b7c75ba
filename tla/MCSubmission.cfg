CONSTANTS
    Id = {i1, i2}
    Peer = {p1}
    Worker = {w1, w2}
    None = None
    Torn = Torn
    MaxEmails = 2
    MaxSubmissions = 2
    MaxChanges = 1
    MaxFaults = 1
SPECIFICATION Spec
SYMMETRY Symmetric
INVARIANTS SealedStaysSealed DraftsAccounted RecordsAreTrue SignaturesHold RoundTrip SealingKeepsTheMessage
PROPERTY PutBackChangesNothing
CHECK_DEADLOCK FALSE
