CONSTANTS
    Workers = {w1, w2}
    Clients = {c1}
    Ids = {1, 2}
    Default = 1
    Names = {a, b}
    BoxRequests <- MCBoxRequests
    IdentityRequests <- MCIdentityRequests
    Torn = Torn
    None = None
    MaxSets = 2
    MaxCrashes = 1
    MaxFailures = 1
SPECIFICATION Spec
SYMMETRY Symmetry
INVARIANTS ViewsAreCurrent LogExplainsList BatchInOrder
CHECK_DEADLOCK FALSE
