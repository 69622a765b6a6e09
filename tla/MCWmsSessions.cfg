SPECIFICATION FairSpec
CONSTANTS
    Sessions = {a, b}
    None = None
    p1 = p1
    p2 = p2
    Places <- MCPlaces
    Requests <- MCRequests
    Start = 1
    MaxRequests = 4
INVARIANTS
    NeverBelowZero
    FreshCommitsBalance
PROPERTIES
    DuplicatedPlaceIsDead
    RequestsEnd
CHECK_DEADLOCK FALSE
