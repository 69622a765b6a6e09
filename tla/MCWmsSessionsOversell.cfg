SPECIFICATION Spec
CONSTANTS
    Sessions = {a, b}
    None = None
    p1 = p1
    p2 = p2
    Places <- MCPlaces
    Requests <- MCRequests
    Start = 1
    MaxRequests = 4
INVARIANT NoOversell
CHECK_DEADLOCK FALSE
