SPECIFICATION Spec
CONSTANTS
    Sessions = {a, b}
    Instances = {i1}
    Chain <- MCChain
    SentActions = {"approve", "reject"}
    Overlap = TRUE
    MaxRequests = 5
    Nil = Nil
INVARIANT ChainIsSigned
CHECK_DEADLOCK FALSE
