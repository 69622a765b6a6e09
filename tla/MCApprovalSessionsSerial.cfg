SPECIFICATION Spec
CONSTANTS
    Sessions = {a, b}
    Instances = {i1}
    Chain <- MCChain
    SentActions = {"approve", "reject"}
    Overlap = FALSE
    MaxRequests = 5
    Nil = Nil
PROPERTY ImplementsApproval
CHECK_DEADLOCK FALSE
