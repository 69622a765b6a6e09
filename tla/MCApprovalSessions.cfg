SPECIFICATION FairSpec
CONSTANTS
    Sessions = {a, b, c}
    Instances = {i1}
    Chain <- MCChain
    SentActions = {"approve", "reject"}
    Overlap = TRUE
    MaxRequests = 4
    Nil = Nil
PROPERTIES
    QuietDecisionIsFinal
    RequestsEnd
CHECK_DEADLOCK FALSE
