SPECIFICATION MCSpec
CONSTANTS
    f1 = f1  i1 = i1  s1 = s1  s2 = s2
    Flows = {f1}
    Codes = {c}
    PmsCode = c
    PmsSessions <- OneSession
    NoChange = NoChange
    Chains <- OneNode
    Instances = {i1, i2}
    Targets = {t}
    Nil = Nil
    MaxVersion = 1
    MaxEvents = 5
INVARIANT ExecutesWhenApproved
CHECK_DEADLOCK FALSE
