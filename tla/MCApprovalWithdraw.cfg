SPECIFICATION MCSpec
CONSTANTS
    f1 = f1  i1 = i1  s1 = s1  s2 = s2
    Flows = {f1, f2}
    Codes = {c}
    PmsCode = c
    PmsSessions <- TwoSessions
    NoChange = NoChange
    Chains <- MCChains
    Instances = {i1, i2}
    Targets = {t}
    Nil = Nil
    MaxVersion = 2
    MaxEvents = 5
INVARIANT WithdrawnNotApproved
CHECK_DEADLOCK FALSE
