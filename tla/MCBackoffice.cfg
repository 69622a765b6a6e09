SPECIFICATION MCSpec
CONSTANTS
    k1 = k1  k2 = k2  k3 = k3
    t1 = t1  t2 = t2  e1 = e1  e2 = e2
    Ids <- ThreeRows
    Desks <- TwoDesks
    Scopes <- KindsTogether
    NoWork = NoWork
    FbaUnits <- Units
    MaxOrders = 2
    Tenants <- TwoTenants
    KeyRows <- ThreeKeys
    KeySessions <- TwoDesks
    NoCreation = NoCreation
    NumberSessions <- TwoDesks
    DaysPerMonth = 2
    LastDay = 3
    MaxSeq = 2
    NoNumber = NoNumber
    FailureLimit = 2
    MaxRetries = 2
    MaxUses = 3
    MaxVersions = 2
    MaxTriggers = 2
SYMMETRY Symmetry
INVARIANTS RecordsAreSound CountersAreSound CatalogueIsSound
    
PROPERTY FinishedStays
CHECK_DEADLOCK FALSE
