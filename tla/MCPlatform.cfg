SPECIFICATION MCSpec
CONSTANTS
    s1 = s1  s2 = s2  t1 = t1  t2 = t2  k1 = k1  k2 = k2  r1 = r1
    o1 = o1  o2 = o2  o3 = o3  a1 = a1  a2 = a2  p1 = p1  p2 = p2
    c1 = c1  c2 = c2  c3 = c3  h1 = h1  m1 = m1
    Sessions <- TwoSessions
    Tenants <- TwoTenants
    Keys <- TwoKeys
    Recs <- OneRec
    MaxRequests = 3
    Nil = Nil
    Orgs <- ThreeOrgs
    Admins <- TwoAdmins
    NoOrg = NoOrg
    NoChange = NoChange
    MaxDepth = 2
    MaxMoves = 3
    EventTypes <- TwoTypes
    Named <- NamedByType
    Wildcard = "generic"
    MaxDeliveries = 3
    MaxRestarts = 1
    Instances <- TwoSessions
    MaxSteps = 3
    Flows <- TwoSessions
    NodesOf <- ChainAndTwo
    MaxTasks = 6
    MaxAdmitted = 2
    Window = 3
    LastTick = 7
    Callers <- ThreeCallers
    FailureThreshold = 2
    RecoveryTimeout = 1
    LastSecond = 4
    Calls <- ThreeCallers
    HashOf <- TwoAlike
    MaxAge = 1
    LastMoment = 4
    Processes <- TwoProcesses
    LocalTtl = 1
    Ttl = 2
    LastTime = 4
    NoValue = NoValue
    Clerks <- TwoSessions
    Grantees <- OneGrantee
    Held <- OneHeld
    MaxLinks = 2
    NoRequest = NoRequest
    Units <- UpToFour
    Rates <- FiveRates
    MaxLength = 3
INVARIANTS KeyedOnce DuplicatesOverlapped GhostsWereLost TreeIsSound  CalculationsAgree
PROPERTIES RequestsEnd   BreakerProtects
CHECK_DEADLOCK FALSE
