SPECIFICATION MCSpec
CONSTANTS
    s1 = s1  s2 = s2  o1 = o1  x1 = x1  x2 = x2  x3 = x3
    i1 = i1  i2 = i2  q1 = q1  q2 = q2  r1 = r1  r2 = r2  r3 = r3
    Orders <- FirstOrder
    PoSessions <- Sessions
    Threshold <- AllOne
    MaxAmount = 2
    NoRequest = NoRequest
    Suppliers <- FirstOrder
    Inquiries <- FirstOrder
    Quotes <- QuoteIds
    SrcSessions <- Sessions
    Scores <- Points
    NoInquiryRequest = NoInquiryRequest
    SalesOrderIds <- SalesIds
    Items <- TwoItems
    OmsSessions <- Sessions
    MaxOpening = 1
    NoOmsRequest = NoOmsRequest
    ShipmentIds <- FirstOrder
    CarrierEvents <- Events
    TrackingRows <- ThreeRows
    TmsSessions <- Sessions
    MaxEvents = 2
    MaxSyncs = 3
    NoTmsRequest = NoTmsRequest
    Docs <- FirstOrder
    FinSessions <- Sessions
    MaxFigure = 2
    NoFinRequest = NoFinRequest
SYMMETRY Symmetry
INVARIANTS PurchasesAreSound OneWinner SalesAreSound TrackingIsSound FinanceIsSound
PROPERTY DecisionsStand
CHECK_DEADLOCK FALSE
