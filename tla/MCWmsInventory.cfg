SPECIFICATION Spec
CONSTANTS
    Warehouses = {w1}
    Skus = {s1, s2}
    Inbounds = {i1}
    Outbounds = {o1}
    Counts = {c1}
    Qty <- MCQty
    Counted <- MCCounted
    ClientRefs <- MCClientRefs
    MaxStock = 2
    MaxMoves = 3
INVARIANTS
    TypeOK
    StockBalance
    LedgerAccounts
    OrdersTellStock
PROPERTIES
    LedgerGrows
    CountSettlesRows
CHECK_DEADLOCK FALSE
