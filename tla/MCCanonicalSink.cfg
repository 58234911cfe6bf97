SPECIFICATION Spec
CONSTANTS
    c1 = c1
    c2 = c2
    cat = cat
    k1 = k1
    k2 = k2
    k3 = k3
    price = price
    cost = cost
    v1 = v1
    v2 = v2
    Keys = {k1, k2, k3}
    Columns = {price, cost}
    Values = {v1, v2}
    NoRow = NoRow
    None = None
    Chunks = {c1, c2, cat}
    Catalogue = {cat}
    EventRows <- OverlappingRows
    BatchSize = 2
    Onboarded = {1, 2}
    Skus = {1, 2, 3, 4}
    Times = {0, 1, 2}
    Writers = {w1, w2}
    MaxTxns = 5
SYMMETRY WriterSymmetry
INVARIANTS
    TypeOK
    NoRepeatedRow
    HotIsBacked
    WrittenHasLanded
PROPERTIES
    HotNeverGoesBack
    ImplementsDualWrite
CHECK_DEADLOCK FALSE
