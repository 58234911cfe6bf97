SPECIFICATION Spec
CONSTANTS
    c1 = c1
    c2 = c2
    cat = cat
    k1 = k1
    k2 = k2
    k3 = k3
    price = price
    cost = cost
    v1 = v1
    v2 = v2
    Keys = {k1, k2, k3}
    Columns = {price, cost}
    Values = {v1, v2}
    NoRow = NoRow
    None = None
    Chunks = {c1, c2}
    Catalogue = {}
    EventRows <- CorrectedRows
    BatchSize = 2
    Onboarded = {1}
    Skus = {1}
    Times = {0, 1}
    Writers = {w1}
    MaxTxns = 3
SYMMETRY WriterSymmetry
PROPERTIES
    RedeliveryIsIdempotent
CHECK_DEADLOCK FALSE
