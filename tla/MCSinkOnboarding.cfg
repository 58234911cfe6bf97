SPECIFICATION Spec
CONSTANTS
    c1 = c1
    c2 = c2
    cat = cat
    k1 = k1
    k2 = k2
    k3 = k3
    price = price
    cost = cost
    v1 = v1
    v2 = v2
    Keys = {k1, k2, k3}
    Columns = {price, cost}
    Values = {v1, v2}
    NoRow = NoRow
    None = None
    Chunks = {c1, cat}
    Catalogue = {cat}
    EventRows <- OnboardingRows
    BatchSize = 2
    Onboarded = {}
    Skus = {1}
    Times = {0, 1, 2}
    Writers = {w1, w2}
    MaxTxns = 3
SYMMETRY WriterSymmetry
INVARIANTS
    WrittenHasLanded
CHECK_DEADLOCK FALSE
