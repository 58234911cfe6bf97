SPECIFICATION Spec
CONSTANTS
    Messages = {t1, t2}
    Malformed = {}
    Workers = {w1}
    Files = {good}
    BadFiles = {}
    PiiFiles = {}
    BronzeIds = {b1}
    None = None
    NoRow = NoRow
    MaxMessages = 1
    MaxDeliveryAttempts = 2
    DedupWindow = 0
    MaxNow = 0
INVARIANTS
    RetryConverges
CHECK_DEADLOCK FALSE
