SPECIFICATION FairSpec
CONSTANTS
    Messages = {t1, tX}
    Malformed = {tX}
    Workers = {w1}
    Files = {good, bad, pii}
    BadFiles = {bad}
    PiiFiles = {pii}
    BronzeIds = {b1}
    None = None
    NoRow = NoRow
    MaxMessages = 2
    MaxDeliveryAttempts = 2
    DedupWindow = 0
    MaxNow = 0
PROPERTIES
    DeliverySettles
CHECK_DEADLOCK FALSE
