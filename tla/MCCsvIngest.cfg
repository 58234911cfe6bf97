SPECIFICATION Spec
CONSTANTS
    Messages = {t1, t2}
    Malformed = {}
    Workers = {w1}
    Files = {good, bad}
    BadFiles = {bad}
    PiiFiles = {}
    BronzeIds = {b1, b2}
    None = None
    NoRow = NoRow
    MaxMessages = 2
    MaxDeliveryAttempts = 2
    DedupWindow = 1
    MaxNow = 2
INVARIANTS
    TypeOK
    WriteThenPublish
    PublishedWasSent
    AckedIsConcluded
    OneRowPerWindow
    HealthErrorBacked
PROPERTIES
    RowsOnlyAdvance
CHECK_DEADLOCK FALSE
