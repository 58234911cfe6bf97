SPECIFICATION Spec
CONSTANTS
    Skus = {1, 2}
    Null = Null
    None = None
    StaleAfterDays = 2
    FeedStaleAfterDays = 1
    WindowDays = 3
    AtRiskBelowDays = 2
    SeriesStaleAfterDays = 1
    MinHistoryDays = 2
    ExpiresAfterDays <- MCExpiresAfterDays
    Held <- MCHeld
    Messages = {"m1", "m2", "m3"}
    Workers = {"w1"}
    MaxMessages = 1
    MaxDeliveryAttempts = 2
    Deliverable = {"m1", "m2"}
    Jobs = {1, 2}
    MaxRetries = 1
    Requests = {1, 2}
    Notice <- MCNotice
    Timezones <- MCTimezones
    SaleLines <- MCSaleLines
    Stocks <- MCStocks
    StartNow = 4
    MaxNow = 5
    Workloads <- MCWorkloads
    MaxRows = 2
    HistoryLimit = 1
    DeliveryLimit = 1
INVARIANTS
    RunsAreSound
    DeliveriesAreRecorded
PROPERTIES
    SlotsSettle
CHECK_DEADLOCK FALSE
