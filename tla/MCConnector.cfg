SPECIFICATION Spec
CONSTANTS
    r1 = r1
    r2 = r2
    None = None
    Runs = {r1, r2}
    MaxTokens = 4
    RunKeys = {"daily"}
    Contents = {"stock", "nothing"}
    Empty = {"nothing"}
    MaxTriggers = 3
    MaxRows = 2
    MaxAttempts = 2
CHECK_DEADLOCK FALSE
SYMMETRY Symmetry
INVARIANTS
    ChainIsRecoverable
    FinishedRunIsAnnounced
PROPERTY
    PostureIsEarned
