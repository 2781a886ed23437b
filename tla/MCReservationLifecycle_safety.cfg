\* Two clients, one handler execution at a time.
SPECIFICATION Spec
CONSTANTS
    Starts = {1, 2}
    NoShowAfter = 1
    DeclineCancels = TRUE
    MaxTime = 3
    Clients = {c1, c2}
    Handlers = {h1}
    MaxEvents = 2
    MaxRevision = 3
    EventAttempts = 1
    ActionAttempts = 2
    c1 = c1
    c2 = c2
    h1 = h1
    h2 = h2
SYMMETRY LifecycleSymmetry
INVARIANTS NoShowRecordedOnce
PROPERTIES NoStaleCommand NoShowJustified
CHECK_DEADLOCK FALSE
