\* Two events handled concurrently.
SPECIFICATION Spec
CONSTANTS
    Starts = {1, 2}
    NoShowAfter = 1
    DeclineCancels = TRUE
    MaxTime = 0
    Clients = {c1}
    Handlers = {h1, h2}
    MaxEvents = 2
    MaxRevision = 2
    EventAttempts = 1
    ActionAttempts = 1
    c1 = c1
    c2 = c2
    h1 = h1
    h2 = h2
INVARIANT ConvergesToLatest
CHECK_DEADLOCK FALSE
