\* One handler at a time and no failures: the appointment moves away and back.
SPECIFICATION Spec
CONSTANTS
    Starts = {1, 2}
    NoShowAfter = 1
    DeclineCancels = TRUE
    MaxTime = 0
    Clients = {c1}
    Handlers = {h1}
    MaxEvents = 3
    MaxRevision = 3
    EventAttempts = 2
    ActionAttempts = 1
    c1 = c1
    c2 = c2
    h1 = h1
    h2 = h2
INVARIANT ReplacementScheduled
CHECK_DEADLOCK FALSE
