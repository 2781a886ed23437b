\* One handler, one crash before publication, delivery around the cutoff.
SPECIFICATION Spec
CONSTANTS
    Starts = {1}
    NoShowAfter = 1
    DeclineCancels = TRUE
    MaxTime = 3
    Clients = {c1}
    Handlers = {h1}
    MaxEvents = 1
    MaxRevision = 2
    EventAttempts = 2
    ActionAttempts = 1
    c1 = c1
    c2 = c2
    h1 = h1
    h2 = h2
INVARIANT RedeliveryAccepted
CHECK_DEADLOCK FALSE
