\* One client, two concurrent handler executions.
SPECIFICATION FairSpec
CONSTANTS
    Starts = {1}
    NoShowAfter = 1
    DeclineCancels = TRUE
    MaxTime = 3
    Clients = {c1}
    Handlers = {h1, h2}
    MaxEvents = 2
    MaxRevision = 2
    EventAttempts = 2
    ActionAttempts = 2
    c1 = c1
    c2 = c2
    h1 = h1
    h2 = h2
PROPERTIES NeverForgotten
CHECK_DEADLOCK FALSE
