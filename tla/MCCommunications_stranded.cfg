\* One handler execution, no fault: a provider answer that arrives after the deadline.
SPECIFICATION Spec
CONSTANTS
    w1 = w1
    w2 = w2
    Workers = {w1}
    Channels = 3
    Reachable = {{1, 2, 3}}
    MaxEscalations = 2
    MaxContacts = 3
    Deadlines = {2}
    RetryAfter = 1
    ReconcileAfter = 1
    MaxTries = 2
    SendResults = {"retryable"}
    LookupResults = {"final"}
    Reports = {"delivered"}
    MaxRoots = 1
    MaxDeliveries = 2
    MaxFaults = 0
    MaxTime = 2
INVARIANT NeverStranded
CHECK_DEADLOCK FALSE
