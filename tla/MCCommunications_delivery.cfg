\* One notification, three channels, two handler executions, one fault.
SPECIFICATION Spec
CONSTANTS
    w1 = w1
    w2 = w2
    Workers = {w1, w2}
    Channels = 3
    Reachable = {{}, {1}, {1, 2, 3}}
    MaxEscalations = 2
    MaxContacts = 3
    Deadlines = {2}
    RetryAfter = 1
    ReconcileAfter = 1
    MaxTries = 2
    SendResults = {"retryable"}
    LookupResults = {"final", "retryable"}
    Reports = {"delivered"}
    MaxRoots = 1
    MaxDeliveries = 2
    MaxFaults = 1
    MaxTime = 2
SYMMETRY WorkerSymmetry
INVARIANTS
    NoBlindResend
    SequentialEscalation
    FailureIsReported
    StrandedOnlyWhenExpected
PROPERTIES
    OutcomesAreFinal
    NoSendAfterCancel
CHECK_DEADLOCK FALSE
