\* provider_events and outbox_messages: handlers that do not lock their claim
\* (Fenced = FALSE), rows that a handler may reject.  Three rows of two
\* organizations claimed in batches of two.
SPECIFICATION Spec
CONSTANTS
    o1 = o1
    o2 = o2
    w1 = w1
    w2 = w2
    r1 = r1
    r2 = r2
    r3 = r3
    Items = {r1, r2, r3}
    Orgs = {o1, o2}
    OrgOf <- OrgOfThree
    Workers = {w1, w2}
    ClaimLimit = 2
    LeaseTicks = 1
    MaxWait = 0
    RetryBase = 1
    RetryCap = 1
    RetryJitter = 20
    InitAttempts <- LastHasTwo
    ExtraAttempts = 1
    MaxReplays = 0
    CanCancel = FALSE
    CanReject = TRUE
    Fenced = FALSE
SYMMETRY StreamSymmetry
INVARIANTS CompletedByLastClaim
PROPERTIES TenantFairness
