\* scheduled_actions: cancellable, fenced handlers, no rejecter.  One row and
\* two workers, with enough attempts for a reclaim after a replay.
SPECIFICATION FairSpec
CONSTANTS
    o1 = o1
    o2 = o2
    w1 = w1
    w2 = w2
    r1 = r1
    r2 = r2
    r3 = r3
    Items = {r1}
    Orgs = {o1, o2}
    OrgOf <- OrgOfThree
    Workers = {w1, w2}
    ClaimLimit = 1
    LeaseTicks = 2
    MaxWait = 1
    RetryBase = 1
    RetryCap = 2
    RetryJitter = 20
    InitAttempts <- TwoAttempts
    ExtraAttempts = 2
    MaxReplays = 1
    CanCancel = TRUE
    CanReject = FALSE
    Fenced = TRUE
INVARIANTS ClaimInv SingleOwner AttemptBudget
PROPERTIES LeaseHonest EffectSerializes HistoryPreserved ImplementsDurableWork EventuallyTerminal
