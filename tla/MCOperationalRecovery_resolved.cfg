\* No fault: an older verdict resolves the incident of a newer one.
SPECIFICATION Spec
CONSTANTS
    r1 = r1
    r2 = r2
    w1 = w1
    w2 = w2
    Reservations = {r1, r2}
    Order <- Pair
    Workers = {w1, w2}
    Truths <- Pressure
    Targets <- AllWithin
    MaxAuto = 1
    MaxAttempts = 2
    MaxFaults = 0
    MaxRev = 3
SYMMETRY WorkerSymmetry
INVARIANTS IncidentIsTrue
CHECK_DEADLOCK FALSE
