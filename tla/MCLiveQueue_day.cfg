\* Two customers, three visits, two operators, one resource.
SPECIFICATION Spec
CONSTANTS
    p1 = p1
    p2 = p2
    p3 = p3
    o1 = o1
    o2 = o2
    c1 = c1
    r1 = r1
    r2 = r2
    Parties = {p1, p2}
    Operators = {o1, o2}
    Callers = {c1}
    Resources = {r1}
    Assigned = {r1}
    HoldTicks = 1
    MaxEntries = 3
    MaxTime = 1
SYMMETRY LiveSymmetry
INVARIANTS BoundedOvertaking ServiceCoherent
PROPERTIES CallsTheHead ActsOnWhatWasSeen
CHECK_DEADLOCK FALSE
