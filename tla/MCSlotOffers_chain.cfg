\* One slot released twice, two waitlist entries; the oldest one prefers a
\* Resource the first opportunity does not use.
SPECIFICATION FairSpec
CONSTANTS
    o1 = o1
    o2 = o2
    s1 = s1
    s2 = s2
    t1 = t1
    t2 = t2
    Slots = {s1}
    Opps = {o1, o2}
    SlotOf <- SameSlot
    Entries = {1, 2}
    Wants <- Everyone
    Suits <- OldestPrefersOther
    StartAt = 2
    OfferTTL = 1
    MinTTL = 1
    MaxTime = 2
    Txs = {t1, t2}
    MaxAborts = 1
INVARIANTS NoOverbooking ChainConsistent
PROPERTIES NeverReoffered OfferResolved
CHECK_DEADLOCK FALSE
