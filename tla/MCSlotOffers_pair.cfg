\* Two slots released once each, offered at the same time.
SPECIFICATION Spec
CONSTANTS
    o1 = o1
    o2 = o2
    s1 = s1
    s2 = s2
    t1 = t1
    t2 = t2
    Slots = {s1, s2}
    Opps = {o1, o2}
    SlotOf <- TwoSlots
    Entries = {1, 2}
    Wants <- Everyone
    Suits <- OldestPrefersOther
    StartAt = 2
    OfferTTL = 1
    MinTTL = 1
    MaxTime = 2
    Txs = {t1, t2}
    MaxAborts = 0
SYMMETRY TxSymmetry
INVARIANTS FulfilledOnce
CHECK_DEADLOCK FALSE
