\* A root, a controller and an invited member; one command at a time.
SPECIFICATION Spec
CONSTANTS
    t1 = t1
    t2 = t2
    Staff = {1, 2, 3}
    Standing <- WithInvited
    Txs = {t1}
    Commands <- AllCommands
    MaxSent = 3
INVARIANT RevocationPossible
CHECK_DEADLOCK FALSE
