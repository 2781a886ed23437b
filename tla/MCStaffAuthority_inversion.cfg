\* The member who sorts first is activated while another command waits.
SPECIFICATION Spec
CONSTANTS
    t1 = t1
    t2 = t2
    Staff = {1, 2, 3}
    Standing <- WithSuspended
    Txs = {t1, t2}
    Commands <- MembershipCommands
    MaxSent = 3
SYMMETRY TxSymmetry
INVARIANT InversionFree
CHECK_DEADLOCK FALSE
