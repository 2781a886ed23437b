\* A root, a suspended controller and one not invited yet; two commands at once.
SPECIFICATION Spec
CONSTANTS
    t1 = t1
    t2 = t2
    Staff = {1, 2, 3}
    Standing <- Three
    Txs = {t1, t2}
    Commands <- AllCommands
    MaxSent = 4
SYMMETRY TxSymmetry
INVARIANTS ControllerContinuity
PROPERTIES AuthorityAtEffect
CHECK_DEADLOCK FALSE
