SPECIFICATION Spec
CONSTANTS
    Turns = {t1, t2}
    Editors = {e1}
    None = none
    RecoveryLimit = 2
    MaxFaults = 1
    MaxRestarts = 1
SYMMETRY Symmetry
INVARIANTS TypeOK OneResponseAtATime EditsKept RecoveryIsComplete
PROPERTIES EndStatusKept
CHECK_DEADLOCK FALSE
