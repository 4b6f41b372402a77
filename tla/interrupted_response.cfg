SPECIFICATION Spec
CONSTANTS
    Turns = {t1}
    Editors = {}
    None = none
    RecoveryLimit = 1
    MaxFaults = 0
    MaxRestarts = 1
INVARIANTS InterruptedIsRetryable
CHECK_DEADLOCK FALSE
