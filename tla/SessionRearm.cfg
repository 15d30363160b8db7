SPECIFICATION Spec
CONSTANTS
    Workers = {w1}
    TaskIds = {t1, t2}
    ScanIds = {s1}
    Timeouts = {0, 1}
    DefaultTimeout = 1
    None = None
    MaxActivity = 1
    MaxTime = 2
PROPERTY ActivityRearmsTimer
CHECK_DEADLOCK FALSE
