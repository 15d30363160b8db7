SPECIFICATION FairSpec
CONSTANTS
    Workers = {w1}
    TaskIds = {t1, t2}
    ScanIds = {s1, s2}
    Timeouts = {0, 1}
    DefaultTimeout = 1
    None = None
    MaxActivity = 1
    MaxTime = 2
INVARIANTS
    LockedIsQuiet
    NoStrayTask
    LockOverrunsOnlyLateActivity
PROPERTIES
    ArmedTimerResolves
    AutoLockReachesUi
CHECK_DEADLOCK FALSE
