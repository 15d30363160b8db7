SPECIFICATION FairSpec
CONSTANTS
    Workers = {w1, w2}
    Groups = {}
    Wrappers = {}
    Retention = 0
    MaxNow = 0
    MaxFailures = 1
    MaxCrashes = 1
    NoOne = NoOne
PROPERTY EventuallyReady
CHECK_DEADLOCK FALSE
