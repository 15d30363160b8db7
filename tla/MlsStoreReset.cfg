SPECIFICATION Spec
SYMMETRY Symmetry
CONSTANTS
    Workers = {w1, w2}
    Groups = {g1}
    Wrappers = {v1}
    Retention = 0
    MaxNow = 1
    MaxFailures = 2
    MaxCrashes = 1
    NoOne = NoOne
INVARIANTS
    NeverOpensLegacy
    HarvestKept
    WelcomesKept
    LegacyBytesKept
    PausedUntilPublished
CHECK_DEADLOCK FALSE
