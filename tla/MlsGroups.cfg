SPECIFICATION Spec
CONSTANTS
    Groups = {g1, g2}
    Existing = {g1}
    Tasks = {t1, t2}
    NoTask = NoTask
    NoGroup = NoGroup
    Backfill = 9
    Limit = 9
    MaxClock = 2
    MaxLog = 2
    MaxLive = 1
    MaxInvites = 1
    MaxOps = 2
    MaxFaults = 1
INVARIANT TypeOK
INVARIANT RowHasEngine
INVARIANT NoSkip
INVARIANT NoSilentLoss
SYMMETRY Interchangeable
CHECK_DEADLOCK FALSE
