SPECIFICATION Spec
SYMMETRY Symmetry
CONSTANTS
    Replicas = {ana, ben}
    Creator = ana
    InitialAdmins = {ben}
    RestrictCreate = FALSE
    Handlers = {h1, h2}
    MaxPendingPerAuthor = 1
    PendingTtl = 2
    MaxFutureSkew = 3
    Redelivery = FALSE
    MaxNow = 0
    MaxOps = 3
    MaxCrashes = 1
    MaxRoleChanges = 0
    NoRow = NoRow
PROPERTY CancelIsSticky
CHECK_DEADLOCK FALSE
