SPECIFICATION Spec
CONSTANTS
    Replicas = {ana, ben}
    Creator = ana
    InitialAdmins = {ben}
    RestrictCreate = FALSE
    Handlers = {h1}
    MaxPendingPerAuthor = 1
    PendingTtl = 0
    MaxFutureSkew = 3
    Redelivery = FALSE
    MaxNow = 1
    MaxOps = 4
    MaxCrashes = 0
    MaxRoleChanges = 1
    NoRow = NoRow
PROPERTY EditsByRight
CHECK_DEADLOCK FALSE
