SPECIFICATION Spec
CONSTANTS
    Replicas = {ana, ben}
    Creator = ana
    InitialAdmins = {ben}
    RestrictCreate = FALSE
    Handlers = {h1}
    MaxPendingPerAuthor = 3
    PendingTtl = 3
    MaxFutureSkew = 4
    Redelivery = TRUE
    MaxNow = 2
    MaxOps = 4
    MaxCrashes = 0
    MaxRoleChanges = 0
    NoRow = NoRow
INVARIANTS
    TypeOK
    RowIsReference
    RsvpIsReference
    QueuedUntilCreate
CHECK_DEADLOCK FALSE
