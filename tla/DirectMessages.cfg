SPECIFICATION Spec
CONSTANTS
    Texts = {t}
    Edits = {e}
    Of <- Target
    Chats <- Authors
    Window = 0
    Copies = 1
    TimeoutLimit = 1
    Commands = {c1, c2}
    MaxClock = 2
    MaxOps = 2
    MaxFaults = 1
SYMMETRY Interchangeable
INVARIANTS TypeOK MemoryFollowsStore ShownIsDurable 
PROPERTY KeepsLedger
CHECK_DEADLOCK FALSE
