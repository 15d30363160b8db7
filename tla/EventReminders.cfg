SPECIFICATION Spec
CONSTANTS
    Starts = {2, 3}
    Leads = {1, 2}
    Grace = 1
    Loops = {l1, l2}
    None = None
    MaxTime = 4
    MaxChanges = 2
    MaxUnlocks = 2
SYMMETRY Interchangeable
INVARIANTS TypeOK OneReminderPerStart FiredIsShown OpenEntryHasRow
CHECK_DEADLOCK FALSE
