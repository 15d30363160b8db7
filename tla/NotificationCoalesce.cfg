SPECIFICATION FairSpec
CONSTANTS
    MaxEvents = 3
    Chats = {dm, squad}
    Window = 2
    MaxWindows = 3
    MaxNow = 2
    NoChat = NoChat
    NoWindow = NoWindow
INVARIANTS
    BannerSpeaksForItsEvents
    NoLingeringWindow
    BurstsKeepTheirDistance
PROPERTY EveryInterruptSettles
CHECK_DEADLOCK FALSE
