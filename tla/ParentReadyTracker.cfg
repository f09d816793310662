SPECIFICATION Spec
CONSTANTS
    MaxSlot = 5
    BlockIds = {1, 2}
    WindowSize = 2
INVARIANTS ParentsReadyExact AnnouncedHasParent EveryWindowAnnounced
PROPERTY AnnouncedOnce
