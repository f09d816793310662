SPECIFICATION FairSpec
CONSTANTS
    EventCap = 1
    OwnCap = 1
    WindowCap = 1
    RepairCap = 1
    PoolKinds <- AllKinds
    MaxVotes = 2
    MaxBatch = 2
    MaxEvents = 5
    MaxTimers = 1
PROPERTIES
    EveryoneServed
CHECK_DEADLOCK FALSE
