SPECIFICATION Spec
CONSTANTS
    MaxSlot = 5
    WindowSize = 2
    MaxTime = 14
    MaxSets = 3
    TimerSlots = {1, 2, 4}
    StandstillSlots <- NoStandstill
    DeltaTimeout <- Doubling
    DeltaFirstSlice = 1
    DeltaBlock = 2
    IdleSleep = 1
INVARIANTS
    DeadlinesKept
    WindowTimesOut
