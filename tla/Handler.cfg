SPECIFICATION Spec
CONSTANTS
    MaxSlot = 5
    WindowSize = 3
    Blocks <- ForkBlocks
    ParentOf <- ForkParentOf
    InitialHistories <- StartHistories
    SwitchHistories <- StartHistories
    Inputs <- HandlerInputs
INVARIANTS
    NoConflictingVotes
    AssertsHold
    VotesBacked
    RootBankKept
PROPERTIES
    NoneLeftVotable
CHECK_DEADLOCK FALSE
