SPECIFICATION FairSpec
CONSTANTS
    v1 = v1  v2 = v2  v3 = v3  v4 = v4  v5 = v5
    MaxSlot = 4
    WindowSize = 2
    Blocks <- ChainBlocks
    ParentOf <- ChainParents
    Validators <- Three
    Me = v1
    StakeOf <- UnequalStake
    LeaderSlots <- WindowLeader
    VoteInputs <- WindowVotes
    CertInputs <- WindowCerts
    Receivable <- MidWindow
INVARIANTS
    FinalizationExact
    SafeBlocksHandled
    LeaderWindowsProduced
PROPERTY WaitingBlocksResolve
