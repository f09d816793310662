SPECIFICATION Spec
CONSTANTS
    v1 = v1  v2 = v2  v3 = v3  v4 = v4  v5 = v5
    MaxSlot = 2
    WindowSize = 2
    Blocks <- FourBlocks
    ParentOf <- FourParents
    Validators <- FiveEqual
    Me = v1
    StakeOf <- EqualStake
    LeaderSlots <- NoSlots
    VoteInputs <- StakeVotes
    CertInputs <- NoCerts
    Receivable <- NoBlocks
SYMMETRY Others
INVARIANTS
    CertificatesExact
    SafeEventsComplete
    FallbacksSafe
