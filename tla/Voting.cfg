SPECIFICATION Spec
CONSTANTS
    MaxSlot = 2
    WindowSize = 2
    Blocks <- MCBlocks
    Candidates <- RootVotes
    Certifiable <- OneSkip
    MaxCrashes = 1
    MaxSwitches = 2
    MaxBlsOps = 1
    Spares <- OneSpare
CONSTRAINT InBounds
INVARIANTS
    VotesDurable
    NeverEquivocates
    PoolSeesOwnVotes
