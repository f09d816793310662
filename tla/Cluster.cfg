SPECIFICATION Spec
CONSTANTS
    v1 = v1
    v2 = v2
    v3 = v3
    f = f
    Validators <- Cluster4
    StakeOf <- EdgeStake
    Faulty <- Liars
    Blocks <- Fork
    ParentOf <- ForkParents
    MaxSlot = 2
    WindowSize = 1
SYMMETRY LargeOnes
INVARIANTS
    Agreement
    DecidedAtRest
\* Validators that have voted on every slot may stop.
CHECK_DEADLOCK FALSE
