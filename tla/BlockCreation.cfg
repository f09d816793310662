SPECIFICATION Spec
CONSTANTS
  Workers = {w1, w2}
  Txs = {1, 2}
  Capacity = 1
  Disabled = 7
  WindowSize = 2
  Starts <- MCStarts
  MaxSlot = 5
  MaxBanks = 3
  OptimisticCapacity = 1
INVARIANTS CreationNoPanic BlocksSound RestsClean
PROPERTIES HandoverKeepsTransactions LoopReturns
CHECK_DEADLOCK FALSE
