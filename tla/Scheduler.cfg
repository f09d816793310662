SPECIFICATION Spec
CONSTANTS
  a1 = a1
  a2 = a2
  Tasks = {1, 2, 3, 4}
  Addresses = {a1, a2}
  TaskHash <- MCTaskHash
  Unlimited = Unlimited
  Limits <- MCLimits
  Accesses <- MCAccesses
INVARIANTS
  SchedulerNoPanic
  RunnableConflictFree
  HeldExact
PROPERTIES
  SessionDrains
  OrderImplemented
