SPECIFICATION Spec
CONSTANTS
  b1 = b1
  b2 = b2
  Banks = {b1, b2}
  Tasks = {1, 2, 3}
  BankOf <- MCBankOf
  Addresses = {a1}
  Access <- MCAccess
  Schedulers = {1, 2}
  Handlers = {h1, h2}
  Nobody = Nobody
  ReplayThreads = 1
  Abandonable = {b2}
  Faulty = {1}
  Timeouts = 2
CONSTRAINT InBounds
INVARIANTS
  SessionsNoPanic
  OutcomeFaithful
  LedgerOrder
PROPERTIES
  BanksSettle
CHECK_DEADLOCK FALSE
