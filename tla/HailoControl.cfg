SPECIFICATION FairSpec
CONSTANTS
  Tasks = {t1, t2}
  Tickers = {c1}
  Opcodes = {o1}
  Slices = 2
  Nappers = {t1}
  MaxRpcs = 2
CHECK_DEADLOCK FALSE
INVARIANTS
  TypeOK
  SleeperInOnePlace
  EarlyEndIsPaid
  AnswerIsOwn
  WaiterHoldsLock
  SignalFindsSleeper

PROPERTY
  CallsReturn
