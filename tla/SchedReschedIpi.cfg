SPECIFICATION Spec
CONSTANTS
  t1 = t1
  t2 = t2
  Tasks = {t1, t2}
  NumCpus = 2
  Priority <- TwoPriorities
  Affinities <- AllPinned
  Yielders = {t1, t2}
  Blockers = {}
  Stealing = FALSE
  Isolated = {}
  ReschedIpi = TRUE
  MaxCreates = 2
  MaxTicks = 1
  MaxMigrations = 0
  DequeCap = 2
  IndexMod = 4
CHECK_DEADLOCK FALSE
INVARIANT
  SwitchesFromOwnStack
