SPECIFICATION Spec
CONSTANTS
  t1 = t1
  t2 = t2
  Tasks = {t1, t2}
  NumCpus = 2
  Priority <- TwoPriorities
  Affinities <- Unpinned
  Yielders = {t1, t2}
  Blockers = {}
  Stealing = TRUE
  Isolated = {}
  ReschedIpi = FALSE
  MaxCreates = 2
  MaxTicks = 0
  MaxMigrations = 0
  DequeCap = 2
  IndexMod = 4
CHECK_DEADLOCK FALSE
INVARIANT
  OneCpuPerStack
