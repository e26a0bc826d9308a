SPECIFICATION Spec
CONSTANTS
  t1 = t1
  t2 = t2
  Tasks = {t1, t2}
  NumCpus = 2
  Priority <- TwoPriorities
  Affinities <- PinnedAndFree
  Yielders = {t1}
  Blockers = {t1}
  Stealing = TRUE
  Isolated = {}
  ReschedIpi = FALSE
  MaxCreates = 2
  MaxTicks = 1
  MaxMigrations = 1
  DequeCap = 2
  IndexMod = 4
CHECK_DEADLOCK FALSE
INVARIANT
  StolenIsQueued
