SPECIFICATION Spec
CONSTANTS
  x = x
  y = y
  tel = tel
  compA = compA
  compB = compB
  Names = {x, y}
  Patterns = {tel}
  Matches <- MCMatches
  Components = {1, 2, 3}
  Publishers = {p1, p2}
  Publications <- MCPublications
  MaxTopics = 1
  MaxSubs = 2
  MaxWild = 1
  MaxPublish = 3
  Builtins = {compA, compB}
  TopicOf <- MCTopicOf
  NumSlots = 2
  FeedPattern = tel
  Tasks = {t1, t2}
  MaxCommands = 2
SYMMETRY Symmetry
CHECK_DEADLOCK FALSE
INVARIANTS
  TypeOK
  TablesAgree
  RoutedToSubscriber
  LandedUntilAcked
  EntriesCarried
