CONSTANTS
  Ids <- TwoIds
  Targets = {t1, t2}
  Nothing = Nothing
  OffWall = OffWall
  QueueCapacity = 1
  EventCapacity = 3
  MaxEvents = 4
SPECIFICATION TouchSpec
INVARIANTS
  TouchReachesItsEntity
  AssociationsEnd
PROPERTIES
  ThreadsGoOn
CHECK_DEADLOCK FALSE
