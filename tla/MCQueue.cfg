CONSTANTS
  Producers = {p1, p2}
  Consumers = {c1, c2}
  Items = {a, b}
  Capacity = 2
  NoItem = NoItem
SPECIFICATION FairSpec
INVARIANTS
  OneKindWaits
  NoLostWakeup
PROPERTIES
  ImplementsFifo
  CallsComplete
CHECK_DEADLOCK TRUE
