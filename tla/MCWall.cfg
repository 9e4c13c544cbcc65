CONSTANTS
  a1 = a1
  a2 = a2
  b = b
  Items = {a1, a2, b}
  Entities = {a1, a2}
  NoEntity = NoEntity
  KeyOf <- TwoNames
  LowerCase <- ToLower
  Indexes = {1, 2, 3}
  MaxSends = 2
  MaxDeliveries = 3
  MaxRemoved = 1
SPECIFICATION Spec
INVARIANTS
  BoidsFollowData
  TableFollowsData
  SubTableShowsSelection
  HighlightedIsShown
SYMMETRY Alike
ACTION_CONSTRAINT HandlerWhereRead
CHECK_DEADLOCK FALSE
