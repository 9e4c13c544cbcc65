CONSTANTS
  old = old
  new = new
  wrong = wrong
  cpu = cpu
  Keys = {cpu}
  Handlers = {old, new, wrong}
  KeyOf <- OneKey
  Unusable = {wrong}
  NoHandler = NoHandler
  NoKey = NoKey
  Capacity = 2
  MaxMessages = 3
SPECIFICATION FairSpec
INVARIANTS
  SettledInOrder
  RegistrationKept
  DeletedNotUsed
PROPERTIES
  EveryMessageSettled
  StopReturnsUnlessCaught
