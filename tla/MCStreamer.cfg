CONSTANTS
  a = a
  b = b
  Addresses = {a, b}
  Fds = {0, 1, 2}
  Stdin = 0
  NoFd = NoFd
  Closed = Closed
  Unconnected = Unconnected
  ServerLists <- BothAndOne
  Capacity = 2
  MaxItems = 3
SPECIFICATION FairSpec
INVARIANTS
  OneServerPerFd
  ConnectionsTracked
  FramingKept
PROPERTIES
  SentInOrder
  StopReturnsUnlessCaught
