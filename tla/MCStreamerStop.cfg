\* Does Stop return?  A queue of two slots is filled while the streamer
\* thread holds a third item.
CONSTANTS
  a = a
  b = b
  Addresses = {a, b}
  Fds = {0, 1, 2}
  Stdin = 0
  NoFd = NoFd
  Closed = Closed
  Unconnected = Unconnected
  ServerLists <- One
  Capacity = 2
  MaxItems = 3
SPECIFICATION FairSpec
PROPERTY StopReturns
