\* Does the assertion in BytesWritten hold when a connection breaks?
CONSTANTS
  Clients = {c}
  Streams <- FittingToLarge
  MaxBytes = 45
  StartSize = 12
  NoClient = NoClient
  Junk = 0
SPECIFICATION Spec
INVARIANT AssertionHolds
