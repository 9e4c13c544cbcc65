CONSTANTS
  Clients = {c}
  Streams <- FittingToLarge
  MaxBytes = 45
  StartSize = 12
  NoClient = NoClient
  Junk = 0
SPECIFICATION FairSpec
INVARIANTS
  RoutedAsSent
  OnlyGoneClientsClosed
  NoMessageHeldBack
PROPERTY AllRouted
