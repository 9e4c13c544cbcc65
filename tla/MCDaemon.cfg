CONSTANTS
  Collectors = {c1, c2}
  Frequencies <- NegativeToOne
  Nobody = Nobody
  Paths = {p1, p2}
  NoPath = NoPath
SPECIFICATION DaemonFairSpec
INVARIANTS
  DaemonTypeOK
  SleepsOnlyWhenIdle
  TimerFollowsFrequency
  QuietAfterStop
  FreedOnlyUnderCallback
  Stoppable
PROPERTIES
  ActiveIsSampled
  NegativeIsCorrected
  StopReturnsUnlessOverslept
  SignalEndsDaemon
