CONSTANTS
  Pids <- TwoPids
  Names = {n1, n2}
  NoName = NoName
  NumBars = 1
  MaxProcesses = 3
  MaxFaults = 1
  Loads <- OneLoad
SPECIFICATION Spec
INVARIANTS
  MonitoredOnce
  LiveIsMonitored
  ChartCountsLive
  BarsAreTop
PROPERTIES
  DeadIsErased
CHECK_DEADLOCK FALSE
