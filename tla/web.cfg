SPECIFICATION FairSpec
CONSTANTS
  Other = Other
  Requests = {r1}
  IdleTimeout = 2
INVARIANT WrongWaveStops
PROPERTIES
  NoEarlyStop
  NoPageNoWave
  AutoStopEnds
CHECK_DEADLOCK FALSE
