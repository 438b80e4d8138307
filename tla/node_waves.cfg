SPECIFICATION FairSpec
CONSTANTS
  None = None
  Goals = {g1}
  Returns = {r1}
  Pregenerated = FALSE
  Interruptible = FALSE
  SlowStart = TRUE
INVARIANT ControllerExclusive
PROPERTIES
  CanceledAfterHalt
  CancelEnds
  SoftStopStops
  TransitionsComplete
  FaultLeavesActive
  ReturnAnswered
