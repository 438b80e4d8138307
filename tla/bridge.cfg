SPECIFICATION FairSpec
CONSTANTS
  None = None
  Goals = {g1, g2}
  Requests = {q1, q2}
  MaxCancels = 1
INVARIANTS
  Supervised
PROPERTIES
  KeepsContract
  StopEnds
  HeartbeatLossStops
