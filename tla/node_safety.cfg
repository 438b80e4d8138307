SPECIFICATION Spec
CONSTANTS
  None = None
  Goals = {g1, g2}
  Returns = {r1}
  Pregenerated = TRUE
  Interruptible = FALSE
  SlowStart = TRUE
SYMMETRY JobSymmetry
INVARIANTS
  WorkerFollowsOwnTrajectory
  RunningJobIsRegistered
  QuietWhenNotActive
  NoLostJob
  NoStuckClaim
