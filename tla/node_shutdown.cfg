SPECIFICATION FairShutdownSpec
CONSTANTS
  None = None
  Goals = {g1}
  Returns = {}
  Pregenerated = FALSE
  Interruptible = TRUE
  SlowStart = TRUE
PROPERTY ShutdownCompletes
