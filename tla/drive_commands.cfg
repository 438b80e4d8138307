SPECIFICATION Spec
CONSTANTS
  Tags <- MCTags
  Offset <- MCOffset
  Length <- MCLength
  Values <- MCValues
  Zero = "off"
  WordCount = 2
  MaxWriteRegs = 2
  WriteOnlyDirty = FALSE
  Inputs <- MCInputs
  Statuses = {TRUE, FALSE}
  Positions = {p0, p1}
  Prompt = TRUE
INVARIANTS
  ConfirmedOff
  FaultedRestsOff
  FaultIsReported
PROPERTIES
  NoJump
  ReconnectSendsOff
SYMMETRY MCSymmetry
