SPECIFICATION Spec
CONSTANTS
  Tags <- MCTags
  Offset <- MCOffset
  Length <- MCLength
  Values = {0, 1, 2}
  Zero = 0
  WordCount = 4
  MaxWriteRegs = 3
  WriteOnlyDirty = TRUE
  Inputs = {i0}
  Statuses = {s0}
  Moves = 2
INVARIANT UnsentIsDirty
