SPECIFICATION Spec
CONSTANTS
  ByteSize = 8
  BitCount = 3
  Period = 12
  Sine <- MCSine
  TwoPi = 6283
  Margin = 14
  Configs <- MCConfigs
  PositionGoals <- MCPositionGoals
  Amplitudes <- MCAmplitudes
  MinDegrees <- MCMinDegrees
  MaxDegrees <- MCMaxDegrees
  DegreesPerUnit = 2
  MaxFeed <- MCMaxFeed
  HoldFeed <- MCHoldFeed
  MinFeed <- MCMinFeed
  PositionStep <- MCPositionStep
  FeedStep <- MCFeedStep
  ReturnVelocity <- MCReturnVelocity
  ReturnMinDuration = 2
  ReturnMargin = 2
  Tolerance <- MCTolerance
  ReturnTolerances <- MCReturnTolerances
  CapPercent = 120
  RunWord = 56
  FullOverride = 20
  MaxElapsed = 24
  MaxJobs = 2
  MaxJitter = 2
  Slack = 24
INVARIANT NeverRefused
INVARIANT WaveIsNotClipped
INVARIANT WireCarriesSetpoint
INVARIANT ImageKeepsTags
PROPERTY DriveCanFollow
CHECK_DEADLOCK FALSE
