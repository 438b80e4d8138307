SPECIFICATION FairSpec
CONSTANTS
  TidSpace = 8
  MaxAttempts = 4
  Late = 7
INVARIANT AnswerIsOwn
INVARIANT RecoversAtOnce
PROPERTY Recovers
