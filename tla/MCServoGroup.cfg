SPECIFICATION FairSpec
CONSTANTS
  NumServos = 2
  MaxSteps = 2
  StopSteps = 2
  MaxLag = 3
INVARIANTS
  NoFaultForgotten
  AnswerBelongsToCommand
  PhaseOneComplete
  NoSilentDrift
  ServedOnlyWhenZeroed
PROPERTIES
  ReplyStableWhileRead
  CommandAnswered
  ImplementsServoCall
