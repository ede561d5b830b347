SPECIFICATION FairSpec
CONSTANTS
  ECPs = {r1}
  MaxPulses = 4
  MaxMoves = 2
  SensorErrors = TRUE
INVARIANTS
  PauseIsEnded AcknowledgeComing
PROPERTY StopEndsTask
CHECK_DEADLOCK FALSE
