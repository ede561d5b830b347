SPECIFICATION Spec
CONSTANTS
  ECPs = {r1}
  MaxPulses = 4
  MaxMoves = 2
  SensorErrors = FALSE
INVARIANT StoppedWhenAcknowledged
CHECK_DEADLOCK FALSE
