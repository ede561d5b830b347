\* both invariants speak of the states before an exception of a sensor, which are those
\* of this instance; MCMpStop has the exceptions
SPECIFICATION Spec
CONSTANTS
  ECPs = {r1, r2}
  MaxPulses = 4
  MaxMoves = 2
  SensorErrors = FALSE
SYMMETRY Symmetry
INVARIANTS
  StartFindsEcpWaiting
  AcknowledgeNotLost
CHECK_DEADLOCK FALSE
