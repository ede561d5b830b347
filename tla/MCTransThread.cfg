SPECIFICATION FairSpec
CONSTANT MaxSteps = 3
INVARIANTS
  ReleaseBelongsToOrder
  PositionReadAlone
PROPERTIES
  ErrorThrownFirst
  OrderNotTorn
  OrderAnswered
\* a TCIM move that never releases the master stops both threads
CHECK_DEADLOCK FALSE
