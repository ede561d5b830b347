SPECIFICATION FairSpec
CONSTANTS
  Tools = {t1, t2}
  NoTool = NoTool
  ErrorSites = {"connect", "configure", "reading"}
INVARIANTS
  ReleasedByOwnOrder
  ToolWrittenAlone
  ToolHonoured
PROPERTIES
  OrdersEnd
  StartEnds
\* the process may exit at the start
CHECK_DEADLOCK FALSE
