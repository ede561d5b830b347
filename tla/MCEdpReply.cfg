SPECIFICATION Spec
CONSTANTS
  Clients = {ecp}
  None = None
INVARIANTS
  ReplyHasCaller
