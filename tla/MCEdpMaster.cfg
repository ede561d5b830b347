SPECIFICATION FairSpec
CONSTANTS
  Clients = {ecp}
  None = None
INVARIANTS
  ResultIsOwn
  SynchronisedTruly
  CallerReplied
PROPERTIES
  ClientReplied
