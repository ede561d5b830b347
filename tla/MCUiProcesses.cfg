SPECIFICATION Spec
CONSTANTS
  Robots = {r1, r2}
  Pids = {p1, p2, p3}
  Crashes = 1
  Patient = TRUE
  Active = {r1, r2}
  Conveyors = {r1, r2}
SYMMETRY Symmetry
INVARIANTS
  OneEdp
  ClaimKept
  ConnectedToOwn
  PermissionFollowsEdps
  SlayReturns
PROPERTIES
  HardwareSpec
