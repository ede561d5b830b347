SPECIFICATION Spec
CONSTANTS
  Robots = {r1, r2}
  Pids = {p1, p2}
  Crashes = 0
  Patient = FALSE
  Active = {r1, r2}
  Conveyors = {r2}
INVARIANT
  EdpIsOn
