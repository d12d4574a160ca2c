CONSTANTS
  Ue = {ue1, ue2}
  Cells = {1, 2}
  MaxRach = 2
  MaxHo = 2
  MaxRand = 2
  MaxEvents = 5
  Deployments = {"xn"}
  MaxFlight = 2
SYMMETRY Interchangeable
SPECIFICATION Spec
INVARIANT TextArrivesAnyway
CHECK_DEADLOCK FALSE
