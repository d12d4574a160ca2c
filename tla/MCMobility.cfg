CONSTANTS
  Ue = {ue1, ue2}
  Cells = {1, 2}
  MaxRach = 2
  MaxHo = 2
  MaxRand = 2
  MaxEvents = 5
  Deployments = {"amf", "xn", "coordinator"}
  MaxFlight = 2
SYMMETRY Interchangeable
SPECIFICATION Spec
INVARIANT CrntiUnique
INVARIANT ContextKept
INVARIANT KeyFollows
INVARIANT CoreAgrees
INVARIANT RouteFollows
INVARIANT OneHome
INVARIANT TextArrives
CHECK_DEADLOCK FALSE
