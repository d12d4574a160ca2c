CONSTANTS
  ue1 = ue1
  ue2 = ue2
  host = host
  Ue = {ue1, ue2, host}
  AutoAnswer = {ue1, ue2}
  Hosts = {host}
  FirstId <- MCFirstId
  MaxEvents = 4
  MaxSig = 2
SPECIFICATION Spec
INVARIANT MediaGated
INVARIANT BearersUsed
INVARIANT RingingGuardedApart
INVARIANT TalkingPaired
INVARIANT ConfAlive
CHECK_DEADLOCK FALSE
SYMMETRY MCSymmetry
