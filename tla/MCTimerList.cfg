SPECIFICATION FairSpec
CONSTANTS
  TimeMod = 8
  Delays = {0, 1, 3}
  MaxStep = 3
  MaxTimers = 3
INVARIANT NeverEarly
INVARIANT NothingOverdue
PROPERTY CancelledSilent
PROPERTY ArmedFires
