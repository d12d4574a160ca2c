CONSTANTS
  Limit = 2
  Procs = 2
  MaxEvents = 4
SPECIFICATION FairSpec
INVARIANT Bounded
INVARIANT BestEffortShare
INVARIANT SenderBalance
INVARIANT ReceiverBalance
INVARIANT SleepsUndisturbed
PROPERTY AcksResolved
CHECK_DEADLOCK FALSE
