SPECIFICATION FairSpec
CONSTANTS
  NumProcs = 2
  MaxRetx = 1
  AckTimeout = 2
  Rtt = 1
  Sizes = {3}
  MaxBlocks = 3
INVARIANT AckedReceived
INVARIANT FeedbackCurrent
PROPERTY ProcessFreed
