SPECIFICATION Spec
CONSTANTS
  SnMod = 8
  MaxPdus = 5
  MaxSegs = 2
  TxLimit = 2
  Reserve = 1
  PollEvery = 2
  TPoll = 1
  ProbeBatch = 2
  TReorder = 0
  MaxHoles = 2
  CountMod = 2
  MaxReorder = 4
  SeenMax = 8
INVARIANT AwaitedSnNotSeen
INVARIANT BacklogBounded
PROPERTY ImplementsService
