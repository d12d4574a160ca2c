SPECIFICATION FairSpec
CONSTANTS
  SnMod = 4
  MaxPdus = 3
  MaxSegs = 2
  TxLimit = 2
  Reserve = 1
  PollEvery = 2
  TPoll = 1
  ProbeBatch = 2
  TReorder = 1
  MaxHoles = 2
  CountMod = 2
  MaxReorder = 4
  SeenMax = 8
INVARIANT BearerInv
PROPERTY ImplementsService
PROPERTY GapsResolve
