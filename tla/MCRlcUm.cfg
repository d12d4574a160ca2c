SPECIFICATION FairSpec
CONSTANTS
  SnMod = 16
  MaxPdus = 5
  MaxSegs = 3
  Window = 3
  TReorder = 2
  SeenMax = 8
INVARIANT TimerCoversHole
INVARIANT HeldInWindow
PROPERTY ImplementsService
PROPERTY HeldReleased
