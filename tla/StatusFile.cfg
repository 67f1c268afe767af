CONSTANTS
  Callers = {socket, clip}
  NoThread = NoThread
  MaxWrites = 3
  MaxRuns = 2
SPECIFICATION BarSpec
CHECK_DEADLOCK FALSE
INVARIANTS
  FileFollowsMemory
PROPERTIES
  PublishesInOrder
  NeverGoesBack
  RevertsOnlyFlashes
  FlashEnds
  BarSettles
