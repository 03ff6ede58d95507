CONSTANTS
  HeaderSize = 2
  FooterSize = 1
  PageSize = 8
  HeapStart = 8
  InitialEnd = 24
  MaxAddress = 40
  IndexCapacity = 8
  WordSize = 128
  Requests = {1, 6}
  MaxLive = 3
  MaxRounds = 4
  StaleMemory = FALSE
SPECIFICATION Spec
INVARIANTS
  TypeOK
  BlocksTileTheHeap
  IndexIsOrdered
  NoAdjacentHoles
  OwnersMatchBlocks
  CallsSucceed
PROPERTIES
  TakesSmallestHole
  HeldBlocksStay
  KmallocReturns
  ImplementsHeapSpec
