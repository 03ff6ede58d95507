CONSTANTS
  Word = 64
  LongWord = 4096
  Kilo = 8
  BufferSize = 16
  PointerDigits = 4
  Sizes = {0, 1, 2, 3, 4, 8}
  Longs <- Edges
  Memories <- Bytes
  Seeds <- SomeSeeds
  Ticks = {0, 1, 777}
SPECIFICATION Spec
INVARIANTS
  ConversionsAreRight
  PrintfFollowsItsFormat
  HelpersAreRight
