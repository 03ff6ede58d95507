CONSTANTS
  PageSize = 2
  LowMemory = 10
  BitmapPages = 16
  KernelBase = 10
  KernelSize = 2
  StaleWords = {0}
  Entries = 6
  KernelSpace = 2
  DirFrame = 2
  LowMapped = 1
  PhysicalFrames = 10
  ImagePages = 2
  BinPages = 1
  StackPage = 34
  StackPages = 1
  DeviceFrames = {12}
  Touched = {7, 24, 26, 27}
  Mapped = {7, 26, 30}
  E820Maps <- SmallMachine
SPECIFICATION Spec
INVARIANTS
  TypeOK
  TlbAgreesWithTables
  SelfMapReachesTheTables
  HandedOutFramesAreMappedOnce
  RetrySucceeds
PROPERTIES
  TouchEnds
