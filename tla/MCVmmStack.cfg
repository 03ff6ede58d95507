CONSTANTS
  PageSize = 2
  LowMemory = 10
  BitmapPages = 16
  KernelBase = 10
  KernelSize = 2
  StaleWords = {0}
  Entries = 6
  KernelSpace = 2
  DirFrame = 2
  LowMapped = 1
  PhysicalFrames = 10
  ImagePages = 1
  BinPages = 1
  StackPage = 34
  StackPages = 1
  DeviceFrames = {12}
  Touched = {25, 26, 27, 28, 29}
  Mapped = {}
  E820Maps <- LargeMachine
SPECIFICATION Spec
INVARIANTS
  KernelStackIsNotHandedOut
