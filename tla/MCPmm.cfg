CONSTANTS
  PageSize = 2
  LineWidth = 3
  LowMemory = 4
  BitmapPages = 16
  KernelBase = 4
  KernelSize = 2
  StaleWords = {0, 5, 1000}
  E820Maps <- Machines
SPECIFICATION Spec
INVARIANTS
  CountMatchesBitmap
  NoReservedFrameIsHeld
  DumpsShowTheBitmap
PROPERTIES
  ImplementsFramePool
