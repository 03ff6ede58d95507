CONSTANTS
  Firmwares <- Maps
  LoaderBase = 0
  E820_BUFFER = 8
  LowCells <- Low
  E820_MAX_ENTRIES = 2
  KERNEL_SECTORS = 3
  ProgramHeaders <- KernelHeaders
  KernelCells <- FiveWords
  Byte = 4
  TssAddress <- Tss
SPECIFICATION Spec
INVARIANTS
  MapIsTheFirmwares
  KernelIsLoaded
  DescriptorsAreRight
PROPERTIES
  BootEnds
