CONSTANTS
  Drives <- MC_Drives
  FatVolumes <- MC_FatVolumes
  BootDevice <- MC_BootDevice
  Paths <- MC_ChainPaths
SPECIFICATION Spec
PROPERTY ChainWalkReturns
