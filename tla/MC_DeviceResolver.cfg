CONSTANTS
  Drives <- MC_Drives
  FatVolumes <- MC_FatVolumes
  BootDevice <- MC_BootDevice
  Paths <- MC_Paths
SPECIFICATION Spec
INVARIANT TypeOK
INVARIANT DevicesUnique
INVARIANT ResolvesToNamedPartition
