\* FAT16 file; the FAT, the heap and the disk never fail.
CONSTANTS
  BytsPerClus = 2
  EndCluster <- MC_EndCluster16
  EOC <- MC_EOC16
  Chain <- MC_Chain16
  FileSize = 5
  MaxHeap = 2
  Requests <- MC_Requests
  Offsets <- MC_Offsets
  FatCanFail = FALSE
  DiskCanFail = FALSE
SPECIFICATION Spec
INVARIANT ReadReturnsAll
