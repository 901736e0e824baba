\* FAT16 file; GetNextCluster, malloc and ReadSector may all fail.
CONSTANTS
  BytsPerClus = 2
  EndCluster <- MC_EndCluster16
  EOC <- MC_EOC16
  Chain <- MC_Chain16
  FileSize = 5
  MaxHeap = 2
  Requests <- MC_Requests
  Offsets <- MC_Offsets
  FatCanFail = TRUE
  DiskCanFail = TRUE
SPECIFICATION Spec
INVARIANTS TypeOK ReadMatchesFile CursorClusterConsistent
