CONSTANTS
  NSectors <- MC_NSectors
  StartSector <- MC_StartSector
  CacheSize <- MC_CacheSize
  MaxReadTry <- MC_MaxReadTry
  MaxHeap <- MC_MaxHeap
  DriveCanFail = TRUE
  BytsPerSec <- MC_BytsPerSec
  ReadSizes <- MC_ReadSizes
  SeekOffsets <- MC_SeekOffsets
SPECIFICATION Spec
INVARIANT TypeOK
INVARIANT TagsUnique
INVARIANT DeliversDriveData
INVARIANT ReadMatchesDevice
INVARIANT CursorWithinDevice
