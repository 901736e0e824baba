CONSTANTS
  BlockSize = 16
  MinBlock = 4
  Chunk = 64
  Address = 5
  Length = 216
  Requests <- MC_Requests
  Beyond = {0}
  MaxLive = 4
SPECIFICATION Spec
INVARIANTS TypeOK HeapWellFormed DmaSafe LiveBlocksAllocated
