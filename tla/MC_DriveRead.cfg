\* Reliable BIOS queries: every drive answers; reads may fail.
CONSTANTS
  Length = 4
  Drives <- MC_Drives5
  Present <- MC_Drives5
  EddDrives <- MC_Edd
  BiosCanFail = FALSE
  NULL = NULL
  Geometry <- MC_Geometry
  ReadStarts <- MC_ReadStarts
  ReadCounts <- MC_ReadCounts
  ReadCanFail = TRUE
SPECIFICATION Spec
INVARIANTS TypeOK CacheIsRecencyList ReturnsOwnGeometry ReadAddressesRequested
