\* Drive 129 is absent and the queries of present drives may fail.
CONSTANTS
  Length = 3
  Drives <- MC_Drives4
  Present <- MC_Present3
  EddDrives <- MC_Edd
  BiosCanFail = TRUE
  NULL = NULL
  Geometry <- MC_Geometry
  ReadStarts <- MC_ReadStarts
  ReadCounts <- MC_ReadCounts
  ReadCanFail = FALSE
SPECIFICATION Spec
INVARIANT ReadAddressesRequested
