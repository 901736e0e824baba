CONSTANTS
  Low <- MC_Low
  Firmwares <- MC_Firmwares
  Ext15 <- MC_Ext15
  E801Unit <- MC_E801Unit
  AllocStarts <- MC_AllocStarts
  AllocSizes <- MC_AllocSizes
  AllocAligns <- MC_AllocAligns
  HeapOutcomes = {TRUE, FALSE}
  MaxLive = 2
  NULL = NULL

SPECIFICATION Spec

INVARIANT TypeOK
INVARIANT FreeRegionsDisjoint
INVARIANT NoDoubleAllocation
INVARIANT OnlyFirmwareMemory
PROPERTY AbsSpec
