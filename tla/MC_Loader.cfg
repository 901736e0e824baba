CONSTANTS
  Low <- MC_Low
  Page <- MC_Page
  MemoryMaps <- MC_Maps
  Images <- MC_Images
  Modules <- MC_Modules
SPECIFICATION Spec
INVARIANTS TypeOK OwnedMemoryNeverFree TransferAccountsMemory ModuleListKeptInOrder
CHECK_DEADLOCK FALSE
