CONSTANTS
    Bpbs <- MC_Bpbs
    SectorSize = 512
    BiosCanFail = TRUE
    SlotsPerClus <- MC_SlotsPerClus
    HeapCanFail = TRUE
    DiskCanFail = TRUE
    Tree <- MC_Tree
    RootSlots <- MC_RootSlots
    OpenPaths <- MC_Paths
INIT Init
NEXT Next
INVARIANTS
    TypeOK
    MountRecoversGeometry
    LookupSound
    LookupComplete
    OpenSound
    OpenComplete
\* OpenFile returns, or the mount was rejected: each behaviour stops.
CHECK_DEADLOCK FALSE
