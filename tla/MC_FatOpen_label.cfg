CONSTANTS
    Bpbs <- MC_LabelBpbs
    SectorSize = 512
    BiosCanFail = FALSE
    SlotsPerClus <- MC_SlotsPerClus
    HeapCanFail = FALSE
    DiskCanFail = FALSE
    Tree <- MC_LabelTree
    RootSlots <- MC_RootSlots
    OpenPaths <- MC_LabelPaths
INIT Init
NEXT Next
INVARIANT OpenComplete
\* OpenFile returns: each behaviour stops.
CHECK_DEADLOCK FALSE
