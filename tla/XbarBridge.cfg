\* Masters that do not overlap slaves, the SoC's strict priority.
SPECIFICATION ClockedLiveSpec
CONSTANTS
    Master = {0, 1}
    Slave = {sram, apb}
    sram = sram
    apb = apb
    ctrl = ctrl
    hole = hole
    Addr = {ctrl, hole}
    Decoded = {ctrl}
    Control <- Request
    Data <- WriteData
    NoRequest = NoRequest
    Conn <- FullConn
    Drives <- BridgeDrives
    FAIR_ARBITRATION = FALSE
    Overlapping = {}
    Unmapped = Unmapped
    NoMaster = NoMaster
    NoSlave = NoSlave
    Idle = Idle
    Empty = Empty
INVARIANTS
    WritesItsOwnData
    AccessHasLanded
    
PROPERTIES
    BridgeIsCrossbarSlave
    PriorityOnlyStarves
