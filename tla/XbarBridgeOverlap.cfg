\* The data port drives the bridge while its access to sram is stalled.
SPECIFICATION ClockedSpec
CONSTANTS
    Master = {0, 1}
    Slave = {sram, apb}
    sram = sram
    apb = apb
    ctrl = ctrl
    hole = hole
    Addr = {ctrl, hole}
    Decoded = {ctrl}
    Control <- Request
    Data <- WriteData
    NoRequest = NoRequest
    Conn <- FullConn
    Drives <- BridgeDrives
    FAIR_ARBITRATION = FALSE
    Overlapping = {1}
    Unmapped = Unmapped
    NoMaster = NoMaster
    NoSlave = NoSlave
    Idle = Idle
    Empty = Empty
INVARIANTS
    WritesItsOwnData
