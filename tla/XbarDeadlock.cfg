\* The three masters of sram and xip; the data port and the accelerator overlap.
\* The second slave of the module takes the place of xip.
SPECIFICATION Spec
CONSTANTS
    Master = {0, 1, 3}
    Slave = {sram, xip}
    sram = sram
    apb = xip
    Conn <- FullConn
    Drives <- FullDrives
    Control = {read}
    FAIR_ARBITRATION = FALSE
    Overlapping = {1, 3}
    Unmapped = Unmapped
    NoMaster = NoMaster
    NoSlave = NoSlave
    Idle = Idle
    Empty = Empty
INVARIANTS
    NoCircularWait
