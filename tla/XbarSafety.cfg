\* The three ports that share sram and the bridge; the data port overlaps slaves.
SPECIFICATION Spec
CONSTANTS
    Master = {0, 1, 2}
    Slave = {sram, apb}
    sram = sram
    apb = apb
    Conn <- SocConn
    Drives <- SocDrives
    Control = {read}
    FAIR_ARBITRATION = FALSE
    Overlapping = {1}
    Unmapped = Unmapped
    NoMaster = NoMaster
    NoSlave = NoSlave
    Idle = Idle
    Empty = Empty
INVARIANTS
    IssuedExactlyOnce
    AnswerIsForTransfer
    WriteDataIsForTransfer
    BufferIsStalledTransfer
    NoCircularWait
    ErrorIsForTransfer
PROPERTIES
    TwoCycleError
