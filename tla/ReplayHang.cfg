SPECIFICATION Spec
CONSTANTS
    Exercises = {"jtag"}
    MemBytes = 16
    PageBytes = 4
    SectorBytes = 8
    EraseLimit = 8
    UndefinedBytes = {90}
    Image <- File
    HostAddresses = {3}
    MaxData = 2
    HostData <- ProgramData
    StatusData = {30}
    LineBytes = 8
    TRST_CYCLES = 2
    Lines = {0, 8}
    uart_cycles_per_bit = 20
    UartBytes = {0}
    AudioWords = 2
    Benches = {"cxxrtl"}
    Sources = {"replay"}
    ClientBytes = {}
    FileBytes = {48, 52, 82}
    RxSize = 2
    TxSize = 2
    SocketSize = 2
    MaxReads = 0
    MaxCycles = 3
PROPERTY ReplayEnds
