SPECIFICATION Spec
CONSTANTS
    Exercises = {"fetch", "host", "uart", "mic", "jtag"}
    MemBytes = 16
    PageBytes = 4
    SectorBytes = 8
    EraseLimit = 8
    UndefinedBytes = {90}
    Image <- File
    HostAddresses = {3}
    MaxData = 2
    HostData <- ProgramData
    StatusData = {30}
    LineBytes = 8
    TRST_CYCLES = 2
    Lines = {0, 8}
    uart_cycles_per_bit = 20
    UartBytes = {0, 85, 166, 255}
    AudioWords = 2
    Benches = {"cxxrtl", "verilator"}
    Sources = {"none", "socket", "replay"}
    ClientBytes = {48, 52, 82, 81, 114, 116}
    FileBytes = {48, 52, 82, 81, 114, 117, 66}
    RxSize = 2
    TxSize = 2
    SocketSize = 2
    MaxReads = 2
    MaxCycles = 0
INVARIANTS TypeOK FlashAssertions ReadsReturnMemory PrintedIsSent MicSendsAudio AnswersInOrder NoEdgeMissed
PROPERTIES ImplementsNor EveryReadAnswered
