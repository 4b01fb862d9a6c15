------------------------------ MODULE FlashSim ------------------------------
(***************************************************************************)
(* The QSPI flash of both test benches, sim/flashsim.cpp. FlashCall is one *)
(* call of FLASHSIM::operator(): chip select, serial clock and four data   *)
(* lines in, and the lines the flash drives out. FlashByte is a whole byte *)
(* of such calls, for a host that sends bytes.                             *)
(*                                                                         *)
(* Sizes are scaled: pages of 256 bytes, sectors of 64 KB and a chip of 16 *)
(* MB are PageBytes, SectorBytes and MemBytes. The status register is the  *)
(* set of its bits that are 1. m_write_count only counts calls: it is      *)
(* whether the timer runs, and it runs out in any call.                    *)
(***************************************************************************)
EXTENDS Integers

CONSTANTS MemBytes, PageBytes, SectorBytes,
          EraseLimit,     \* 4 MB: the assertion of SECTOR_ERASE
          Image,          \* the file that is loaded at address 0, a function
          UndefinedBytes  \* what memory that is not m_mem's may hold

ASSUME GeometryAssumption ==
    /\ {PageBytes, SectorBytes, MemBytes} \subseteq Nat \ {0}
    /\ SectorBytes % PageBytes = 0 /\ MemBytes % SectorBytes = 0 /\ SectorBytes % 4 = 0
    /\ MemBytes <= 2^24  \* an address has 24 bits
    /\ EraseLimit \in 0 .. MemBytes

ASSUME ContentsAssumption ==
    UndefinedBytes \subseteq 0 .. 255 /\ \A a \in DOMAIN Image : Image[a] \in 0 .. 255

VARIABLES m_state, m_mode, m_sreg, m_creg, m_mem, m_pmem, m_addr, m_mode_byte,
          m_ireg, m_oreg, m_count, m_last_sck,
          m_write_count,  \* the timer runs
          aborted         \* an assert has failed or the model has called exit

registers == <<m_sreg, m_creg>>
shifter == <<m_ireg, m_oreg, m_count>>
flash == <<m_state, m_mode, registers, m_mem, m_pmem, m_addr, m_mode_byte,
           shifter, m_last_sck, m_write_count, aborted>>

Address == 0 .. MemBytes - 1
Offset == 0 .. PageBytes - 1
Byte == 0 .. 255
WIP == 0
WEL == 1
DPD == 9

Bits(byte) == {i \in 0 .. 7 : (byte \div 2^i) % 2 = 1}
ByteOf(bits) == CHOOSE byte \in Byte : Bits(byte) = bits
StatusByte == ByteOf(m_sreg \cap 0 .. 7)

\* QSPIF_DEEP_POWER_DOWN is declared and never entered.
QSPIF_STATE == {"IDLE", "QUAD_READ_IDLE", "RDSR", "RDCR", "WRSR", "CLSR", "RDID",
                "RELEASE", "SLOW_READ", "FAST_READ", "QUAD_READ_CMD", "QUAD_READ",
                "SECTOR_ERASE", "PP", "QPP", "BULK_ERASE", "DUAL_READ_IDLE",
                "DUAL_READ_CMD", "DUAL_READ", "INVALID"}
FLASH_MODE == {"SPI", "DSPI", "QSPI"}

FlashTypeOK ==
    /\ m_state \in QSPIF_STATE /\ m_mode \in FLASH_MODE
    /\ m_sreg \subseteq 0 .. 9 /\ m_creg \subseteq 0 .. 7
    /\ m_mem \in [Address -> Byte] /\ m_pmem \in [Offset -> Byte]
    /\ m_addr \in Nat /\ m_mode_byte \in Byte
    /\ m_ireg \in 0 .. 2^24 - 1 /\ m_oreg \in 0 .. 2^12 - 1 /\ m_count \in Nat
    /\ m_last_sck \in {0, 1} /\ m_write_count \in BOOLEAN /\ aborted \in BOOLEAN

\* The constructor and load(): the rest of the chip is erased.
FlashInit ==
    /\ m_state = "IDLE" /\ m_mode = "SPI" /\ m_sreg = {2, 3, 4} /\ m_creg = {0}
    /\ m_mem = [a \in Address |-> IF a \in DOMAIN Image THEN Image[a] ELSE 255]
    /\ m_pmem \in {[i \in Offset |-> b] : b \in UndefinedBytes} /\ m_addr = 0 /\ m_mode_byte = 0
    /\ m_ireg = 0 /\ m_oreg = 0 /\ m_count = 0 /\ m_last_sck = 1
    /\ m_write_count = FALSE /\ aborted = FALSE

\* The flash is idle between writes: WEL set, no write running, awake.
WriteAllowed == m_sreg \cap {WIP, WEL, DPD} = {WEL}

\* QOREG: the next byte to send; the bits on the lines stay.
QOREG(oreg, byte) == (oreg \div 256) * 256 + byte

AlignDown(a, size) == (a \div size) * size

-----------------------------------------------------------------------------
(* The write timer. Every call counts it down first.                       *)

\* m_sreg &= 0x0fc: with WIP go WEL and the deep power down flag.
WriteEnds ==
    /\ m_write_count /\ m_write_count' = FALSE
    /\ m_sreg' = m_sreg \cap 2 .. 7
    /\ UNCHANGED <<m_state, m_mode, m_creg, m_mem, m_pmem, m_addr, m_mode_byte,
                   shifter, m_last_sck, aborted>>

-----------------------------------------------------------------------------
(* CSN high ends a command: writes start, reads may stay in continuous     *)
(* mode. A second call with CSN high changes nothing.                      *)

Writing == {"PP", "QPP", "SECTOR_ERASE", "WRSR", "BULK_ERASE"}
QuadReads == {"QUAD_READ_CMD", "QUAD_READ"}
DualReads == {"DUAL_READ_CMD", "DUAL_READ"}

StaysContinuous == m_mode_byte \div 16 = 10

\* MUTANT: a page program overwrites the page.
Programmed_Overwrite(a) ==
    IF AlignDown(a, PageBytes) = AlignDown(m_addr, PageBytes)
    THEN m_pmem[a % PageBytes] ELSE m_mem[a]

\* A page program only clears bits, in the page of the address.
Programmed(a) ==
    IF AlignDown(a, PageBytes) = AlignDown(m_addr, PageBytes)
    THEN ByteOf(Bits(m_mem[a]) \cap Bits(m_pmem[a % PageBytes])) ELSE m_mem[a]

Erased(a) ==
    IF AlignDown(a, SectorBytes) = AlignDown(m_addr, SectorBytes) THEN 255 ELSE m_mem[a]

\* MUTANT: a read that stays in continuous mode leaves its lanes.
ModeAfter_AlwaysSPI ==
    IF m_state \in {"PP", "QPP"} \cup QuadReads \cup DualReads THEN "SPI" ELSE m_mode

ModeAfter ==
    IF m_state \in {"PP", "QPP"} \/ (m_state \in QuadReads \cup DualReads /\ ~StaysContinuous)
    THEN "SPI" ELSE m_mode

Deselect ==
    /\ m_last_sck' = 1 /\ m_ireg' = 0 /\ m_oreg' = 254 /\ m_count' = 0
    /\ m_mem' = CASE m_state \in {"PP", "QPP"} -> [a \in Address |-> Programmed(a)]
                  [] m_state = "SECTOR_ERASE"  -> [a \in Address |-> Erased(a)]
                  [] m_state = "BULK_ERASE"    -> [a \in Address |-> 255]
                  [] OTHER -> m_mem
    /\ m_addr' = IF m_state = "SECTOR_ERASE" THEN AlignDown(m_addr, SectorBytes) ELSE m_addr
    /\ m_sreg' = CASE m_state \in Writing -> (m_sreg \ {WEL}) \cup {WIP}
                   [] m_state = "CLSR" -> m_sreg \cap {0, 1, 2, 3, 4, 7}
                   [] OTHER -> m_sreg
    /\ m_write_count' = (m_write_count \/ m_state \in Writing \cup {"RELEASE"})
    /\ m_state' = CASE m_state \in Writing \cup {"RELEASE", "CLSR"}  -> "IDLE"
                    [] m_state \in QuadReads /\ StaysContinuous -> "QUAD_READ_IDLE"
                    [] m_state \in DualReads /\ StaysContinuous -> "DUAL_READ_IDLE"
                    [] OTHER -> m_state
    /\ m_mode' = ModeAfter
    /\ UNCHANGED <<m_creg, m_pmem, m_mode_byte, aborted>>

-----------------------------------------------------------------------------
(* Eight bits after CSN fell: the command.                                 *)

Read == 3
FastRead == 11
DualIO == 187
QuadIO == 235
WriteStatus == 1
PageProgram == 2
QuadProgram == 50
SectorErase == 216
BulkErase == 199
WriteDisable == 4
ReadStatus == 5
WriteEnable == 6
ClearStatus == 48
ReadConfig == 53
ReadID == 159
Release == 171
PowerDown == 185

WriteState(c) == CASE c = WriteStatus -> "WRSR" [] c = PageProgram -> "PP"
                   [] c = QuadProgram -> "QPP" [] c = SectorErase -> "SECTOR_ERASE"
                   [] c = BulkErase   -> "BULK_ERASE"

CommandState(c) ==
    CASE c \in {WriteStatus, PageProgram, QuadProgram, SectorErase, BulkErase} ->
              IF WriteAllowed THEN WriteState(c) ELSE "INVALID"
      [] c = Read        -> "SLOW_READ"
      [] c = FastRead    -> "FAST_READ"
      [] c = DualIO      -> "DUAL_READ_CMD"
      [] c = QuadIO      -> "QUAD_READ_CMD"
      [] c = ReadStatus  -> "RDSR"
      [] c = ReadConfig  -> "RDCR"
      [] c = ReadID      -> "RDID"
      [] c = ClearStatus -> "CLSR"
      [] c = Release     -> "RELEASE"
      [] c = PowerDown   -> IF WIP \in m_sreg THEN "INVALID" ELSE "IDLE"
      [] c \in {WriteEnable, WriteDisable, 80, 97, 112, 0, 255} -> "IDLE"
      [] c \in {129, 102, 153} -> m_state  \* 0x81; the reset commands are ignored
      [] OTHER -> "INVALID"

\* The byte that follows the command on the lines.
CommandAnswer(c) == CASE c = ReadStatus -> StatusByte [] c = ReadConfig -> ByteOf(m_creg)
                      [] c = ReadID -> 1 [] c \in {80, 97, 112, 129} -> 0 [] OTHER -> 165

Command(c, oreg) ==
    /\ UNCHANGED <<m_creg, m_mem, m_pmem, m_addr, m_mode_byte, aborted>>
    /\ IF DPD \in m_sreg /\ c # Release
       THEN m_oreg' = QOREG(oreg, 165) /\ UNCHANGED <<m_state, m_mode, m_sreg, m_write_count>>
       ELSE /\ m_oreg' = QOREG(oreg, CommandAnswer(c))
            /\ m_state' = CommandState(c)
            /\ m_mode' = CASE c = DualIO -> "DSPI" [] c = QuadIO -> "QSPI"
                           [] c \in {0, 255} -> "SPI" [] OTHER -> m_mode
            /\ m_sreg' = CASE c = WriteEnable  -> m_sreg \cup {WEL}
                           [] c = WriteDisable -> m_sreg \ {WEL}
                           [] c = Release      -> m_sreg \ {DPD}
                           [] c = PowerDown    -> IF WIP \in m_sreg THEN m_sreg ELSE m_sreg \cup {DPD}
                           [] OTHER -> m_sreg
            /\ m_write_count' = (m_write_count \/ (c = Release /\ DPD \in m_sreg))

-----------------------------------------------------------------------------
(* Every further byte.                                                     *)

Reading == QuadReads \cup DualReads \cup {"SLOW_READ", "FAST_READ"}

AddressAt == 32

ModeByteAt == CASE m_state \in {"DUAL_READ_CMD", "QUAD_READ_CMD"} -> 40
                [] m_state \in {"DUAL_READ", "QUAD_READ"} -> 32
                [] OTHER -> -1

\* MUTANT: continuous reads have two dummy clocks less.
FirstDataAt_ShortDummy == CASE m_state = "SLOW_READ" -> 32 [] m_state \in {"FAST_READ", "DUAL_READ_CMD"} -> 40
                            [] m_state = "QUAD_READ_CMD" -> 56 [] m_state = "QUAD_READ" -> 40
                            [] m_state = "DUAL_READ" -> 0

FirstDataAt == CASE m_state = "SLOW_READ" -> 32 [] m_state \in {"FAST_READ", "DUAL_READ_CMD"} -> 40
                 [] m_state = "QUAD_READ_CMD" -> 56 [] m_state = "QUAD_READ" -> 48
                 [] m_state = "DUAL_READ" -> 0

\* A write in progress blocks data, but not the first byte of a slow read nor a
\* continuous dual read.
DataDue(count) ==
    /\ count >= FirstDataAt
    /\ \/ WIP \notin m_sreg \/ m_state = "DUAL_READ"
       \/ m_state = "SLOW_READ" /\ count = AddressAt

\* The byte after the last one is past the end of m_mem.
MemoryAt(a) == IF a \in Address THEN {m_mem[a]} ELSE UndefinedBytes

\* The mode byte; a dual read waits for a write in progress.
ModeByteDue(count) == count = ModeByteAt /\ (m_state = "DUAL_READ_CMD" => WIP \notin m_sreg)

ReadByte(ireg, count, oreg) ==
    LET addressed == count = AddressAt /\ m_state \notin {"DUAL_READ", "QUAD_READ"}
        addr == IF addressed THEN ireg % MemBytes ELSE m_addr
    IN  /\ m_state \in Reading
        /\ m_mode_byte' = IF ModeByteDue(count) THEN ireg % 256 ELSE m_mode_byte
        /\ IF DataDue(count)
           THEN m_addr' = addr + 1 /\ m_oreg' \in {QOREG(oreg, b) : b \in MemoryAt(addr)}
           ELSE /\ m_addr' = addr
                /\ m_oreg' = CASE addressed -> QOREG(oreg, IF m_state = "FAST_READ" THEN 195 ELSE 0)
                               [] ~addressed /\ ModeByteDue(count) -> QOREG(oreg, 0)
                               [] OTHER -> 0
        /\ UNCHANGED <<m_state, m_mode, registers, m_pmem, aborted>>

\* Page programs: the data goes to m_pmem, round in the page.
ProgramByte(ireg, count, oreg) ==
    /\ m_state \in {"PP", "QPP"} /\ m_oreg' = QOREG(oreg, 0)
    /\ IF count = AddressAt
       THEN /\ m_addr' = ireg % MemBytes /\ m_pmem' = [i \in Offset |-> 255]
            /\ m_mode' = IF m_state = "QPP" THEN "QSPI" ELSE m_mode
       ELSE /\ UNCHANGED m_mode
            /\ IF count > AddressAt
               THEN /\ m_pmem' = [m_pmem EXCEPT ![m_addr % PageBytes] = ireg % 256]
                    /\ m_addr' = AlignDown(m_addr, PageBytes) + ((m_addr + 1) % PageBytes)
               ELSE UNCHANGED <<m_pmem, m_addr>>
    /\ UNCHANGED <<m_state, registers, m_mode_byte, aborted>>

EraseByte(ireg, count, oreg) ==
    /\ m_state = "SECTOR_ERASE" /\ m_oreg' = QOREG(oreg, 0)
    /\ m_addr' = IF count = AddressAt THEN AlignDown(ireg, SectorBytes \div 4) ELSE m_addr
    /\ aborted' = (count = AddressAt /\ m_addr' >= EraseLimit)
    /\ UNCHANGED <<m_state, m_mode, registers, m_pmem, m_mode_byte>>

\* The first data byte is the status, the second the configuration register.
StatusByteIn(ireg, count, oreg) ==
    /\ m_state = "WRSR" /\ m_oreg' = QOREG(oreg, 0)
    /\ m_sreg' = IF count = 16 THEN (m_sreg \cap {0, 5, 6}) \cup (Bits(ireg % 256) \cap {2, 3, 4, 7}) ELSE m_sreg
    /\ m_creg' = IF count = 24 THEN (m_creg \ {1}) \cup (Bits(ireg % 256) \cap {1}) ELSE m_creg
    /\ aborted' = (count > 24)
    /\ UNCHANGED <<m_state, m_mode, m_pmem, m_addr, m_mode_byte>>

\* A byte of 0x01152340. From the fifth byte on the shift by 32 - m_count is undefined
\* in C++; the processors the benches run on take it modulo 32.
DEVID(bits) == CASE bits = 0 -> 1 [] bits = 8 -> 21 [] bits = 16 -> 35 [] bits = 24 -> 64

\* Commands that answer, and those that take no data.
AnswerByte(count, oreg) ==
    /\ m_state \notin Reading \cup {"PP", "QPP", "SECTOR_ERASE", "WRSR"}
    /\ m_oreg' = QOREG(oreg,
          CASE m_state = "RDSR" -> StatusByte
            [] m_state = "RDCR" -> ByteOf(m_creg)
            [] m_state = "RDID" -> DEVID((count - 8) % 32)
            [] m_state = "RELEASE" /\ count >= 32 -> 20
            [] OTHER -> 0)
    /\ aborted' = (m_state = "CLSR")
    /\ UNCHANGED <<m_state, m_mode, registers, m_pmem, m_addr, m_mode_byte>>

DataByte(ireg, count, oreg) ==
    /\ UNCHANGED <<m_mem, m_write_count>>
    /\ \/ ReadByte(ireg, count, oreg) \/ ProgramByte(ireg, count, oreg)
       \/ EraseByte(ireg, count, oreg) \/ StatusByteIn(ireg, count, oreg)
       \/ AnswerByte(count, oreg)

-----------------------------------------------------------------------------
(* In continuous mode CSN low is followed by an address, not a command.    *)

ContinuousAddress(ireg, count) ==
    /\ aborted' = \/ DPD \in m_sreg
                  \/ m_mode # (IF m_state = "QUAD_READ_IDLE" THEN "QSPI" ELSE "DSPI")
    /\ m_oreg' = 0
    /\ IF count = 24
       THEN /\ m_addr' = ireg % MemBytes
            /\ m_state' = IF m_state = "QUAD_READ_IDLE" THEN "QUAD_READ" ELSE "DUAL_READ"
       ELSE UNCHANGED <<m_addr, m_state>>
    /\ UNCHANGED <<m_mode, registers, m_mem, m_pmem, m_mode_byte, m_write_count>>

\* The shift registers after the clock, and what it completes.
Process(ireg, count, oreg) ==
    /\ m_ireg' = ireg /\ m_count' = count
    /\ IF m_state \in {"QUAD_READ_IDLE", "DUAL_READ_IDLE"} THEN ContinuousAddress(ireg, count)
       ELSE IF count = 8 THEN Command(ireg % 256, oreg)
       ELSE IF count % 8 = 0 THEN DataByte(ireg, count, oreg)
       ELSE /\ m_oreg' = oreg
            /\ UNCHANGED <<m_state, m_mode, registers, m_mem, m_pmem, m_addr, m_mode_byte,
                           m_write_count, aborted>>

\* n bits enter on the data lines.
Shift(n, d) == Process((m_ireg % 2^(24 - n)) * 2^n + d, m_count + n, (m_oreg * 2^n) % 2^12)

Lanes == CASE m_mode = "QSPI" -> 4 [] m_mode = "DSPI" -> 2 [] m_mode = "SPI" -> 1

\* operator(): only the falling edge of SCK shifts, and CSN low counts as one if
\* SCK is low with it.
FlashCall(csn, sck, dat) ==
    IF csn THEN Deselect
    ELSE /\ m_last_sck' = sck
         /\ IF m_last_sck = 1 /\ sck = 0 THEN Shift(Lanes, dat % 2^Lanes)
            ELSE UNCHANGED <<m_state, m_mode, registers, m_mem, m_pmem, m_addr, m_mode_byte,
                             shifter, m_write_count, aborted>>

\* What the call returns: with CSN high the lines as they are, otherwise the top of
\* m_oreg on the lanes the flash drives.
FlashOut(csn, dat) ==
    IF csn THEN dat
    ELSE CASE m_mode = "QSPI" -> m_oreg \div 256
           [] m_mode = "DSPI" -> ((m_oreg \div 256) % 4) + (dat \div 4) * 4
           [] m_mode = "SPI"  -> ((m_oreg \div 256) % 2) * 2 + (dat \div 4) * 4 + (dat % 2)

\* Eight bits in a row: before the last of them nothing but the shift registers
\* and the address phase of continuous mode is touched.
FlashByte(byte) == Shift(8, byte) /\ m_last_sck' = 0

\* What a host has received once the next byte is through.
ByteOut == m_oreg % 256

-----------------------------------------------------------------------------
\* No assertion of the model fails and it never calls exit: hosts and the SoC's
\* controller, also one that is reset at any point, never send a clock too many, and
\* continuous mode always has its lanes and an awake chip.
\* flashsim.cpp:280-303,476-483,623-627.
FlashAssertions == ~aborted
=============================================================================
