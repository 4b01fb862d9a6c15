---------------------------- MODULE FlashProofs -----------------------------
(***************************************************************************)
(* Proofs about the flash model and its two users in SimBench, for a chip, *)
(* a line, an image and transfers of any size.                             *)
(***************************************************************************)
EXTENDS SimBench, TLAPS

-----------------------------------------------------------------------------
(* Division with remainder for any divisor, which the provers know only    *)
(* for constants.                                                          *)

\* Quotient and remainder, by definition.
LEMMA DivMod ==
    ASSUME NEW n \in Nat \ {0}, NEW a \in Int
    PROVE  /\ a \div n \in Int /\ a % n \in 0 .. n - 1
           /\ a = (n * (a \div n)) + (a % n)
OBVIOUS

\* A positive multiple is at least the number.
LEMMA MultipleIsLarge ==
    ASSUME NEW n \in Nat \ {0}, NEW d \in Int, d >= 1
    PROVE  n * d >= n
OBVIOUS

\* A number has one remainder.
LEMMA RemainderUnique ==
    ASSUME NEW n \in Nat \ {0}, NEW p \in Int, NEW q \in Int,
           NEW r \in 0 .. n - 1, NEW s \in 0 .. n - 1, n * p + r = n * q + s
    PROVE  r = s
<1>1. CASE q - p >= 1
  <2>1. n * (q - p) = r - s
    OBVIOUS
  <2>2. QED
    BY <1>1, <2>1, MultipleIsLarge
<1>2. CASE p - q >= 1
  <2>1. n * (p - q) = s - r
    OBVIOUS
  <2>2. QED
    BY <1>2, <2>1, MultipleIsLarge
<1>3. CASE p = q
  BY <1>3
<1>4. QED
  BY <1>1, <1>2, <1>3

\* What is smaller than the divisor is its own remainder.
LEMMA SmallRemainder ==
    ASSUME NEW n \in Nat \ {0}, NEW a \in 0 .. n - 1
    PROVE  a % n = a
<1>1. a \div n \in Int /\ a % n \in 0 .. n - 1 /\ a = (n * (a \div n)) + (a % n)
  BY DivMod
<1>2. n * 0 = 0
  OBVIOUS
<1> DEFINE q == a \div n
           r == a % n
<1>3. q \in Int /\ r \in 0 .. n - 1 /\ n * 0 + a = n * q + r
  BY <1>1, <1>2
<1> HIDE DEF q, r
<1>4. a = r
  BY <1>2, <1>3, RemainderUnique
<1>5. QED
  BY <1>4 DEF r

\* Row and column of a place in a table are determined by the place.
LEMMA RowUnique ==
    ASSUME NEW n \in Nat \ {0}, NEW p \in Int, NEW q \in Int,
           NEW r \in 0 .. n - 1, NEW s \in 0 .. n - 1, p * n + r = q * n + s
    PROVE  p = q /\ r = s
<1>1. n * p + r = n * q + s
  OBVIOUS
<1>2. r = s
  BY <1>1, RemainderUnique
<1>3. n * p = n * q
  BY <1>1, <1>2
<1>4. CASE q - p >= 1
  <2>1. n * (q - p) = 0
    BY <1>3
  <2>2. QED
    BY <1>4, <2>1, MultipleIsLarge
<1>5. CASE p - q >= 1
  <2>1. n * (p - q) = 0
    BY <1>3
  <2>2. QED
    BY <1>5, <2>1, MultipleIsLarge
<1>6. QED
  BY <1>2, <1>4, <1>5

-----------------------------------------------------------------------------
(* Numbers and bits.                                                       *)

\* Powers as values: the provers know b^k for numbers b and k, and Pow for equal arguments.
Pow(b, k) == b^k

\* What an address register of 24 bits holds.
Bits24 == 0 .. 2^24 - 1

LEMMA PowIs == \A b, k : b^k = Pow(b, k)
BY DEF Pow

LEMMA PowValues ==
    /\ Pow(2, 0) = 1 /\ Pow(2, 1) = 2 /\ Pow(2, 2) = 4 /\ Pow(2, 3) = 8 /\ Pow(2, 4) = 16
    /\ Pow(2, 5) = 32 /\ Pow(2, 6) = 64 /\ Pow(2, 7) = 128 /\ Pow(2, 8) = 256 /\ Pow(2, 16) = 65536
    /\ Pow(2, 20) = 1048576 /\ Pow(2, 22) = 4194304 /\ Pow(2, 23) = 8388608
    /\ Pow(16, 0) = 1 /\ Pow(16, 1) = 16 /\ Pow(16, 2) = 256 /\ Pow(16, 3) = 4096
    /\ Pow(16, 4) = 65536 /\ Pow(16, 5) = 1048576 /\ Pow(16, 6) = 16777216
    /\ Pow(256, 0) = 1 /\ Pow(256, 1) = 256 /\ Pow(256, 2) = 65536
BY DEF Pow

LEMMA BitsOfSum ==
    ASSUME NEW a \in {0, 1}, NEW b \in {0, 1}, NEW c \in {0, 1}, NEW d \in {0, 1},
           NEW e \in {0, 1}, NEW f \in {0, 1}, NEW g \in {0, 1}, NEW h \in {0, 1},
           NEW byte, byte = a + 2 * b + 4 * c + 8 * d + 16 * e + 32 * f + 64 * g + 128 * h
    PROVE  /\ byte \in Byte
           /\ (byte \div 1) % 2 = a /\ (byte \div 2) % 2 = b /\ (byte \div 4) % 2 = c
           /\ (byte \div 8) % 2 = d /\ (byte \div 16) % 2 = e /\ (byte \div 32) % 2 = f
           /\ (byte \div 64) % 2 = g /\ (byte \div 128) % 2 = h
BY DEF Byte

LEMMA ByteExists ==
    ASSUME NEW bits \in SUBSET (0 .. 7)
    PROVE  /\ ByteOf(bits) \in Byte
           /\ Bits(ByteOf(bits)) = bits
<1> DEFINE One(i) == IF i \in bits THEN 1 ELSE 0
           sum == One(0) + 2 * One(1) + 4 * One(2) + 8 * One(3) + 16 * One(4) + 32 * One(5)
                  + 64 * One(6) + 128 * One(7)
<1>1. \A i \in 0 .. 7 : One(i) \in {0, 1} /\ (One(i) = 1 <=> i \in bits)
  OBVIOUS
<1> HIDE DEF One
<1>2. /\ sum \in Byte
      /\ (sum \div 1) % 2 = One(0) /\ (sum \div 2) % 2 = One(1) /\ (sum \div 4) % 2 = One(2)
      /\ (sum \div 8) % 2 = One(3) /\ (sum \div 16) % 2 = One(4) /\ (sum \div 32) % 2 = One(5)
      /\ (sum \div 64) % 2 = One(6) /\ (sum \div 128) % 2 = One(7)
  <2>1. \A i \in 0 .. 7 : One(i) \in {0, 1}
    BY <1>1
  <2>2. /\ One(0) \in {0, 1} /\ One(1) \in {0, 1} /\ One(2) \in {0, 1} /\ One(3) \in {0, 1}
        /\ One(4) \in {0, 1} /\ One(5) \in {0, 1} /\ One(6) \in {0, 1} /\ One(7) \in {0, 1}
    BY <2>1
  <2>3. QED
    BY <2>2, BitsOfSum
<1> HIDE DEF sum
<1>3. \A i \in 0 .. 7 : (sum \div 2^i) % 2 = One(i)
  <2>1. TAKE i \in 0 .. 7
  <2>2. /\ (sum \div 2^0) % 2 = One(0) /\ (sum \div 2^1) % 2 = One(1) /\ (sum \div 2^2) % 2 = One(2)
        /\ (sum \div 2^3) % 2 = One(3) /\ (sum \div 2^4) % 2 = One(4) /\ (sum \div 2^5) % 2 = One(5)
        /\ (sum \div 2^6) % 2 = One(6) /\ (sum \div 2^7) % 2 = One(7)
    BY <1>2, SMT
  <2>3. i = 0 \/ i = 1 \/ i = 2 \/ i = 3 \/ i = 4 \/ i = 5 \/ i = 6 \/ i = 7
    OBVIOUS
  <2>4. QED
    BY <2>2, <2>3, Zenon
<1>4. Bits(sum) = bits
  BY <1>1, <1>3 DEF Bits
<1>5. QED
  BY <1>2, <1>4 DEF ByteOf

-----------------------------------------------------------------------------
(* Types. The registers of the shifter are what Shift makes of them.       *)

\* What a clock of n lanes makes of the registers stays in their width.
LEMMA ShiftNumbers ==
    ASSUME NEW ireg \in 0 .. 2^24 - 1, NEW oreg \in 0 .. 2^12 - 1, NEW n \in {1, 2, 4, 8},
           NEW d \in 0 .. 2^n - 1
    PROVE  /\ (ireg % 2^(24 - n)) * 2^n + d \in 0 .. 2^24 - 1
           /\ (oreg * 2^n) % 2^12 \in 0 .. 2^12 - 1
<1>1. CASE n = 1
  <2>1. Pow(2, n) = 2 /\ Pow(2, 24 - n) = 8388608
    BY <1>1, PowValues
  <2>2. 2^n = 2 /\ 2^(24 - n) = 8388608
    BY <2>1, PowIs
  <2>3. QED
    BY <2>2
<1>2. CASE n = 2
  <2>1. Pow(2, n) = 4 /\ Pow(2, 24 - n) = 4194304
    BY <1>2, PowValues
  <2>2. 2^n = 4 /\ 2^(24 - n) = 4194304
    BY <2>1, PowIs
  <2>3. QED
    BY <2>2
<1>3. CASE n = 4
  <2>1. Pow(2, n) = 16 /\ Pow(2, 24 - n) = 1048576
    BY <1>3, PowValues
  <2>2. 2^n = 16 /\ 2^(24 - n) = 1048576
    BY <2>1, PowIs
  <2>3. QED
    BY <2>2
<1>4. CASE n = 8
  <2>1. Pow(2, n) = 256 /\ Pow(2, 24 - n) = 65536
    BY <1>4, PowValues
  <2>2. 2^n = 256 /\ 2^(24 - n) = 65536
    BY <2>1, PowIs
  <2>3. QED
    BY <2>2
<1>5. QED
  BY <1>1, <1>2, <1>3, <1>4

LEMMA OregTypes ==
    ASSUME NEW oreg \in 0 .. 2^12 - 1, NEW b \in Byte
    PROVE  QOREG(oreg, b) \in 0 .. 2^12 - 1 /\ QOREG(oreg, b) % 256 = b /\ QOREG(oreg, b) \div 256 = oreg \div 256
<1>1. PICK q \in 0 .. 15 : q = oreg \div 256
  OBVIOUS
<1>2. b \in 0 .. 255
  BY DEF Byte
<1>3. QOREG(oreg, b) = q * 256 + b
  BY <1>1 DEF QOREG
<1>4. q * 256 + b \in 0 .. 2^12 - 1 /\ (q * 256 + b) % 256 = b /\ (q * 256 + b) \div 256 = q
  BY <1>2
<1>5. QED
  BY <1>1, <1>3, <1>4

LEMMA StatusTypes ==
    ASSUME FlashTypeOK
    PROVE  StatusByte \in Byte /\ ByteOf(m_creg) \in Byte
<1>1. m_sreg \cap 0 .. 7 \in SUBSET (0 .. 7) /\ m_creg \in SUBSET (0 .. 7)
  BY DEF FlashTypeOK
<1>2. QED
  BY <1>1, ByteExists DEF StatusByte

LEMMA MemoryTypes ==
    ASSUME FlashTypeOK, NEW a
    PROVE  MemoryAt(a) \subseteq Byte
<1>1. \A x \in UndefinedBytes : x \in Byte
  BY ContentsAssumption DEF Byte
<1>2. a \in Address => m_mem[a] \in Byte
  BY DEF FlashTypeOK
<1>3. QED
  BY <1>1, <1>2 DEF MemoryAt

LEMMA ContinuousTypes ==
    ASSUME FlashTypeOK, NEW ireg \in 0 .. 2^24 - 1, NEW count \in Nat, m_ireg' = ireg, m_count' = count,
           m_last_sck' \in {0, 1}, ContinuousAddress(ireg, count)
    PROVE  FlashTypeOK'
<1>1. ireg % MemBytes \in Nat
  BY GeometryAssumption
<1>2. m_addr' \in Nat /\ m_oreg' = 0 /\ aborted' \in BOOLEAN /\ m_state' \in QSPIF_STATE
  BY <1>1 DEF FlashTypeOK, ContinuousAddress, QSPIF_STATE
<1>3. QED
  BY <1>2 DEF FlashTypeOK, ContinuousAddress, registers

LEMMA CommandTypes ==
    ASSUME FlashTypeOK, NEW ireg \in 0 .. 2^24 - 1, NEW count \in Nat, NEW oreg \in 0 .. 2^12 - 1,
           m_ireg' = ireg, m_count' = count, m_last_sck' \in {0, 1}, NEW c \in Byte, Command(c, oreg)
    PROVE  FlashTypeOK'
<1>1. CommandAnswer(c) \in Byte
  BY StatusTypes DEF CommandAnswer, Byte
<1>2. m_oreg' \in 0 .. 2^12 - 1
  <2>1. QOREG(oreg, 165) \in 0 .. 2^12 - 1 /\ QOREG(oreg, CommandAnswer(c)) \in 0 .. 2^12 - 1
    <3>1. 165 \in Byte
      BY DEF Byte
    <3>2. \A b \in Byte : QOREG(oreg, b) \in 0 .. 2^12 - 1
      BY OregTypes
    <3>3. QED
      BY <1>1, <3>1, <3>2
  <2>2. QED
    BY <2>1 DEF Command
<1>3. m_state' \in QSPIF_STATE
  <2>1. CommandState(c) \in QSPIF_STATE
    BY DEF CommandState, WriteState, QSPIF_STATE, FlashTypeOK, WriteStatus, PageProgram, QuadProgram,
           SectorErase, BulkErase, Read, FastRead, DualIO, QuadIO, ReadStatus, ReadConfig, ReadID,
           ClearStatus, Release, PowerDown, WriteEnable, WriteDisable
  <2>2. QED
    BY <2>1 DEF Command, FlashTypeOK
<1>4. m_mode' \in FLASH_MODE
  BY DEF Command, FlashTypeOK, FLASH_MODE
<1>5. m_sreg' \subseteq 0 .. 9
  BY DEF Command, FlashTypeOK, WEL, DPD
<1>6. m_write_count' \in BOOLEAN
  BY DEF Command, FlashTypeOK
<1>7. QED
  BY <1>2, <1>3, <1>4, <1>5, <1>6 DEF FlashTypeOK, Command

LEMMA ReadTypes ==
    ASSUME FlashTypeOK, NEW ireg \in 0 .. 2^24 - 1, NEW count \in Nat, NEW oreg \in 0 .. 2^12 - 1,
           m_ireg' = ireg, m_count' = count, m_last_sck' \in {0, 1}, ReadByte(ireg, count, oreg),
           UNCHANGED <<m_mem, m_write_count>>
    PROVE  FlashTypeOK'
<1>1. ireg % MemBytes \in Nat /\ m_addr \in Nat /\ ireg % 256 \in Byte
  <2>1. ireg % MemBytes \in Nat
    BY GeometryAssumption
  <2>2. ireg % 256 \in Byte
    BY DEF Byte
  <2>3. QED
    BY <2>1, <2>2 DEF FlashTypeOK
<1>2. m_addr' \in Nat /\ m_mode_byte' \in Byte
  BY <1>1 DEF ReadByte, FlashTypeOK
<1>3. m_oreg' \in 0 .. 2^12 - 1
  <2>1. \A b \in Byte : QOREG(oreg, b) \in 0 .. 2^12 - 1
    BY OregTypes
  <2>2. \A a : \A b \in MemoryAt(a) : QOREG(oreg, b) \in 0 .. 2^12 - 1
    BY <2>1, MemoryTypes
  <2>3. QOREG(oreg, 0) \in 0 .. 2^12 - 1 /\ QOREG(oreg, 195) \in 0 .. 2^12 - 1 /\ 0 \in 0 .. 2^12 - 1
    BY <2>1 DEF Byte
  <2>4. m_oreg' \in 0 .. 2^12 - 1
    BY <2>2, <2>3 DEF ReadByte
  <2>5. QED
    BY <2>4
<1>4. QED
  BY <1>2, <1>3 DEF FlashTypeOK, ReadByte, registers

LEMMA ProgramTypes ==
    ASSUME FlashTypeOK, NEW ireg \in 0 .. 2^24 - 1, NEW count \in Nat, NEW oreg \in 0 .. 2^12 - 1,
           m_ireg' = ireg, m_count' = count, m_last_sck' \in {0, 1}, ProgramByte(ireg, count, oreg),
           UNCHANGED <<m_mem, m_write_count>>
    PROVE  FlashTypeOK'
<1>1. ireg % MemBytes \in Nat /\ m_addr \in Nat /\ ireg % 256 \in Byte
  <2>1. ireg % MemBytes \in Nat
    BY GeometryAssumption
  <2>2. ireg % 256 \in Byte
    BY DEF Byte
  <2>3. QED
    BY <2>1, <2>2 DEF FlashTypeOK
<1>2. AlignDown(m_addr, PageBytes) + ((m_addr + 1) % PageBytes) \in Nat
  <2>1. (m_addr \div PageBytes) \in Nat /\ (m_addr + 1) % PageBytes \in Nat
    BY <1>1, GeometryAssumption
  <2>2. (m_addr \div PageBytes) * PageBytes \in Nat
    BY <2>1, GeometryAssumption
  <2>3. QED
    BY <2>1, <2>2 DEF AlignDown
<1>3. m_addr' \in Nat
  BY <1>1, <1>2 DEF ProgramByte
<1>4. m_pmem' \in [Offset -> Byte]
  BY <1>1 DEF ProgramByte, FlashTypeOK, Byte
<1>5. m_mode' \in FLASH_MODE
  BY DEF ProgramByte, FlashTypeOK, FLASH_MODE
<1>6. m_oreg' \in 0 .. 2^12 - 1
  <2>1. 0 \in Byte
    BY DEF Byte
  <2>2. QED
    BY <2>1, OregTypes DEF ProgramByte
<1>7. QED
  BY <1>3, <1>4, <1>5, <1>6 DEF FlashTypeOK, ProgramByte, registers

LEMMA OtherTypes ==
    ASSUME FlashTypeOK, NEW ireg \in 0 .. 2^24 - 1, NEW count \in Nat, NEW oreg \in 0 .. 2^12 - 1,
           m_ireg' = ireg, m_count' = count, m_last_sck' \in {0, 1}, count % 8 = 0,
           EraseByte(ireg, count, oreg) \/ StatusByteIn(ireg, count, oreg) \/ AnswerByte(count, oreg),
           UNCHANGED <<m_mem, m_write_count>>
    PROVE  FlashTypeOK'
<1>1. \A b \in Byte : QOREG(oreg, b) \in 0 .. 2^12 - 1
  BY OregTypes
<1>2. CASE EraseByte(ireg, count, oreg)
  <2>1. m_addr' \in Nat
    <3>1. PICK q \in Nat \ {0} : q = SectorBytes \div 4
      BY GeometryAssumption
    <3>2. ireg \div q \in Nat
      BY <3>1
    <3>3. (ireg \div q) * q \in Nat
      BY <3>1, <3>2
    <3>4. QED
      BY <1>2, <3>1, <3>3 DEF EraseByte, AlignDown, FlashTypeOK
  <2>2. m_oreg' \in 0 .. 2^12 - 1 /\ aborted' \in BOOLEAN
    BY <1>1, <1>2 DEF EraseByte, Byte
  <2>3. QED
    BY <1>2, <2>1, <2>2 DEF FlashTypeOK, EraseByte, registers
<1>3. CASE StatusByteIn(ireg, count, oreg)
  <2>1. m_sreg' \subseteq 0 .. 9 /\ m_creg' \subseteq 0 .. 7
    <3>1. Bits(ireg % 256) \subseteq 0 .. 7
      BY DEF Bits
    <3>2. \A i \in m_sreg' : i \in 0 .. 9
      BY <1>3, <3>1 DEF StatusByteIn, FlashTypeOK
    <3>3. \A i \in m_creg' : i \in 0 .. 7
      BY <1>3, <3>1 DEF StatusByteIn, FlashTypeOK
    <3>4. QED
      BY <3>2, <3>3
  <2>2. m_oreg' \in 0 .. 2^12 - 1 /\ aborted' \in BOOLEAN
    BY <1>1, <1>3 DEF StatusByteIn, Byte
  <2>3. QED
    BY <1>3, <2>1, <2>2 DEF FlashTypeOK, StatusByteIn
<1>4. CASE AnswerByte(count, oreg)
  <2>1. DEVID((count - 8) % 32) \in Byte
    <3>1. (count - 8) % 32 \in {0, 8, 16, 24}
      OBVIOUS
    <3>2. QED
      BY <3>1 DEF DEVID, Byte
  <2>2. m_oreg' \in 0 .. 2^12 - 1 /\ aborted' \in BOOLEAN
    <3>1. PICK b : /\ m_oreg' = QOREG(oreg, b)
                   /\ b = CASE m_state = "RDSR" -> StatusByte
                            [] m_state = "RDCR" -> ByteOf(m_creg)
                            [] m_state = "RDID" -> DEVID((count - 8) % 32)
                            [] m_state = "RELEASE" /\ count >= 32 -> 20
                            [] OTHER -> 0
      BY <1>4 DEF AnswerByte
    <3>2. b \in Byte
      BY <2>1, <3>1, StatusTypes DEF Byte
    <3>3. QED
      BY <1>1, <1>4, <3>1, <3>2 DEF AnswerByte
  <2>3. QED
    BY <1>4, <2>2 DEF FlashTypeOK, AnswerByte, registers
<1>5. QED
  BY <1>2, <1>3, <1>4

LEMMA ProcessTypes ==
    ASSUME FlashTypeOK, NEW ireg \in 0 .. 2^24 - 1, NEW count \in Nat, NEW oreg \in 0 .. 2^12 - 1,
           m_last_sck' \in {0, 1}, Process(ireg, count, oreg)
    PROVE  FlashTypeOK'
<1>1. m_ireg' = ireg /\ m_count' = count
  BY DEF Process
<1>2. CASE m_state \in {"QUAD_READ_IDLE", "DUAL_READ_IDLE"}
  BY <1>1, <1>2, ContinuousTypes DEF Process
<1>3. CASE m_state \notin {"QUAD_READ_IDLE", "DUAL_READ_IDLE"} /\ count = 8
  <2>1. ireg % 256 \in Byte
    BY DEF Byte
  <2>2. QED
    BY <1>1, <1>3, <2>1, CommandTypes DEF Process
<1>4. CASE m_state \notin {"QUAD_READ_IDLE", "DUAL_READ_IDLE"} /\ count # 8 /\ count % 8 = 0
  BY <1>1, <1>4, ReadTypes, ProgramTypes, OtherTypes DEF Process, DataByte
<1>5. CASE m_state \notin {"QUAD_READ_IDLE", "DUAL_READ_IDLE"} /\ count # 8 /\ count % 8 # 0
  BY <1>1, <1>5 DEF Process, FlashTypeOK, registers
<1>6. QED
  BY <1>2, <1>3, <1>4, <1>5

\* A clock of n lanes.
LEMMA ShiftTypes ==
    ASSUME FlashTypeOK, NEW n \in {1, 2, 4, 8}, NEW d \in 0 .. 2^n - 1, m_last_sck' \in {0, 1}, Shift(n, d)
    PROVE  FlashTypeOK'
<1>1. /\ (m_ireg % 2^(24 - n)) * 2^n + d \in 0 .. 2^24 - 1
      /\ (m_oreg * 2^n) % 2^12 \in 0 .. 2^12 - 1
  BY ShiftNumbers DEF FlashTypeOK
<1>2. m_count + n \in Nat
  BY DEF FlashTypeOK
<1>3. QED
  BY <1>1, <1>2, ProcessTypes DEF Shift

LEMMA DeselectTypes ==
    ASSUME FlashTypeOK, Deselect
    PROVE  FlashTypeOK'
<1>1. \A a \in Address : Programmed(a) \in Byte /\ Erased(a) \in Byte
  <2>1. TAKE a \in Address
  <2>2. Programmed(a) \in Byte
    <3>1. \A i, j : ByteOf(Bits(i) \cap Bits(j)) \in Byte
      <4>1. \A i, j : Bits(i) \cap Bits(j) \in SUBSET (0 .. 7)
        BY DEF Bits
      <4>2. QED
        BY <4>1, ByteExists
    <3>2. QED
      BY <3>1 DEF Programmed, FlashTypeOK
  <2>3. Erased(a) \in Byte
    BY DEF Erased, FlashTypeOK, Byte
  <2>4. QED
    BY <2>2, <2>3
<1>2. m_mem' \in [Address -> Byte]
  <2>1. CASE m_state \in {"PP", "QPP"}
    BY <1>1, <2>1 DEF Deselect
  <2>2. CASE m_state = "SECTOR_ERASE"
    BY <1>1, <2>2 DEF Deselect
  <2>3. CASE m_state = "BULK_ERASE"
    BY <2>3 DEF Deselect, Byte
  <2>4. CASE m_state \notin {"PP", "QPP", "SECTOR_ERASE", "BULK_ERASE"}
    BY <2>4 DEF Deselect, FlashTypeOK
  <2>5. QED
    BY <2>1, <2>2, <2>3, <2>4
<1>3. m_addr' \in Nat
  <2>1. m_addr \div SectorBytes \in Nat
    BY GeometryAssumption DEF FlashTypeOK
  <2>2. (m_addr \div SectorBytes) * SectorBytes \in Nat
    BY <2>1, GeometryAssumption
  <2>3. QED
    BY <2>2 DEF Deselect, AlignDown, FlashTypeOK
<1>4. m_sreg' \subseteq 0 .. 9
  BY DEF Deselect, FlashTypeOK, WIP
<1>5. m_state' \in QSPIF_STATE /\ m_mode' \in FLASH_MODE
  BY DEF Deselect, FlashTypeOK, ModeAfter, QSPIF_STATE, FLASH_MODE
<1>6. m_write_count' \in BOOLEAN
  BY DEF Deselect, FlashTypeOK
<1>7. QED
  BY <1>2, <1>3, <1>4, <1>5, <1>6 DEF Deselect, FlashTypeOK

LEMMA WriteEndsTypes ==
    ASSUME FlashTypeOK, WriteEnds
    PROVE  FlashTypeOK'
BY DEF FlashTypeOK, WriteEnds, shifter

LEMMA InitTypes ==
    ASSUME FlashInit
    PROVE  FlashTypeOK
<1>1. m_mem \in [Address -> Byte] /\ m_pmem \in [Offset -> Byte]
  BY ContentsAssumption DEF FlashInit, Byte
<1>2. m_state \in QSPIF_STATE /\ m_mode \in FLASH_MODE /\ m_mode_byte \in Byte
  BY DEF FlashInit, QSPIF_STATE, FLASH_MODE, Byte
<1>3. m_ireg \in 0 .. 2^24 - 1 /\ m_oreg \in 0 .. 2^12 - 1
  BY DEF FlashInit
<1>4. m_sreg \subseteq 0 .. 9 /\ m_creg \subseteq 0 .. 7
  BY DEF FlashInit
<1>5. QED
  BY <1>1, <1>2, <1>3, <1>4 DEF FlashInit, FlashTypeOK

-----------------------------------------------------------------------------
(* The host and the flash, byte by byte.                                   *)

WriteCommands == {WriteStatus, PageProgram, QuadProgram, SectorErase, BulkErase}
Addressed == host.op \in Programs \cup Reads \cup {SectorErase}

HostTypeOK ==
    /\ host \in [op : Ops \cup {-1}, addr : Address, n : Nat]
    /\ host.op = -1 => host = NoTransfer
    /\ host.op = SectorErase => host.addr < EraseLimit

\* Where a command leaves the flash that is not asleep.
Resting == {"IDLE", "RDSR", "RDCR", "RDID", "SLOW_READ", "FAST_READ", "INVALID"} \cup QuadReads \cup DualReads

LaneIdle == \/ m_state = "QUAD_READ_IDLE" /\ m_mode = "QSPI"
            \/ m_state = "DUAL_READ_IDLE" /\ m_mode = "DSPI"

OneLaneRest == m_mode = "SPI" /\ m_state \in Resting /\ (m_state \in QuadReads \cup DualReads => ~StaysContinuous)

StateOf(c) ==
    CASE c \in WriteCommands -> {WriteState(c), "INVALID"}
      [] c = Read -> {"SLOW_READ"} [] c = FastRead -> {"FAST_READ"}
      [] c = DualIO -> {"DUAL_READ_CMD"} [] c = QuadIO -> {"QUAD_READ_CMD"}
      [] c = ReadStatus -> {"RDSR"} [] c = ReadConfig -> {"RDCR"} [] c = ReadID -> {"RDID"}
      [] c = ClearStatus -> {"CLSR"} [] c = Release -> {"RELEASE"}
      [] c \in {WriteEnable, WriteDisable, PowerDown, 255} -> {"IDLE"}
      [] c = 90 -> {"INVALID"}

ModeOf == CASE host.op = DualIO -> "DSPI" [] host.op = QuadIO -> "QSPI"
            [] m_state = "QPP" /\ host.n >= Header -> "QSPI" [] OTHER -> "SPI"

CommandTaken ==
    IF host.op = Continuous
    THEN /\ DPD \notin m_sreg
         /\ IF host.n < Header THEN LaneIdle
            ELSE \/ m_state = "QUAD_READ" /\ m_mode = "QSPI"
                 \/ m_state = "DUAL_READ" /\ m_mode = "DSPI"
    ELSE IF host.n = 0 THEN OneLaneRest \/ (host.op = -1 /\ LaneIdle)
    ELSE IF host.op = 102 THEN OneLaneRest
    ELSE DPD \in m_sreg \/ (m_state \in StateOf(host.op) /\ m_mode = ModeOf)

Flags ==
    /\ DPD \in m_sreg => m_state = "IDLE" /\ m_mode = "SPI" /\ ~m_write_count
    /\ WIP \in m_sreg => m_write_count /\ WEL \notin m_sreg
    /\ m_write_count => host.op \in Registers \cup {Release, -1}
    /\ m_state \in Writing \ {"WRSR"} => WEL \in m_sreg

AddressFollows ==
    /\ Addressed /\ host.n = Header - 2 => m_ireg % 256 = host.addr \div 65536
    /\ Addressed /\ host.n = Header - 1 => m_ireg % 65536 = host.addr \div 256
    /\ Addressed /\ host.n = Header => m_ireg = host.addr
    /\ host.n >= Header /\ m_state \in {"PP", "QPP", "SECTOR_ERASE"} => m_addr \in Address
    /\ host.op \in Reads /\ host.n >= Header /\ DPD \notin m_sreg =>
          m_addr = host.addr + (IF host.n < Header + Gap THEN 0 ELSE host.n - (Header + Gap) + 1)

HostInv ==
    /\ FlashTypeOK /\ HostTypeOK /\ ~aborted /\ m_count = 8 * host.n
    /\ Flags /\ CommandTaken /\ AddressFollows /\ HostReadsMemory

LEMMA Headers ==
    /\ Header \in {1, 3, 4} /\ (Header = 3 <=> host.op = Continuous)
    /\ Header = 1 <=> ~Addressed
    /\ DualIO \notin Programs /\ QuadIO \notin Programs /\ Continuous \notin Programs
    /\ WriteStatus \notin Programs /\ WriteStatus \notin {DualIO, QuadIO, Continuous}
BY DEF Addressed, Header, Continuous, Programs, Reads, PageProgram, QuadProgram, Read, FastRead,
       DualIO, QuadIO, SectorErase, WriteStatus

LEMMA ByteIsByte ==
    ASSUME HostInv, host # NoTransfer, host.n < MaxBytes, NEW byte \in NextBytes
    PROVE  byte \in Byte
<1>1. host \in [op : Ops \cup {-1}, addr : Address, n : Nat] /\ host.op # -1
  BY DEF HostInv, HostTypeOK
<1>2. CASE host.n = 0 /\ host.op # Continuous
  <2>1. byte = host.op
    BY <1>2, Headers DEF NextBytes
  <2>2. host.op \in Ops
    BY <1>1
  <2>3. host.op \in 0 .. 255
    BY <1>2, <2>2 DEF Ops, Registers, Plain, Programs, Reads, Continuous, ReadStatus, ReadConfig, ReadID,
           WriteEnable, WriteDisable, PowerDown, Release, BulkErase, ClearStatus, PageProgram,
           QuadProgram, Read, FastRead, DualIO, QuadIO, SectorErase, WriteStatus
  <2>4. QED
    BY <2>1, <2>3 DEF Byte
<1>3. CASE Header > 1 /\ host.n \in Header - 3 .. Header - 1 /\ ~(host.n = 0 /\ host.op # Continuous)
  <2>1. PICK v \in {0, 1, 2} : v = Header - 1 - host.n
    BY <1>1, <1>3 DEF Header
  <2>2. byte = (host.addr \div 256^v) % 256
    <3>1. byte = AddressByte
      BY <1>1, <1>3, Headers DEF NextBytes
    <3>2. QED
      BY <2>1, <3>1 DEF AddressByte
  <2>3. byte = (host.addr \div Pow(256, v)) % 256 /\ Pow(256, v) \in Nat \ {0}
    BY <2>2, PowIs, PowValues
  <2>4. host.addr \in Nat
    BY <1>1 DEF Address
  <2>5. QED
    BY <2>3, <2>4 DEF Byte
<1>4. CASE /\ ~(host.n = 0 /\ host.op # Continuous)
           /\ ~(Header > 1 /\ host.n \in Header - 3 .. Header - 1)
  <2>1. \/ byte \in {160, 0}
        \/ host.n >= Header /\ host.op \in Programs /\ byte \in HostData[host.n - Header + 1]
        \/ byte \in StatusData
    BY <1>4 DEF NextBytes
  <2>2. CASE host.n >= Header /\ host.op \in Programs /\ byte \in HostData[host.n - Header + 1]
    <3>1. Header = 4 /\ MaxBytes = 4 + MaxData
      <4>1. Header = 4
        BY <2>2, Headers DEF Addressed
      <4>2. MaxBytes = Header + MaxData
        BY <2>2 DEF MaxBytes, Registers, ReadStatus, ReadConfig, ReadID, WriteStatus, Programs, PageProgram,
               QuadProgram, Reads, Read, FastRead, DualIO, QuadIO, Continuous
      <4>3. QED
        BY <4>1, <4>2
    <3>2. host.n - Header + 1 \in 1 .. MaxData
      <4>1. host.n \in Nat /\ host.n >= 4 /\ host.n < 4 + MaxData /\ MaxData \in Nat
        BY <1>1, <2>2, <3>1, HostAssumption
      <4>2. QED
        BY <3>1, <4>1
    <3>3. HostData[host.n - Header + 1] \in SUBSET (0 .. 255)
      BY <3>2, HostAssumption
    <3>4. QED
      BY <2>2, <3>3 DEF Byte
  <2>3. CASE byte \in {160, 0} \cup StatusData
    BY <2>3, HostAssumption DEF Byte
  <2>4. QED
    BY <2>1, <2>2, <2>3
<1>5. QED
  BY <1>2, <1>3, <1>4

\* What a byte of the host is for the shift registers.
ByteIn(byte) == (m_ireg % 65536) * 256 + byte

LEMMA ByteShift ==
    ASSUME HostInv, NEW byte \in Byte, FlashByte(byte)
    PROVE  /\ Process(ByteIn(byte), 8 * (host.n + 1), (m_oreg * 256) % 4096)
           /\ ByteIn(byte) \in 0 .. 2^24 - 1 /\ (m_oreg * 256) % 4096 \in 0 .. 2^12 - 1
           /\ ByteIn(byte) % 256 = byte
           /\ FlashTypeOK'
<1>1. Shift(8, byte) /\ m_last_sck' = 0
  BY DEF FlashByte
<1>2. host.n \in Nat /\ m_count = 8 * host.n
  BY DEF HostInv, HostTypeOK
<1>3. m_count + 8 = 8 * (host.n + 1)
  BY <1>2
<1>4. (m_ireg % 2^(24 - 8)) * 2^8 + byte = ByteIn(byte) /\ (m_oreg * 2^8) % 2^12 = (m_oreg * 256) % 4096
  BY DEF ByteIn
<1>5. Process(ByteIn(byte), 8 * (host.n + 1), (m_oreg * 256) % 4096)
  BY <1>1, <1>3, <1>4 DEF Shift
<1>6. m_ireg \in 0 .. 2^24 - 1 /\ m_oreg \in 0 .. 2^12 - 1 /\ byte \in 0 .. 255
  BY DEF HostInv, FlashTypeOK, Byte
<1>7. ByteIn(byte) \in 0 .. 2^24 - 1 /\ (m_oreg * 256) % 4096 \in 0 .. 2^12 - 1 /\ ByteIn(byte) % 256 = byte
  BY <1>6 DEF ByteIn
<1>8. FlashTypeOK'
  <2>1. FlashTypeOK /\ 8 * (host.n + 1) \in Nat /\ m_last_sck' \in {0, 1}
    BY <1>1, <1>2 DEF HostInv
  <2>2. PICK ireg \in 0 .. 2^24 - 1, count \in Nat, oreg \in 0 .. 2^12 - 1 : Process(ireg, count, oreg)
    <3> DEFINE I == ByteIn(byte)  C == 8 * (host.n + 1)  O == (m_oreg * 256) % 4096
    <3>1. I \in 0 .. 2^24 - 1 /\ C \in Nat /\ O \in 0 .. 2^12 - 1 /\ Process(I, C, O)
      BY <1>5, <1>7, <2>1
    <3> HIDE DEF I, C, O
    <3>2. QED
      BY <3>1
  <2>3. QED
    BY <2>1, <2>2, ProcessTypes
<1>9. QED
  BY <1>5, <1>7, <1>8

\* A byte that enters, and what it leaves of the 16 bits below it.
Enters(x, b) == (x % 65536) * 256 + b

LEMMA ShiftLow ==
    ASSUME NEW x \in Bits24, NEW b \in 0 .. 255
    PROVE  Enters(x, b) % 65536 = (x % 256) * 256 + b
<1>1. PICK high \in Nat : high = x \div 65536
  BY DEF Bits24
<1>2. PICK mid \in 0 .. 255 : mid = (x \div 256) % 256
  BY DEF Bits24
<1>3. PICK low \in 0 .. 255 : low = x % 256
  BY DEF Bits24
<1>4. x = high * 65536 + mid * 256 + low
  BY <1>1, <1>2, <1>3 DEF Bits24
<1>5. x % 65536 = mid * 256 + low
  BY <1>4
<1>6. ((mid * 256 + low) * 256 + b) % 65536 = low * 256 + b
  BY <1>4
<1>7. QED
  BY <1>3, <1>5, <1>6 DEF Enters

\* The address arrives high byte first.
LEMMA AddressArrives ==
    ASSUME HostInv, NEW byte \in NextBytes, byte \in Byte, host # NoTransfer,
           host' = [host EXCEPT !.n = @ + 1], m_ireg' = ByteIn(byte)
    PROVE  /\ host'.op = host.op /\ host'.addr = host.addr /\ host'.n = host.n + 1 /\ host'.n \in Nat
           /\ Header' = Header /\ Addressed' = Addressed
           /\ Addressed /\ host'.n = Header - 2 => m_ireg' % 256 = host.addr \div 65536
           /\ Addressed /\ host'.n = Header - 1 => m_ireg' % 65536 = host.addr \div 256
           /\ Addressed /\ host'.n = Header => m_ireg' = host.addr
<1>1. host \in [op : Ops \cup {-1}, addr : Address, n : Nat] /\ host.op # -1
  BY DEF HostInv, HostTypeOK
<1>2. host'.op = host.op /\ host'.addr = host.addr /\ host'.n = host.n + 1 /\ host'.n \in Nat
  BY <1>1
<1>3. Header' = Header /\ Addressed' = Addressed
  BY <1>2 DEF Header, Addressed
<1>4. PICK addr \in 0 .. 2^24 - 1 : addr = host.addr
  <2>1. PICK m \in Nat : m = MemBytes
    BY GeometryAssumption
  <2>2. m <= 2^24
    BY <2>1, GeometryAssumption
  <2>3. host.addr \in 0 .. m - 1
    BY <1>1, <2>1 DEF Address
  <2>4. PICK x \in Nat : x = host.addr
    BY <2>3
  <2>5. x \in 0 .. 2^24 - 1
    BY <2>2, <2>3, <2>4
  <2>6. QED
    BY <2>4, <2>5
<1>5. PICK ireg \in 0 .. 2^24 - 1 : ireg = m_ireg
  BY DEF HostInv, FlashTypeOK
<1>6. Addressed => Header \in {3, 4} /\ (Header = 3 <=> host.op = Continuous)
  BY Headers
<1>7. m_ireg' = (ireg % 65536) * 256 + byte /\ byte \in 0 .. 255
  BY <1>5 DEF ByteIn, Byte
<1>8. ASSUME Addressed, NEW v \in {0, 1, 2}, host.n = Header - 1 - v
      PROVE  byte = (addr \div Pow(256, v)) % 256
  <2>1. /\ ~(host.n = 0 /\ host.op # Continuous)
        /\ Header > 1 /\ host.n \in Header - 3 .. Header - 1 /\ Header - 1 - host.n = v
    BY <1>1, <1>6, <1>8
  <2>2. byte = (host.addr \div 256^v) % 256
    <3>1. byte = AddressByte
      BY <1>1, <2>1, Headers DEF NextBytes
    <3>2. QED
      BY <2>1, <3>1 DEF AddressByte
  <2>3. QED
    BY <1>4, <2>2, PowIs
<1>9. ASSUME Addressed, host'.n = Header - 2 PROVE m_ireg' % 256 = host.addr \div 65536
  <2>1. byte = (addr \div Pow(256, 2)) % 256
    <3>1. host.n = Header - 1 - 2
      BY <1>1, <1>2, <1>6, <1>9
    <3>2. QED
      BY <1>8, <1>9, <3>1
  <2>2. byte = addr \div 65536
    BY <2>1, PowValues
  <2>3. QED
    BY <1>4, <1>7, <2>2
<1>10. ASSUME Addressed, host'.n = Header - 1 PROVE m_ireg' % 65536 = host.addr \div 256
  <2>1. byte = (addr \div Pow(256, 1)) % 256 /\ host.n = Header - 2
    <3>1. host.n = Header - 1 - 1
      BY <1>1, <1>2, <1>6, <1>10
    <3>2. QED
      BY <1>1, <1>6, <1>8, <1>10, <3>1
  <2>2. ireg % 256 = addr \div 65536
    BY <1>4, <1>5, <1>10, <2>1 DEF HostInv, AddressFollows
  <2>3. byte = (addr \div 256) % 256
    BY <2>1, PowValues
  <2>4. m_ireg' % 65536 = addr \div 256
    <3>1. m_ireg' % 65536 = (ireg % 256) * 256 + byte
      <4>1. byte \in 0 .. 255
        BY <1>7
      <4>2. Enters(ireg, byte) % 65536 = (ireg % 256) * 256 + byte
        <5>1. ireg \in Bits24
          BY <1>5 DEF Bits24
        <5>2. QED
          BY <4>1, <5>1, ShiftLow
      <4>3. m_ireg' = Enters(ireg, byte)
        BY <1>7 DEF Enters
      <4>4. QED
        BY <4>2, <4>3
    <3>2. (addr \div 65536) * 256 + ((addr \div 256) % 256) = addr \div 256
      OBVIOUS
    <3>3. QED
      BY <2>2, <2>3, <3>1, <3>2
  <2>5. QED
    BY <1>4, <2>4
<1>11. ASSUME Addressed, host'.n = Header PROVE m_ireg' = host.addr
  <2>1. byte = (addr \div Pow(256, 0)) % 256 /\ host.n = Header - 1
    <3>1. host.n = Header - 1 - 0
      BY <1>1, <1>2, <1>6, <1>11
    <3>2. QED
      BY <1>1, <1>6, <1>8, <1>11, <3>1
  <2>2. ireg % 65536 = addr \div 256
    BY <1>4, <1>5, <1>11, <2>1 DEF HostInv, AddressFollows
  <2>3. byte = addr % 256
    BY <2>1, PowValues
  <2>4. m_ireg' = addr
    BY <1>7, <2>2, <2>3
  <2>5. QED
    BY <1>4, <2>4
<1>12. QED
  BY <1>2, <1>3, <1>9, <1>10, <1>11

\* A byte of the host, as HostByte has it.
ByteStep(byte) ==
    /\ HostInv /\ host # NoTransfer /\ host.n < MaxBytes /\ byte \in NextBytes
    /\ FlashByte(byte) /\ host' = [host EXCEPT !.n = @ + 1]

\* What is left to show of such a step, beyond types and the shift register.
ByteDone == ~aborted' /\ Flags' /\ CommandTaken'
            /\ (host'.n >= Header' /\ m_state' \in {"PP", "QPP", "SECTOR_ERASE"} => m_addr' \in Address)
            /\ (host'.op \in Reads /\ host'.n >= Header' /\ DPD \notin m_sreg' =>
                  m_addr' = host'.addr
                     + (IF host'.n < Header' + Gap' THEN 0 ELSE host'.n - (Header' + Gap') + 1))
            /\ HostReadsMemory'

LEMMA ByteBasics ==
    ASSUME NEW byte, ByteStep(byte)
    PROVE  /\ byte \in Byte /\ host.op # -1 /\ host.op \in Ops /\ host.addr \in Address /\ host.n \in Nat
           /\ host'.op = host.op /\ host'.addr = host.addr /\ host'.n = host.n + 1
           /\ Header' = Header /\ Header \in {1, 3, 4}
           /\ Process(ByteIn(byte), 8 * (host.n + 1), (m_oreg * 256) % 4096)
           /\ m_ireg' = ByteIn(byte) /\ m_count' = 8 * host'.n /\ ByteIn(byte) % 256 = byte
           /\ (m_oreg * 256) % 4096 \in 0 .. 2^12 - 1
           /\ Addressed /\ host'.n = Header => ByteIn(byte) = host.addr
<1>1. host \in [op : Ops \cup {-1}, addr : Address, n : Nat] /\ host.op # -1
  BY DEF ByteStep, HostInv, HostTypeOK
<1>2. byte \in Byte
  BY ByteIsByte DEF ByteStep
<1>3. /\ Process(ByteIn(byte), 8 * (host.n + 1), (m_oreg * 256) % 4096)
      /\ (m_oreg * 256) % 4096 \in 0 .. 2^12 - 1 /\ ByteIn(byte) % 256 = byte
  BY <1>2, ByteShift DEF ByteStep
<1>4. m_ireg' = ByteIn(byte) /\ m_count' = 8 * (host.n + 1)
  BY <1>3 DEF Process
<1>5. /\ host'.op = host.op /\ host'.addr = host.addr /\ host'.n = host.n + 1 /\ Header' = Header
      /\ Addressed /\ host'.n = Header => m_ireg' = host.addr
  BY <1>2, <1>4, AddressArrives DEF ByteStep
<1>6. QED
  BY <1>1, <1>2, <1>3, <1>4, <1>5, Headers

LEMMA ByteInvariant ==
    ASSUME NEW byte, ByteStep(byte), ByteDone
    PROVE  HostInv'
<1>1. FlashTypeOK'
  BY ByteBasics, ByteShift DEF ByteStep
<1>2. HostTypeOK'
  <2>1. host \in [op : Ops \cup {-1}, addr : Address, n : Nat] /\ host.op # -1
    BY ByteBasics DEF ByteStep, HostInv, HostTypeOK
  <2>2. host' \in [op : Ops \cup {-1}, addr : Address, n : Nat]
    BY <2>1 DEF ByteStep
  <2>3. host.op = SectorErase => host.addr < EraseLimit
    BY DEF ByteStep, HostInv, HostTypeOK
  <2>4. host'.op = host.op /\ host'.addr = host.addr
    BY ByteBasics
  <2>5. Address' = Address /\ Ops' = Ops
    BY DEF Address, Ops
  <2>6. QED
    BY <2>1, <2>2, <2>3, <2>4 DEF HostTypeOK
<1>3. m_count' = 8 * host'.n
  BY ByteBasics
<1>4. /\ Addressed' /\ host'.n = Header' - 2 => m_ireg' % 256 = host'.addr \div 65536
      /\ Addressed' /\ host'.n = Header' - 1 => m_ireg' % 65536 = host'.addr \div 256
      /\ Addressed' /\ host'.n = Header' => m_ireg' = host'.addr
  <2>1. m_ireg' = ByteIn(byte) /\ byte \in Byte
    BY ByteBasics
  <2>2. /\ host'.addr = host.addr /\ Header' = Header /\ Addressed' = Addressed
        /\ Addressed /\ host'.n = Header - 2 => m_ireg' % 256 = host.addr \div 65536
        /\ Addressed /\ host'.n = Header - 1 => m_ireg' % 65536 = host.addr \div 256
        /\ Addressed /\ host'.n = Header => m_ireg' = host.addr
    BY <2>1, AddressArrives DEF ByteStep
  <2>3. QED
    BY <2>2
<1>5. AddressFollows'
  BY <1>4 DEF AddressFollows, ByteDone
<1>6. QED
  BY <1>1, <1>2, <1>3, <1>5 DEF HostInv, ByteDone

\* The command.
LEMMA HostCommand ==
    ASSUME NEW byte, ByteStep(byte), host.n = 0, host.op # Continuous
    PROVE  ByteDone
<1> DEFINE op == host.op  oreg == (m_oreg * 256) % 4096
<1>1. /\ op \in Ops /\ op \notin {-1, Continuous} /\ host'.op = op /\ host'.n = 1
      /\ Header' = Header /\ Header \in {1, 4}
  BY ByteBasics, Headers
<1>2. byte = op
  BY <1>1, Headers DEF ByteStep, NextBytes
<1>3. OneLaneRest
  BY <1>1 DEF ByteStep, HostInv, CommandTaken
<1>4. Command(op, oreg)
  <2>1. Process(ByteIn(byte), 8 * (host.n + 1), oreg) /\ ByteIn(byte) % 256 = byte
    BY ByteBasics
  <2>2. m_state \notin {"QUAD_READ_IDLE", "DUAL_READ_IDLE"} /\ 8 * (host.n + 1) = 8
    BY <1>3 DEF OneLaneRest, Resting, QuadReads, DualReads
  <2>3. QED
    BY <1>2, <2>1, <2>2 DEF Process
<1>5. ~aborted /\ Flags
  BY DEF ByteStep, HostInv
<1> HIDE DEF op, oreg
<1>6. CASE DPD \in m_sreg /\ op # Release
  <2>1. UNCHANGED <<m_state, m_mode, m_sreg, m_write_count, m_mode_byte, aborted>>
    BY <1>4, <1>6 DEF Command
  <2>2. m_state = "IDLE" /\ m_mode = "SPI" /\ ~m_write_count
    BY <1>5, <1>6 DEF Flags
  <2>3. Flags'
    BY <1>5, <1>6, <2>1, <2>2 DEF Flags, WIP, WEL, DPD, Writing
  <2>4. CommandTaken'
    BY <1>1, <1>3, <1>6, <2>1 DEF CommandTaken, OneLaneRest, op, StaysContinuous
  <2>5. QED
    BY <1>5, <1>6, <2>1, <2>2, <2>3, <2>4 DEF ByteDone, HostReadsMemory
<1>7. CASE ~(DPD \in m_sreg /\ op # Release)
  <2>1. /\ m_state' = CommandState(op)
        /\ m_mode' = CASE op = DualIO -> "DSPI" [] op = QuadIO -> "QSPI" [] op \in {0, 255} -> "SPI" [] OTHER -> m_mode
        /\ m_write_count' = (m_write_count \/ (op = Release /\ DPD \in m_sreg))
        /\ m_mode_byte' = m_mode_byte /\ ~aborted'
    BY <1>4, <1>5, <1>7 DEF Command
  <2>2. m_sreg' = CASE op = WriteEnable  -> m_sreg \cup {WEL} [] op = WriteDisable -> m_sreg \ {WEL}
                    [] op = Release -> m_sreg \ {DPD}
                    [] op = PowerDown -> IF WIP \in m_sreg THEN m_sreg ELSE m_sreg \cup {DPD}
                    [] OTHER -> m_sreg
    BY <1>4, <1>7 DEF Command
  <2>3. m_mode = "SPI" /\ m_state \in Resting /\ (m_state \in QuadReads \cup DualReads => ~StaysContinuous)
    BY <1>3 DEF OneLaneRest
  <2>4. op \in {WriteEnable, WriteDisable, PowerDown, Release, BulkErase, ClearStatus, 255, 102, 90, ReadStatus,
                ReadConfig, ReadID, PageProgram, QuadProgram, Read, FastRead, DualIO, QuadIO, SectorErase, WriteStatus}
    BY <1>1 DEF Ops, Registers, Plain, Programs, Reads
  <2>5. /\ op \in WriteCommands => m_state' \in {WriteState(op), "INVALID"} /\ (m_state' # "INVALID" => WriteAllowed)
        /\ op = 102 => m_state' = m_state
        /\ op \notin WriteCommands \cup {102} => m_state' \in StateOf(op)
    <3>1. CASE op \in WriteCommands
      BY <2>1, <3>1 DEF CommandState, WriteCommands, WriteStatus, PageProgram, QuadProgram, SectorErase, BulkErase, Read,
           FastRead, DualIO, QuadIO, ReadStatus, ReadConfig, ReadID, ClearStatus, Release, PowerDown,
           WriteEnable, WriteDisable
    <3>2. CASE op = PowerDown
      <4>1. WIP \notin m_sreg
        BY <1>5, <3>2 DEF Flags, op, Registers, PowerDown, ReadStatus, ReadConfig, ReadID, Release
      <4>2. CommandState(op) = "IDLE"
        BY <3>2, <4>1 DEF CommandState, WriteStatus, PageProgram, QuadProgram, SectorErase, BulkErase, Read,
           FastRead, DualIO, QuadIO, ReadStatus, ReadConfig, ReadID, ClearStatus, Release, PowerDown,
           WriteEnable, WriteDisable
      <4>3. "IDLE" \in StateOf(op)
        BY <3>2 DEF StateOf, WriteCommands, WriteStatus, PageProgram, QuadProgram, SectorErase, BulkErase, Read,
           FastRead, DualIO, QuadIO, ReadStatus, ReadConfig, ReadID, ClearStatus, Release, PowerDown,
           WriteEnable, WriteDisable
      <4>4. QED
        BY <2>1, <3>2, <4>2, <4>3 DEF WriteCommands, WriteStatus, PageProgram, QuadProgram, SectorErase, BulkErase,
           PowerDown
    <3>3. CASE op \notin WriteCommands \cup {PowerDown}
      <4>1. op = 102 => CommandState(op) = m_state
        BY DEF CommandState, WriteStatus, PageProgram, QuadProgram, SectorErase, BulkErase, Read,
           FastRead, DualIO, QuadIO, ReadStatus, ReadConfig, ReadID, ClearStatus, Release, PowerDown,
           WriteEnable, WriteDisable
      <4>2. op # 102 => CommandState(op) \in StateOf(op)
        BY <2>4, <3>3 DEF CommandState, StateOf, WriteCommands, WriteStatus, PageProgram, QuadProgram, SectorErase, BulkErase, Read,
           FastRead, DualIO, QuadIO, ReadStatus, ReadConfig, ReadID, ClearStatus, Release, PowerDown,
           WriteEnable, WriteDisable
      <4>3. QED
        BY <2>1, <3>3, <4>1, <4>2
    <3>4. QED
      BY <3>1, <3>2, <3>3
  <2>6. m_mode' = CASE op = DualIO -> "DSPI" [] op = QuadIO -> "QSPI" [] OTHER -> "SPI"
    BY <2>1, <2>3 DEF DualIO, QuadIO
  <2>7. /\ op # 102 => m_state' \in StateOf(op)
        /\ m_state' \in Writing => op \in WriteCommands /\ WriteAllowed /\ m_state' = WriteState(op)
        /\ m_state' \notin {"QUAD_READ_IDLE", "DUAL_READ_IDLE"}
    <3>1. op \in WriteCommands => StateOf(op) = {WriteState(op), "INVALID"} /\ WriteState(op) \in Writing
      BY DEF StateOf, WriteState, Writing, WriteCommands, WriteStatus, PageProgram, QuadProgram, SectorErase, BulkErase, Read,
           FastRead, DualIO, QuadIO, ReadStatus, ReadConfig, ReadID, ClearStatus, Release, PowerDown,
           WriteEnable, WriteDisable
    <3>2. op \notin WriteCommands \cup {102} => StateOf(op) \subseteq Resting \cup {"CLSR", "RELEASE"}
      BY <2>4 DEF StateOf, Resting, QuadReads, DualReads, WriteCommands, WriteStatus, PageProgram, QuadProgram, SectorErase,
           BulkErase, Read,
           FastRead, DualIO, QuadIO, ReadStatus, ReadConfig, ReadID, ClearStatus, Release, PowerDown,
           WriteEnable, WriteDisable
    <3>3. (Resting \cup {"CLSR", "RELEASE"}) \cap (Writing \cup {"QUAD_READ_IDLE", "DUAL_READ_IDLE"}) = {}
      BY DEF Resting, Writing, QuadReads, DualReads
    <3>4. 102 \notin WriteCommands
      BY DEF WriteCommands, WriteStatus, PageProgram, QuadProgram, SectorErase, BulkErase
    <3>5. "INVALID" \in Resting /\ "QUAD_READ_IDLE" \notin Writing /\ "DUAL_READ_IDLE" \notin Writing
      BY DEF Resting, Writing
    <3>6. CASE op \in WriteCommands
      BY <2>5, <3>1, <3>3, <3>4, <3>5, <3>6
    <3>7. CASE op = 102
      BY <2>3, <2>5, <3>3, <3>4, <3>7
    <3>8. CASE op \notin WriteCommands \cup {102}
      BY <2>5, <3>2, <3>3, <3>8
    <3>9. QED
      BY <3>6, <3>7, <3>8
  <2>8. Flags'
    <3>1. m_write_count => op \in Registers \cup {Release}
      BY <1>1, <1>5 DEF Flags, op
    <3>2. /\ DPD \in m_sreg' => op = PowerDown
          /\ WIP \in m_sreg' => WIP \in m_sreg
          /\ WEL \in m_sreg' => WEL \in m_sreg \/ op = WriteEnable
          /\ op \in WriteCommands => m_sreg' = m_sreg
      BY <1>7, <2>2 DEF WIP, WEL, DPD, WriteEnable, WriteDisable, Release, PowerDown,
           WriteCommands, WriteStatus, PageProgram, QuadProgram, SectorErase, BulkErase
    <3>3. op \in {PowerDown, WriteEnable} => ~m_write_count
      BY <3>1 DEF Registers, ReadStatus, ReadConfig, ReadID, Release, PowerDown, WriteEnable
    <3>4. DPD \in m_sreg' => m_state' = "IDLE" /\ m_mode' = "SPI" /\ ~m_write_count'
      <4>1. op = PowerDown => m_mode' = "SPI"
        BY <2>6 DEF PowerDown, DualIO, QuadIO
      <4>2. op = PowerDown => StateOf(op) = {"IDLE"} /\ op # 102
        BY DEF StateOf, WriteCommands, WriteStatus, PageProgram, QuadProgram, SectorErase,
           BulkErase, Read, FastRead, DualIO, QuadIO, ReadStatus, ReadConfig, ReadID, ClearStatus, Release, PowerDown
      <4>3. op = PowerDown => ~m_write_count'
        <5>1. PowerDown # Release
          BY DEF PowerDown, Release
        <5>2. QED
          BY <2>1, <3>3, <5>1, Zenon
      <4>4. QED
        BY <2>7, <3>2, <4>1, <4>2, <4>3
    <3>5. WIP \in m_sreg' => m_write_count' /\ WEL \notin m_sreg'
      BY <1>5, <2>1, <3>2, <3>3 DEF Flags
    <3>6. m_write_count' => op \in Registers \cup {Release, -1}
      BY <2>1, <3>1
    <3>7. m_state' \in Writing \ {"WRSR"} => WEL \in m_sreg'
      BY <2>7, <3>2 DEF WriteAllowed
    <3>8. host'.op = op /\ Registers' = Registers
      BY <1>1 DEF Registers
    <3>9. QED
      BY <3>4, <3>5, <3>6, <3>7, <3>8 DEF Flags, Writing
  <2>9. CommandTaken'
    <3>1. host'.op = op /\ op # Continuous /\ host'.n # 0
      BY <1>1
    <3>2. ASSUME op = 102 PROVE OneLaneRest'
      <4>1. m_state' = m_state /\ m_mode' = m_mode
        BY <2>3, <2>5, <2>6, <3>2 DEF DualIO, QuadIO
      <4>2. QED
        BY <2>1, <2>3, <4>1 DEF OneLaneRest, StaysContinuous, Resting, QuadReads, DualReads
    <3>3. ASSUME op # 102 PROVE m_state' \in StateOf(op) /\ m_mode' = ModeOf'
      <4>1. m_state' = "QPP" => host'.n < Header'
        <5>1. m_state' = "QPP" => op \in Programs
          BY <2>7 DEF WriteState, WriteCommands, Writing, Programs, WriteStatus, PageProgram, QuadProgram,
             SectorErase, BulkErase
        <5>2. QED
          BY <1>1, <5>1 DEF Header, op
      <4>2. ModeOf' = CASE op = DualIO -> "DSPI" [] op = QuadIO -> "QSPI" [] OTHER -> "SPI"
        BY <1>1, <3>1, <4>1 DEF ModeOf, DualIO, QuadIO
      <4>3. QED
        BY <2>6, <2>7, <3>3, <4>2
    <3>4. QED
      BY <3>1, <3>2, <3>3 DEF CommandTaken
  <2>10. m_state' \in {"PP", "QPP", "SECTOR_ERASE"} => Header = 4
    <3>1. m_state' \in {"PP", "QPP", "SECTOR_ERASE"} => op \in Programs \cup {SectorErase}
      BY <2>7 DEF WriteState, WriteCommands, Writing, Programs, WriteStatus, PageProgram, QuadProgram, SectorErase, BulkErase
    <3>2. QED
      BY <1>1, <3>1 DEF Header, op
  <2>11. ~(host'.op \in Reads' /\ host'.n >= Header') /\ ~(host'.op \in Reads' /\ host'.n >= Header' + Gap')
    <3>1. Reads' = Reads /\ (op \in Reads => Header' = 4)
      BY <1>1 DEF Reads, Header, op
    <3>2. Gap' \in {0, 1, 3}
      BY DEF Gap, FastRead, DualIO, QuadIO, Continuous
    <3>3. ~(1 >= 4) /\ \A gap \in {0, 1, 3} : ~(1 >= 4 + gap)
      OBVIOUS
    <3>4. QED
      BY <1>1, <3>1, <3>2, <3>3
  <2>12. QED
    BY <1>1, <2>1, <2>8, <2>9, <2>10, <2>11 DEF ByteDone, HostReadsMemory
<1>8. QED
  BY <1>6, <1>7

\* An address byte in continuous mode.
LEMMA HostContinuous ==
    ASSUME NEW byte, ByteStep(byte), host.op = Continuous, host.n < 3
    PROVE  ByteDone
<1> DEFINE ireg == ByteIn(byte)  count == 8 * (host.n + 1)
<1>1. /\ host'.op = Continuous /\ host'.addr = host.addr /\ host'.n = host.n + 1 /\ host.n \in {0, 1, 2}
      /\ Header = 3 /\ Header' = 3 /\ host.addr \in Address
  BY ByteBasics, Headers
<1>2. ~aborted /\ Flags /\ DPD \notin m_sreg /\ LaneIdle
  BY <1>1 DEF ByteStep, HostInv, CommandTaken
<1>3. ContinuousAddress(ireg, count)
  <2>1. Process(ireg, count, (m_oreg * 256) % 4096)
    BY ByteBasics
  <2>2. QED
    BY <1>2, <2>1 DEF Process, LaneIdle
<1>4. count = 24 <=> host'.n = 3
  BY <1>1
<1>5. host'.n = 3 => ireg % MemBytes = host.addr
  <2>1. Continuous \in Reads
    BY DEF Reads
  <2>2. host'.n = 3 => ireg = host.addr
    BY <1>1, <2>1, ByteBasics DEF Addressed
  <2>3. PICK m \in Nat \ {0} : m = MemBytes
    BY GeometryAssumption
  <2>4. PICK a \in 0 .. m - 1 : a = host.addr
    BY <1>1, <2>3 DEF Address
  <2>5. a % m = a
    BY <2>3, <2>4, SmallRemainder
  <2>6. QED
    BY <2>2, <2>3, <2>4, <2>5
<1> HIDE DEF ireg, count
<1>6. /\ ~aborted' /\ UNCHANGED <<m_mode, m_sreg, m_write_count>>
  BY <1>2, <1>3 DEF ContinuousAddress, LaneIdle, registers
<1>7. IF host'.n = 3
      THEN m_addr' = host.addr /\ m_state' = IF m_state = "QUAD_READ_IDLE" THEN "QUAD_READ" ELSE "DUAL_READ"
      ELSE m_addr' = m_addr /\ m_state' = m_state
  BY <1>3, <1>4, <1>5 DEF ContinuousAddress
<1>8. m_state' \notin Writing \cup {"PP", "QPP", "SECTOR_ERASE"}
  BY <1>2, <1>7 DEF LaneIdle, Writing
<1>9. Flags'
  BY <1>1, <1>2, <1>6, <1>8 DEF Flags, Registers, Writing
<1>10. CommandTaken'
  BY <1>1, <1>2, <1>6, <1>7 DEF CommandTaken, LaneIdle
<1>11. Gap' \in {1, 3}
  BY <1>1 DEF Gap, FastRead, DualIO, QuadIO, Continuous
<1>12. ~(host'.n >= 3 + Gap')
  <2>1. \A n \in {0, 1, 2}, gap \in {1, 3} : ~(n + 1 >= 3 + gap)
    OBVIOUS
  <2>2. QED
    BY <1>1, <1>11, <2>1
<1>13. host'.n >= 3 => host'.n = 3 /\ host'.n < 3 + Gap'
  <2>1. \A n \in {0, 1, 2}, gap \in {1, 3} : n + 1 >= 3 => n + 1 = 3 /\ n + 1 < 3 + gap
    OBVIOUS
  <2>2. QED
    BY <1>1, <1>11, <2>1
<1>14. QED
  <2>1. HostReadsMemory'
    BY <1>1, <1>12 DEF HostReadsMemory
  <2>2. host'.n >= Header' => m_addr' = host'.addr + 0
    <3>1. host.addr + 0 = host.addr
      BY <1>1 DEF Address
    <3>2. QED
      BY <1>1, <1>7, <1>13, <3>1
  <2>3. QED
    BY <1>1, <1>6, <1>8, <1>9, <1>10, <1>13, <2>1, <2>2 DEF ByteDone

\* Every further byte goes to the state that the command has left, and one lane or four
\* make no difference to a host of bytes.
LEMMA HostData1 ==
    ASSUME NEW byte, ByteStep(byte), host.n >= 1, host.op = Continuous => host.n >= 3
    PROVE  /\ DataByte(ByteIn(byte), 8 * (host.n + 1), (m_oreg * 256) % 4096)
           /\ host.op \notin Plain
           /\ host.op = Continuous =>
                 /\ DPD \notin m_sreg
                 /\ (m_state = "QUAD_READ" /\ m_mode = "QSPI") \/ (m_state = "DUAL_READ" /\ m_mode = "DSPI")
           /\ host.op # Continuous /\ DPD \notin m_sreg => m_state \in StateOf(host.op) /\ m_mode = ModeOf
           /\ DPD \in m_sreg => m_state = "IDLE" /\ m_mode = "SPI"
           /\ m_state \notin {"QUAD_READ_IDLE", "DUAL_READ_IDLE", "CLSR"}
<1>1. host.op \in Ops /\ host.op # -1 /\ host.n \in Nat /\ host.n < MaxBytes /\ Header \in {1, 3, 4}
  BY ByteBasics DEF ByteStep
<1>2. host.op \notin Plain
  <2>1. host.op \in Plain => MaxBytes = 1
    BY DEF MaxBytes, Header, Plain, Registers, Programs, Reads, ReadStatus, ReadConfig, ReadID, WriteEnable, WriteDisable,
           PowerDown, Release, BulkErase, ClearStatus, PageProgram, QuadProgram, Read, FastRead, DualIO, QuadIO,
           Continuous, SectorErase, WriteStatus
  <2>2. QED
    BY <1>1, <2>1
<1>3. host.op # 102
  BY <1>2 DEF Plain
<1>4. CommandTaken /\ Flags
  BY DEF ByteStep, HostInv
<1>5. host.op = Continuous =>
         /\ DPD \notin m_sreg
         /\ (m_state = "QUAD_READ" /\ m_mode = "QSPI") \/ (m_state = "DUAL_READ" /\ m_mode = "DSPI")
  <2>1. host.op = Continuous => ~(host.n < Header)
    BY <1>1, Headers
  <2>2. QED
    BY <1>4, <2>1 DEF CommandTaken
<1>6. host.op # Continuous /\ DPD \notin m_sreg => m_state \in StateOf(host.op) /\ m_mode = ModeOf
  BY <1>1, <1>3, <1>4 DEF CommandTaken
<1>7. DPD \in m_sreg => m_state = "IDLE" /\ m_mode = "SPI"
  BY <1>4 DEF Flags
<1>8. m_state \notin {"QUAD_READ_IDLE", "DUAL_READ_IDLE", "CLSR"}
  <2>1. host.op # Continuous => host.op \in Registers \cup Programs \cup {Read, FastRead, DualIO, QuadIO, SectorErase, WriteStatus}
    BY <1>1, <1>2 DEF Ops, Reads
  <2>2. host.op # Continuous => {"QUAD_READ_IDLE", "DUAL_READ_IDLE", "CLSR"} \cap StateOf(host.op) = {}
    BY <2>1 DEF StateOf, WriteState, WriteCommands, Registers, Programs, ReadStatus, ReadConfig, ReadID,
           WriteEnable, WriteDisable, PowerDown, Release, BulkErase, ClearStatus, PageProgram, QuadProgram, Read,
           FastRead, DualIO, QuadIO, SectorErase, WriteStatus
  <2>3. QED
    BY <1>5, <1>6, <1>7, <2>2
<1>9. DataByte(ByteIn(byte), 8 * (host.n + 1), (m_oreg * 256) % 4096)
  <2>1. Process(ByteIn(byte), 8 * (host.n + 1), (m_oreg * 256) % 4096)
    BY ByteBasics
  <2>2. 8 * (host.n + 1) # 8 /\ (8 * (host.n + 1)) % 8 = 0
    BY <1>1
  <2>3. QED
    BY <1>8, <2>1, <2>2 DEF Process
<1>10. QED
  BY <1>2, <1>5, <1>6, <1>7, <1>8, <1>9

\* When a read has its first byte of data, in every mode.
LEMMA ReadTable ==
    ASSUME NEW byte, ByteStep(byte), host.n >= 1, host.op = Continuous => host.n >= 3, m_state \in Reading
    PROVE  /\ host.op \in Reads /\ Header \in {3, 4} /\ Gap \in {0, 1, 3}
           /\ Header = 3 <=> m_state \in {"DUAL_READ", "QUAD_READ"}
           /\ 8 * (host.n + 1) >= FirstDataAt <=> host.n + 1 >= Header + Gap
           /\ DPD \notin m_sreg /\ WIP \notin m_sreg
<1>1. host.op \in Ops /\ host.op \notin Plain /\ host.n \in Nat
  BY ByteBasics, HostData1
<1>2. DPD \notin m_sreg
  BY HostData1 DEF Reading, QuadReads, DualReads
<1> DEFINE Table == /\ host.op \in Reads /\ Header \in {3, 4} /\ Gap \in {0, 1, 3}
                    /\ Header = 3 <=> m_state \in {"DUAL_READ", "QUAD_READ"}
                    /\ 8 * (host.n + 1) >= FirstDataAt <=> host.n + 1 >= Header + Gap
<1>3. ASSUME host.op = Continuous PROVE Table
  <2>1. Header = 3 /\ host.op \in Reads
    BY <1>3 DEF Header, Reads
  <2>2. CASE m_state = "QUAD_READ" /\ m_mode = "QSPI"
    <3>1. Gap = 3 /\ FirstDataAt = 48
      BY <1>3, <2>2 DEF Gap, FirstDataAt, FastRead, DualIO, QuadIO, Continuous
    <3>2. QED
      BY <1>1, <2>1, <2>2, <3>1
  <2>3. CASE m_state = "DUAL_READ" /\ m_mode = "DSPI"
    <3>1. Gap = 1 /\ FirstDataAt = 0
      BY <1>3, <2>3 DEF Gap, FirstDataAt, FastRead, DualIO, QuadIO, Continuous
    <3>2. QED
      BY <1>1, <1>3, <2>1, <2>3, <3>1
  <2>4. QED
    BY <1>3, <2>2, <2>3, HostData1
<1>4. ASSUME host.op # Continuous PROVE Table
  <2>1. m_state \in StateOf(host.op)
    BY <1>2, <1>4, HostData1
  <2>2. \/ host.op = Read /\ m_state = "SLOW_READ"
        \/ host.op = FastRead /\ m_state = "FAST_READ"
        \/ host.op = DualIO /\ m_state = "DUAL_READ_CMD"
        \/ host.op = QuadIO /\ m_state = "QUAD_READ_CMD"
    <3>1. host.op \in Registers \cup Programs \cup {Read, FastRead, DualIO, QuadIO, SectorErase, WriteStatus}
      BY <1>1, <1>4 DEF Ops, Reads
    <3>2. QED
      BY <2>1, <3>1 DEF StateOf, WriteState, WriteCommands, Registers, Programs, ReadStatus, ReadConfig, ReadID,
           WriteEnable, WriteDisable, PowerDown, Release, BulkErase, ClearStatus, PageProgram, QuadProgram, Read,
           FastRead, DualIO, QuadIO, SectorErase, WriteStatus, Reading, QuadReads, DualReads
  <2>3. Header = 4 /\ host.op \in Reads
    BY <1>4, <2>2 DEF Header, Reads
  <2>4. /\ host.op = Read => Gap = 0
        /\ host.op = FastRead => Gap = 1
        /\ host.op = DualIO => Gap = 1
        /\ host.op = QuadIO => Gap = 3
    BY DEF Gap, Read, FastRead, DualIO, QuadIO, Continuous
  <2>5. /\ m_state = "SLOW_READ" => FirstDataAt = 32
        /\ m_state = "FAST_READ" => FirstDataAt = 40
        /\ m_state = "DUAL_READ_CMD" => FirstDataAt = 40
        /\ m_state = "QUAD_READ_CMD" => FirstDataAt = 56
    BY DEF FirstDataAt
  <2>6. QED
    <3>1. m_state \notin {"DUAL_READ", "QUAD_READ"} /\ Gap \in {0, 1, 3}
      BY <2>2, <2>4
    <3>2. 8 * (host.n + 1) >= FirstDataAt <=> host.n + 1 >= 4 + Gap
      <4>1. CASE Gap = 0 /\ FirstDataAt = 32
        BY <1>1, <4>1
      <4>2. CASE Gap = 1 /\ FirstDataAt = 40
        BY <1>1, <4>2
      <4>3. CASE Gap = 3 /\ FirstDataAt = 56
        BY <1>1, <4>3
      <4>4. QED
        BY <2>2, <2>4, <2>5, <4>1, <4>2, <4>3
    <3>3. QED
      BY <2>3, <3>1, <3>2
<1>5. Table
  BY <1>3, <1>4
<1>6. WIP \notin m_sreg
  <2>1. host.op \notin Registers \cup {Release, -1}
    BY <1>5 DEF Reads, Registers, ReadStatus, ReadConfig, ReadID, Release, Read, FastRead, DualIO, QuadIO, Continuous
  <2>2. QED
    BY <2>1 DEF ByteStep, HostInv, Flags
<1>7. QED
  BY <1>2, <1>5, <1>6

\* A byte during a read: the address counts the bytes of data, and each is the memory's.
LEMMA HostRead ==
    ASSUME NEW byte, ByteStep(byte), host.n >= 1, host.op = Continuous => host.n >= 3, m_state \in Reading
    PROVE  ByteDone
<1> DEFINE ireg == ByteIn(byte)  count == 8 * (host.n + 1)  oreg == (m_oreg * 256) % 4096
           start == IF host.n + 1 = Header THEN host.addr ELSE m_addr
<1>1. /\ host'.op = host.op /\ host'.addr = host.addr /\ host'.n = host.n + 1 /\ host.n \in Nat
      /\ Header' = Header /\ Header \in {3, 4} /\ Gap \in {0, 1, 3} /\ host.addr \in Address
      /\ host.op \in Reads /\ host.op # -1 /\ oreg \in 0 .. 2^12 - 1
      /\ DPD \notin m_sreg /\ WIP \notin m_sreg
  BY ByteBasics, ReadTable
<1>2. FlashTypeOK /\ ~aborted /\ Flags /\ CommandTaken /\ AddressFollows
  BY DEF ByteStep, HostInv
<1>3. ReadByte(ireg, count, oreg) /\ UNCHANGED <<m_mem, m_write_count>>
  <2>1. DataByte(ireg, count, oreg)
    BY HostData1
  <2>2. QED
    BY <2>1 DEF DataByte, ProgramByte, EraseByte, StatusByteIn, AnswerByte, Reading, QuadReads, DualReads
<1>4. count = AddressAt /\ m_state \notin {"DUAL_READ", "QUAD_READ"} <=> host.n + 1 = Header
  <2>1. Header = 3 <=> m_state \in {"DUAL_READ", "QUAD_READ"}
    BY ReadTable
  <2>2. Header = 3 => host.n >= 3
    BY Headers
  <2>3. QED
    BY <1>1, <2>1, <2>2 DEF AddressAt
<1>5. DataDue(count) <=> host.n + 1 >= Header + Gap
  BY <1>1, ReadTable DEF DataDue
<1>6. host.n + 1 = Header => ireg % MemBytes = host.addr
  <2>1. host.n + 1 = Header => ireg = host.addr
    BY <1>1, ByteBasics DEF Addressed
  <2>2. PICK m \in Nat \ {0} : m = MemBytes
    BY GeometryAssumption
  <2>3. PICK a \in 0 .. m - 1 : a = host.addr
    BY <1>1, <2>2 DEF Address
  <2>4. a % m = a
    BY <2>2, <2>3, SmallRemainder
  <2>5. QED
    BY <2>1, <2>2, <2>3, <2>4
<1> HIDE DEF ireg, count, oreg
<1>7. /\ ~aborted' /\ UNCHANGED <<m_state, m_mode, m_sreg, m_mem, m_write_count>>
  BY <1>2, <1>3 DEF ReadByte, registers, Reading, QuadReads, DualReads
<1>8. Gap' = Gap
  BY <1>1, <1>7 DEF Gap
<1>9. IF host.n + 1 >= Header + Gap
      THEN m_addr' = start + 1 /\ m_oreg' \in {QOREG(oreg, b) : b \in MemoryAt(start)}
      ELSE m_addr' = start
  BY <1>3, <1>4, <1>5, <1>6 DEF ReadByte
<1> HIDE DEF start
<1>10. PICK n \in Nat, h \in {3, 4}, g \in {0, 1, 3}, a \in Nat : n = host.n /\ h = Header /\ g = Gap /\ a = host.addr
  BY <1>1 DEF Address
<1>11. n + 1 >= h => start = a + (IF n + 1 < h + g THEN 0 ELSE n + 1 - (h + g))
  <2>1. CASE n + 1 = h
    <3>1. start = a
      BY <1>10, <2>1 DEF start
    <3>2. a = a + (IF n + 1 < h + g THEN 0 ELSE n + 1 - (h + g))
      BY <1>10, <2>1
    <3>3. QED
      BY <3>1, <3>2
  <2>2. CASE n >= h
    <3>1. start = m_addr
      BY <1>10, <2>2 DEF start
    <3>2. m_addr = a + (IF n < h + g THEN 0 ELSE n - (h + g) + 1)
      BY <1>1, <1>2, <1>10, <2>2 DEF AddressFollows
    <3>3. a + (IF n < h + g THEN 0 ELSE n - (h + g) + 1) = a + (IF n + 1 < h + g THEN 0 ELSE n + 1 - (h + g))
      BY <1>10, <2>2
    <3>4. QED
      BY <3>1, <3>2, <3>3
  <2>3. CASE ~(n + 1 >= h)
    BY <2>3
  <2>4. QED
    BY <1>10, <2>1, <2>2, <2>3
<1>12. n + 1 >= h => m_addr' = a + (IF n + 1 < h + g THEN 0 ELSE n + 1 - (h + g) + 1)
  <2>1. CASE n + 1 >= h + g
    <3>1. m_addr' = start + 1
      BY <1>9, <1>10, <2>1
    <3>2. n + 1 >= h /\ start = a + (n + 1 - (h + g))
      BY <1>10, <1>11, <2>1
    <3>3. a + (n + 1 - (h + g)) + 1 = a + (n + 1 - (h + g) + 1)
      BY <1>10
    <3>4. QED
      BY <1>10, <2>1, <3>1, <3>2, <3>3
  <2>2. CASE n + 1 < h + g
    <3>1. m_addr' = start
      BY <1>9, <1>10, <2>2
    <3>2. QED
      BY <1>10, <1>11, <2>2, <3>1
  <2>3. QED
    BY <1>10, <2>1, <2>2
<1>13. HostReadsMemory'
  <2>1. SUFFICES ASSUME n + 1 >= h + g, a + (n + 1) - (h + g) \in Address
                 PROVE  m_oreg' % 256 = m_mem[a + (n + 1) - (h + g)]
    <3>1. host'.n = n + 1 /\ Header' = h /\ Gap' = g /\ host'.addr = a /\ m_mem' = m_mem /\ Address' = Address
      BY <1>1, <1>7, <1>8, <1>10 DEF Address
    <3>2. QED
      BY <3>1 DEF HostReadsMemory, ByteOut
  <2>2. start = a + (n + 1) - (h + g)
    <3>1. n + 1 >= h /\ a + (n + 1 - (h + g)) = a + (n + 1) - (h + g) /\ ~(n + 1 < h + g)
      BY <1>10, <2>1
    <3>2. QED
      BY <1>11, <3>1
  <2>3. m_oreg' \in {QOREG(oreg, b) : b \in MemoryAt(start)}
    BY <1>9, <1>10, <2>1
  <2>4. start \in Address
    BY <2>1, <2>2
  <2>5. m_oreg' = QOREG(oreg, m_mem[start])
    BY <2>3, <2>4 DEF MemoryAt
  <2>6. m_mem[start] \in Byte
    BY <1>2, <2>4 DEF FlashTypeOK
  <2>7. m_oreg' % 256 = m_mem[start]
    BY <1>1, <2>5, <2>6, OregTypes
  <2>8. QED
    BY <2>2, <2>7
<1>14. m_state \notin Writing
  BY DEF Writing, Reading, QuadReads, DualReads
<1>15. Flags'
  BY <1>1, <1>2, <1>7 DEF Flags, Registers
<1>16. CommandTaken'
  <2>1. host.op = Continuous => ~(host.n + 1 < Header)
    BY <1>1, Headers
  <2>2. CASE host.op = Continuous
    <3>1. (m_state = "QUAD_READ" /\ m_mode = "QSPI") \/ (m_state = "DUAL_READ" /\ m_mode = "DSPI")
      BY <2>2, HostData1
    <3>2. QED
      BY <1>1, <1>7, <2>1, <2>2, <3>1 DEF CommandTaken
  <2>3. CASE host.op # Continuous
    <3>1. m_state \in StateOf(host.op) /\ m_mode = ModeOf
      BY <1>1, <2>3, HostData1
    <3>2. host.op # 102 /\ m_state # "QPP"
      <4>1. 102 \in Plain
        BY DEF Plain
      <4>2. QED
        BY <4>1, <1>14, HostData1 DEF Writing
    <3>3. ModeOf' = ModeOf
      BY <1>1, <1>7, <3>2 DEF ModeOf
    <3>4. host'.n # 0
      BY <1>1
    <3>5. QED
      BY <1>1, <1>7, <2>3, <3>1, <3>2, <3>3, <3>4 DEF CommandTaken
  <2>4. QED
    BY <2>2, <2>3
<1>17. QED
  <2>1. host'.op \in Reads' /\ host'.n >= Header' =>
          m_addr' = host'.addr + (IF host'.n < Header' + Gap' THEN 0 ELSE host'.n - (Header' + Gap') + 1)
    BY <1>1, <1>8, <1>10, <1>12
  <2>2. QED
    BY <1>7, <1>13, <1>14, <1>15, <1>16, <2>1 DEF ByteDone, Writing

\* Going round in a page does not leave the chip.
LEMMA PageStays ==
    ASSUME NEW a \in Address
    PROVE  AlignDown(a, PageBytes) + ((a + 1) % PageBytes) \in Address
<1>1. PICK p \in Nat \ {0}, s \in Nat \ {0}, m \in Nat \ {0} : p = PageBytes /\ s = SectorBytes /\ m = MemBytes
  BY GeometryAssumption
<1>2. PICK k \in Int : m = p * k
  <2>1. PICK i \in Int : i = s \div p
    BY <1>1, DivMod
  <2>2. PICK j \in Int : j = m \div s
    BY <1>1, DivMod
  <2>3. s % p = 0 /\ m % s = 0
    BY <1>1, GeometryAssumption
  <2>4. s = p * i
    <3>1. s = p * (s \div p) + (s % p)
      BY <1>1, DivMod
    <3>2. QED
      BY <1>1, <2>1, <2>3, <3>1
  <2>5. m = s * j
    <3>1. m = s * (m \div s) + (m % s)
      BY <1>1, DivMod
    <3>2. QED
      BY <1>1, <2>2, <2>3, <3>1
  <2>6. m = p * (i * j) /\ i * j \in Int
    BY <2>1, <2>2, <2>4, <2>5
  <2>7. QED
    BY <2>6
<1>3. PICK x \in Nat : x = a /\ x < m
  BY <1>1 DEF Address
<1>4. PICK q \in Int, r \in 0 .. p - 1 : q = x \div p /\ x = p * q + r
  <2>1. x \in Int
    BY <1>3
  <2>2. x \div p \in Int /\ x % p \in 0 .. p - 1 /\ x = (p * (x \div p)) + (x % p)
    BY <1>1, <2>1, DivMod
  <2>3. PICK q \in Int : q = x \div p
    BY <2>2
  <2>4. PICK r \in 0 .. p - 1 : r = x % p
    BY <2>2
  <2>5. QED
    BY <2>2, <2>3, <2>4
<1>5. PICK t \in 0 .. p - 1 : t = (x + 1) % p
  <2>1. x + 1 \in Int
    BY <1>3
  <2>2. (x + 1) % p \in 0 .. p - 1
    BY <1>1, <2>1, DivMod
  <2>3. QED
    BY <2>2
<1>6. q >= 0
  <2>1. CASE q < 0
    <3>1. p * (-q) >= p
      BY <1>1, <1>4, <2>1, MultipleIsLarge
    <3>2. p * (-q) = r - x
      BY <1>1, <1>3, <1>4
    <3>3. QED
      BY <1>1, <1>3, <1>4, <3>1, <3>2
  <2>2. QED
    BY <1>4, <2>1
<1>7. q < k
  <2>1. CASE q >= k + 1
    <3>1. p * (q - k) >= p
      BY <1>1, <1>2, <1>4, <2>1, MultipleIsLarge
    <3>2. p * (q - k) = x - r - m
      BY <1>1, <1>2, <1>3, <1>4
    <3>3. QED
      BY <1>1, <1>3, <1>4, <3>1, <3>2
  <2>2. CASE q = k
    BY <1>1, <1>2, <1>3, <1>4, <2>2
  <2>3. QED
    BY <1>2, <1>4, <2>1, <2>2
<1>8. p * (k - q) >= p /\ p * (k - q) = m - p * q
  BY <1>1, <1>2, <1>4, <1>7, MultipleIsLarge
<1>9. p * q >= 0 /\ p * q \in Int
  BY <1>1, <1>4, <1>6
<1>10. p * q + t \in 0 .. m - 1
  BY <1>1, <1>5, <1>8, <1>9
<1>11. AlignDown(a, PageBytes) = p * q
  BY <1>1, <1>3, <1>4 DEF AlignDown
<1>12. QED
  BY <1>1, <1>3, <1>5, <1>10, <1>11 DEF Address

\* A byte of a page program.
LEMMA HostProgram ==
    ASSUME NEW byte, ByteStep(byte), host.n >= 1, m_state \in {"PP", "QPP"}
    PROVE  ByteDone
<1> DEFINE ireg == ByteIn(byte)  count == 8 * (host.n + 1)  oreg == (m_oreg * 256) % 4096
<1>0. host.op # Continuous
  BY ByteBasics DEF ByteStep, HostInv, CommandTaken, LaneIdle
<1>1. /\ host'.op = host.op /\ host'.addr = host.addr /\ host'.n = host.n + 1 /\ host.n \in Nat
      /\ Header' = Header /\ host.addr \in Address /\ host.op # -1
  BY ByteBasics
<1>2. FlashTypeOK /\ ~aborted /\ Flags /\ CommandTaken /\ AddressFollows
  BY DEF ByteStep, HostInv
<1>3. DPD \notin m_sreg /\ m_state \in StateOf(host.op) /\ m_mode = ModeOf
  BY <1>0, HostData1
<1>4. host.op \in Programs /\ Header = 4 /\ host.op \notin {102, DualIO, QuadIO} /\ host.op \notin Reads
      /\ (m_state = "PP" <=> host.op = PageProgram)
  <2>1. host.op \in Ops /\ host.op \notin Plain
    BY ByteBasics, HostData1, <1>0
  <2>2. host.op \in Registers \cup Programs \cup {Read, FastRead, DualIO, QuadIO, SectorErase, WriteStatus}
    BY <1>0, <2>1 DEF Ops, Reads
  <2>3. host.op \in Programs /\ (m_state = "PP" <=> host.op = PageProgram)
    BY <1>3, <2>2 DEF StateOf, WriteState, WriteCommands, Registers, Programs, ReadStatus, ReadConfig, ReadID,
           WriteEnable, WriteDisable, PowerDown, Release, BulkErase, ClearStatus, PageProgram, QuadProgram, Read,
           FastRead, DualIO, QuadIO, SectorErase, WriteStatus
  <2>4. QED
    BY <2>3 DEF Header, Programs, Reads, PageProgram, QuadProgram, Read, FastRead, DualIO, QuadIO, Continuous
<1>5. ProgramByte(ireg, count, oreg) /\ UNCHANGED <<m_mem, m_write_count>>
  <2>1. DataByte(ireg, count, oreg)
    BY <1>0, HostData1
  <2>2. QED
    BY <2>1 DEF DataByte, ReadByte, EraseByte, StatusByteIn, AnswerByte, Reading, QuadReads, DualReads
<1>6. (count = AddressAt <=> host'.n = 4) /\ (count > AddressAt <=> host'.n > 4)
  BY <1>1 DEF AddressAt
<1>7. host'.n = 4 => ireg % MemBytes = host.addr
  <2>1. host'.n = 4 => ireg = host.addr
    BY <1>1, <1>4, ByteBasics DEF Addressed
  <2>2. PICK m \in Nat \ {0} : m = MemBytes
    BY GeometryAssumption
  <2>3. PICK a \in 0 .. m - 1 : a = host.addr
    BY <1>1, <2>2 DEF Address
  <2>4. a % m = a
    BY <2>2, <2>3, SmallRemainder
  <2>5. QED
    BY <2>1, <2>2, <2>3, <2>4
<1> HIDE DEF ireg, count, oreg
<1>8. ~aborted' /\ UNCHANGED <<m_state, m_sreg, m_write_count>>
  BY <1>2, <1>5 DEF ProgramByte, registers
<1>9. host'.n >= 4 => m_addr' \in Address
  <2>1. CASE host'.n = 4
    BY <1>1, <1>5, <1>6, <1>7, <2>1 DEF ProgramByte
  <2>2. CASE host'.n > 4
    <3>1. m_addr \in Address
      BY <1>1, <1>2, <1>4, <2>2 DEF AddressFollows
    <3>2. m_addr' = AlignDown(m_addr, PageBytes) + ((m_addr + 1) % PageBytes)
      BY <1>1, <1>5, <1>6, <2>2 DEF ProgramByte
    <3>3. QED
      BY <3>1, <3>2, PageStays
  <2>3. QED
    BY <1>1, <2>1, <2>2
<1>10. m_mode' = ModeOf'
  <2>1. ModeOf = IF m_state = "QPP" /\ host.n >= 4 THEN "QSPI" ELSE "SPI"
    BY <1>4 DEF ModeOf
  <2>2. ModeOf' = IF m_state = "QPP" /\ host'.n >= 4 THEN "QSPI" ELSE "SPI"
    BY <1>1, <1>4, <1>8 DEF ModeOf
  <2>3. CASE host'.n = 4
    BY <1>1, <1>3, <1>5, <1>6, <2>1, <2>2, <2>3 DEF ProgramByte
  <2>4. CASE host'.n # 4
    <3>1. m_mode' = m_mode
      BY <1>5, <1>6, <2>4 DEF ProgramByte
    <3>2. host'.n >= 4 <=> host.n >= 4
      BY <1>1, <2>4
    <3>3. QED
      BY <1>3, <2>1, <2>2, <3>1, <3>2
  <2>5. QED
    BY <2>3, <2>4
<1>11. CommandTaken'
  <2>1. host'.n # 0
    BY <1>1
  <2>2. QED
    BY <1>0, <1>1, <1>3, <1>4, <1>8, <1>10, <2>1 DEF CommandTaken
<1>12. Flags'
  BY <1>1, <1>2, <1>8, <1>3 DEF Flags, Registers
<1>13. QED
  BY <1>1, <1>4, <1>8, <1>9, <1>11, <1>12 DEF ByteDone, HostReadsMemory, Reads

LEMMA AlignDownBound ==
    ASSUME NEW a \in Nat, NEW size \in Nat \ {0}
    PROVE  AlignDown(a, size) \in 0 .. a
<1>1. a \in Int
  OBVIOUS
<1>2. a \div size \in Int /\ a % size \in 0 .. size - 1 /\ a = (size * (a \div size)) + (a % size)
  BY <1>1, DivMod
<1>3. PICK q \in Int : q = a \div size
  BY <1>2
<1>4. PICK r \in 0 .. size - 1 : r = a % size
  BY <1>2
<1>5. a = size * q + r
  BY <1>2, <1>3, <1>4
<1>6. q >= 0
  <2>1. CASE q < 0
    <3>1. size * (-q) >= size
      BY <1>3, <2>1, MultipleIsLarge
    <3>2. size * (-q) = r - a
      BY <1>3, <1>4, <1>5
    <3>3. QED
      BY <1>4, <3>1, <3>2
  <2>2. QED
    BY <1>3, <2>1
<1>7. q * size \in 0 .. a
  <2>1. q * size \in Nat
    BY <1>3, <1>6
  <2>2. size * q = q * size
    BY <1>3
  <2>3. QED
    BY <1>4, <1>5, <2>1, <2>2
<1>8. QED
  BY <1>3, <1>7 DEF AlignDown

\* A byte of a sector erase: the sector is one that the model can erase.
LEMMA HostErase ==
    ASSUME NEW byte, ByteStep(byte), host.n >= 1, m_state = "SECTOR_ERASE"
    PROVE  ByteDone
<1> DEFINE ireg == ByteIn(byte)  count == 8 * (host.n + 1)  oreg == (m_oreg * 256) % 4096
<1>0. host.op # Continuous
  BY ByteBasics DEF ByteStep, HostInv, CommandTaken, LaneIdle
<1>1. /\ host'.op = host.op /\ host'.addr = host.addr /\ host'.n = host.n + 1 /\ host.n \in Nat
      /\ Header' = Header /\ host.addr \in Address /\ host.op # -1 /\ host.n < MaxBytes
  BY ByteBasics DEF ByteStep
<1>2. FlashTypeOK /\ ~aborted /\ Flags /\ CommandTaken /\ AddressFollows /\ HostTypeOK
  BY DEF ByteStep, HostInv
<1>3. DPD \notin m_sreg /\ m_state \in StateOf(host.op) /\ m_mode = ModeOf
  BY <1>0, HostData1
<1>4. host.op = SectorErase
  <2>1. host.op \in Ops /\ host.op \notin Plain
    BY ByteBasics, HostData1, <1>0
  <2>2. host.op \in Registers \cup Programs \cup {Read, FastRead, DualIO, QuadIO, SectorErase, WriteStatus}
    BY <1>0, <2>1 DEF Ops, Reads
  <2>3. QED
    BY <1>3, <2>2 DEF StateOf, WriteState, WriteCommands, Registers, Programs, ReadStatus, ReadConfig, ReadID,
           WriteEnable, WriteDisable, PowerDown, Release, BulkErase, ClearStatus, PageProgram, QuadProgram, Read,
           FastRead, DualIO, QuadIO, SectorErase, WriteStatus
<1>5. Header = 4 /\ MaxBytes = 4 /\ host.op \notin {102, DualIO, QuadIO} /\ host.op \notin Reads /\ Addressed
  BY <1>4 DEF Header, MaxBytes, Addressed, Registers, Programs, Reads, ReadStatus, ReadConfig, ReadID, WriteStatus,
         PageProgram, QuadProgram, Read, FastRead, DualIO, QuadIO, Continuous, SectorErase
<1>6. EraseByte(ireg, count, oreg) /\ UNCHANGED <<m_mem, m_write_count>>
  <2>1. DataByte(ireg, count, oreg)
    BY <1>0, HostData1
  <2>2. QED
    BY <2>1 DEF DataByte, ReadByte, ProgramByte, StatusByteIn, AnswerByte, Reading, QuadReads, DualReads
<1>7. count = AddressAt <=> host'.n = 4
  BY <1>1 DEF AddressAt
<1>8. host'.n = 4 => ireg = host.addr
  BY <1>1, <1>5, ByteBasics
<1> HIDE DEF ireg, count, oreg
<1>9. host'.n = 4 => m_addr' \in Address /\ ~(m_addr' >= EraseLimit)
  <2>1. PICK a \in Nat, m \in Nat, limit \in Nat :
           a = host.addr /\ m = MemBytes /\ limit = EraseLimit /\ a < m /\ a < limit
    BY <1>1, <1>2, <1>4, GeometryAssumption DEF Address, HostTypeOK
  <2>2. PICK size \in Nat \ {0} : size = SectorBytes \div 4
    BY GeometryAssumption
  <2>3. PICK x \in 0 .. a : x = AlignDown(a, size)
    BY <2>1, <2>2, AlignDownBound
  <2>4. host'.n = 4 => m_addr' = x
    BY <1>6, <1>7, <1>8, <2>1, <2>2, <2>3 DEF EraseByte
  <2>5. x \in 0 .. m - 1 /\ ~(x >= limit)
    BY <2>1, <2>3
  <2>6. QED
    BY <2>1, <2>4, <2>5 DEF Address
<1>10. UNCHANGED <<m_state, m_mode, m_sreg, m_write_count>>
  BY <1>6 DEF EraseByte, registers
<1>11. ~aborted'
  BY <1>6, <1>7, <1>9 DEF EraseByte
<1>12. host'.n >= 4 => host'.n = 4
  BY <1>1, <1>5
<1>13. CommandTaken'
  <2>1. host'.n # 0 /\ m_state # "QPP"
    BY <1>1
  <2>2. ModeOf' = ModeOf
    BY <1>1, <1>10, <2>1 DEF ModeOf
  <2>3. QED
    BY <1>0, <1>1, <1>3, <1>5, <1>10, <2>1, <2>2 DEF CommandTaken
<1>14. Flags'
  BY <1>1, <1>2, <1>3, <1>10 DEF Flags, Registers
<1>15. QED
  BY <1>1, <1>5, <1>9, <1>11, <1>12, <1>13, <1>14 DEF ByteDone, HostReadsMemory, Reads

\* A byte for the status registers.
LEMMA HostStatus ==
    ASSUME NEW byte, ByteStep(byte), host.n >= 1, m_state = "WRSR"
    PROVE  ByteDone
<1> DEFINE ireg == ByteIn(byte)  count == 8 * (host.n + 1)  oreg == (m_oreg * 256) % 4096
<1>0. host.op # Continuous
  BY ByteBasics DEF ByteStep, HostInv, CommandTaken, LaneIdle
<1>1. /\ host'.op = host.op /\ host'.addr = host.addr /\ host'.n = host.n + 1 /\ host.n \in Nat
      /\ Header' = Header /\ host.op # -1 /\ host.n < MaxBytes
  BY ByteBasics DEF ByteStep
<1>2. FlashTypeOK /\ ~aborted /\ Flags
  BY DEF ByteStep, HostInv
<1>3. DPD \notin m_sreg /\ m_state \in StateOf(host.op) /\ m_mode = ModeOf
  BY <1>0, HostData1
<1>4. host.op = WriteStatus
  <2>1. host.op \in Ops /\ host.op \notin Plain
    BY ByteBasics, HostData1, <1>0
  <2>2. host.op \in Registers \cup Programs \cup {Read, FastRead, DualIO, QuadIO, SectorErase, WriteStatus}
    BY <1>0, <2>1 DEF Ops, Reads
  <2>3. QED
    BY <1>3, <2>2 DEF StateOf, WriteState, WriteCommands, Registers, Programs, ReadStatus, ReadConfig, ReadID,
           WriteEnable, WriteDisable, PowerDown, Release, BulkErase, ClearStatus, PageProgram, QuadProgram, Read,
           FastRead, DualIO, QuadIO, SectorErase, WriteStatus
<1>5. MaxBytes = 3 /\ host.op \notin {102, DualIO, QuadIO} /\ host.op \notin Reads
  BY <1>4 DEF Header, MaxBytes, Registers, Programs, Reads, ReadStatus, ReadConfig, ReadID, WriteStatus,
         PageProgram, QuadProgram, Read, FastRead, DualIO, QuadIO, Continuous, SectorErase
<1>6. StatusByteIn(ireg, count, oreg) /\ UNCHANGED <<m_mem, m_write_count>>
  <2>1. DataByte(ireg, count, oreg)
    BY <1>0, HostData1
  <2>2. QED
    BY <2>1 DEF DataByte, ReadByte, ProgramByte, EraseByte, AnswerByte, Reading, QuadReads, DualReads
<1>7. ~(count > 24)
  BY <1>1, <1>5
<1> HIDE DEF ireg, count, oreg
<1>8. ~aborted' /\ UNCHANGED <<m_state, m_mode, m_write_count>>
  BY <1>6, <1>7 DEF StatusByteIn
<1>9. (DPD \in m_sreg' => DPD \in m_sreg) /\ (WIP \in m_sreg' => WIP \in m_sreg) /\ (WEL \in m_sreg' => WEL \in m_sreg)
  BY <1>6 DEF StatusByteIn, DPD, WIP, WEL
<1>10. CommandTaken'
  <2>1. host'.n # 0 /\ m_state # "QPP"
    BY <1>1
  <2>2. ModeOf' = ModeOf
    BY <1>1, <1>8, <2>1 DEF ModeOf
  <2>3. QED
    BY <1>0, <1>1, <1>3, <1>5, <1>8, <2>1, <2>2 DEF CommandTaken
<1>11. Flags'
  BY <1>1, <1>2, <1>3, <1>8, <1>9 DEF Flags, Registers
<1>12. QED
  BY <1>1, <1>5, <1>8, <1>10, <1>11 DEF ByteDone, HostReadsMemory, Reads

\* A byte of an answer, or one that is ignored.
LEMMA HostAnswer ==
    ASSUME NEW byte, ByteStep(byte), host.n >= 1, host.op = Continuous => host.n >= 3,
           m_state \notin Reading \cup {"PP", "QPP", "SECTOR_ERASE", "WRSR"}
    PROVE  ByteDone
<1> DEFINE ireg == ByteIn(byte)  count == 8 * (host.n + 1)  oreg == (m_oreg * 256) % 4096
<1>0. host.op # Continuous
  BY HostData1 DEF Reading, QuadReads, DualReads
<1>1. /\ host'.op = host.op /\ host'.addr = host.addr /\ host'.n = host.n + 1 /\ host.n \in Nat
      /\ Header' = Header /\ host.op # -1
  BY ByteBasics
<1>2. ~aborted /\ Flags
  BY DEF ByteStep, HostInv
<1>3. /\ DPD \notin m_sreg => m_state \in StateOf(host.op) /\ m_mode = ModeOf
      /\ DPD \in m_sreg => m_state = "IDLE" /\ m_mode = "SPI"
      /\ m_state # "CLSR" /\ host.op \notin Plain
  BY <1>0, HostData1
<1>4. DPD \notin m_sreg => host.op \notin Reads
  <2>1. host.op \in {Read, FastRead, DualIO, QuadIO} => StateOf(host.op) \subseteq Reading
    BY DEF StateOf, WriteCommands, Read, FastRead, DualIO, QuadIO, WriteStatus, PageProgram, QuadProgram, SectorErase,
           BulkErase, ReadStatus, ReadConfig, ReadID, ClearStatus, Release, WriteEnable, WriteDisable, PowerDown,
           Reading, QuadReads, DualReads
  <2>2. host.op \in Reads => host.op \in {Read, FastRead, DualIO, QuadIO}
    BY <1>0 DEF Reads
  <2>3. QED
    BY <1>3, <2>1, <2>2
<1>5. AnswerByte(count, oreg) /\ UNCHANGED <<m_mem, m_write_count>>
  <2>1. DataByte(ireg, count, oreg)
    BY <1>0, HostData1
  <2>2. QED
    BY <2>1 DEF DataByte, ReadByte, ProgramByte, EraseByte, StatusByteIn
<1> HIDE DEF ireg, count, oreg
<1>6. ~aborted' /\ UNCHANGED <<m_state, m_mode, m_sreg, m_write_count>>
  BY <1>3, <1>5 DEF AnswerByte, registers
<1>7. CommandTaken'
  <2>1. host'.n # 0 /\ m_state # "QPP" /\ host.op # 102
    BY <1>1, <1>3 DEF Plain
  <2>2. ModeOf' = ModeOf
    BY <1>1, <1>6, <2>1 DEF ModeOf
  <2>3. QED
    BY <1>0, <1>1, <1>3, <1>6, <2>1, <2>2 DEF CommandTaken
<1>8. Flags'
  BY <1>1, <1>2, <1>3, <1>6 DEF Flags, Registers
<1>9. QED
  BY <1>1, <1>4, <1>6, <1>7, <1>8 DEF ByteDone, HostReadsMemory, Reads

\* Every byte of the host.
LEMMA HostBytes ==
    ASSUME HostInv, HostByte
    PROVE  HostInv'
<1>1. PICK byte \in NextBytes : ByteStep(byte)
  BY DEF HostByte, ByteStep
<1>2. host.n \in Nat
  BY <1>1, ByteBasics
<1>3. CASE host.n = 0 /\ host.op # Continuous
  BY <1>1, <1>3, HostCommand, ByteInvariant
<1>4. CASE host.op = Continuous /\ host.n < 3
  BY <1>1, <1>4, HostContinuous, ByteInvariant
<1>5. CASE host.n >= 1 /\ (host.op = Continuous => host.n >= 3)
  <2>1. ByteDone
    BY <1>1, <1>5, HostRead, HostProgram, HostErase, HostStatus, HostAnswer
  <2>2. QED
    BY <1>1, <2>1, ByteInvariant
<1>6. QED
  BY <1>2, <1>3, <1>4, <1>5

\* No command is the absence of one.
LEMMA OpsAreCommands ==
    /\ -1 \notin Ops /\ -1 \notin Programs \cup Reads \cup {SectorErase} /\ -1 # Continuous
    /\ host.op = -1 => Header = 1 /\ ~Addressed
<1>1. -1 \notin Ops /\ -1 \notin Programs \cup Reads \cup {SectorErase} /\ -1 # Continuous
  BY DEF Ops, Registers, Plain, Programs, Reads, Continuous, ReadStatus, ReadConfig, ReadID,
           WriteEnable, WriteDisable, PowerDown, Release, BulkErase, ClearStatus, PageProgram,
           QuadProgram, Read, FastRead, DualIO, QuadIO, SectorErase, WriteStatus
<1>2. QED
  BY <1>1 DEF Header, Addressed

\* A new transfer.
LEMMA HostStarts ==
    ASSUME HostInv, NEW op \in Ops, NEW addr \in HostAddresses, HostStart(op, addr)
    PROVE  HostInv'
<1>1. /\ host = NoTransfer /\ host' = [op |-> op, addr |-> addr, n |-> 0]
      /\ op = Continuous <=> m_state \in {"QUAD_READ_IDLE", "DUAL_READ_IDLE"}
      /\ m_write_count => op \in Registers
      /\ op = SectorErase => addr < EraseLimit
      /\ op # -1
  BY OpsAreCommands DEF HostStart
<1>2. /\ UNCHANGED <<m_state, m_mode, m_sreg, m_creg, m_mem, m_pmem, m_addr, m_mode_byte>>
      /\ UNCHANGED <<m_ireg, m_oreg, m_count, m_last_sck, m_write_count, aborted>>
  BY DEF HostStart, flash, registers, shifter
<1>3. host.op = -1 /\ host.n = 0 /\ host'.op = op /\ host'.addr = addr /\ host'.n = 0
  BY <1>1 DEF NoTransfer
<1>4. FlashTypeOK' /\ ~aborted'
  BY <1>2 DEF HostInv, FlashTypeOK
<1>5. HostTypeOK'
  <2>1. addr \in Address
    BY HostAssumption DEF Address
  <2>2. QED
    BY <1>1, <1>3, <2>1 DEF HostTypeOK
<1>6. m_count' = 8 * host'.n
  BY <1>2, <1>3 DEF HostInv
<1>7. CommandTaken'
  <2>1. OneLaneRest \/ LaneIdle
    BY <1>3, OpsAreCommands DEF HostInv, CommandTaken
  <2>2. CASE op = Continuous
    <3>1. DPD \notin m_sreg
      BY <1>1, <2>2 DEF HostInv, Flags
    <3>2. LaneIdle
      BY <1>1, <2>1, <2>2 DEF OneLaneRest, Resting, QuadReads, DualReads
    <3>3. LaneIdle' /\ host'.n < Header'
      BY <1>2, <1>3, <2>2, <3>2 DEF LaneIdle, Header
    <3>4. QED
      BY <1>2, <1>3, <2>2, <3>1, <3>3 DEF CommandTaken
  <2>3. CASE op # Continuous
    <3>1. OneLaneRest
      BY <1>1, <2>1, <2>3 DEF LaneIdle
    <3>2. OneLaneRest'
      BY <1>2, <3>1 DEF OneLaneRest, Resting, QuadReads, DualReads, StaysContinuous
    <3>3. QED
      BY <1>3, <2>3, <3>2 DEF CommandTaken
  <2>4. QED
    BY <2>2, <2>3
<1>8. Flags'
  BY <1>1, <1>2, <1>3 DEF HostInv, Flags, Registers, Writing
<1>9. AddressFollows' /\ HostReadsMemory'
  <2>1. Header' \in {1, 3, 4} /\ (Header' = 1 <=> ~Addressed')
    BY DEF Header, Addressed, Continuous, Programs, Reads, PageProgram, QuadProgram, Read, FastRead, DualIO, QuadIO, SectorErase
  <2>2. Gap' \in {0, 1, 3}
    BY DEF Gap, FastRead, DualIO, QuadIO, Continuous
  <2>3. \A h \in {1, 3, 4}, gap \in {0, 1, 3} : ~(0 >= h) /\ ~(0 >= h + gap) /\ 0 # h - 2 /\ (0 = h - 1 => h = 1)
    OBVIOUS
  <2>4. ~(host'.n >= Header') /\ ~(host'.n >= Header' + Gap') /\ host'.n # Header' - 2 /\ (host'.n = Header' - 1 => Header' = 1)
    BY <1>3, <2>1, <2>2, <2>3
  <2>5. host'.n # Header'
    BY <1>3, <2>1
  <2>6. QED
    BY <2>1, <2>4, <2>5 DEF AddressFollows, HostReadsMemory
<1>10. QED
  BY <1>4, <1>5, <1>6, <1>7, <1>8, <1>9 DEF HostInv

\* The lanes that a transfer has reached.
Reached ==
    /\ m_state \notin {"QUAD_READ_IDLE", "DUAL_READ_IDLE"}
    /\ m_state \in QuadReads /\ m_mode # "QSPI" => m_mode = "SPI" /\ ~StaysContinuous
    /\ m_state \in DualReads /\ m_mode # "DSPI" => m_mode = "SPI" /\ ~StaysContinuous
    /\ m_state \notin QuadReads \cup DualReads \cup {"QPP"} => m_mode = "SPI"
    /\ m_state \in Resting \cup Writing \cup {"RELEASE", "CLSR"}

LEMMA TransferReached ==
    ASSUME HostInv, host # NoTransfer, host.n >= MinBytes
    PROVE  Reached
<1>1. host.op \in Ops /\ host.op # -1 /\ host.n \in Nat /\ CommandTaken /\ Flags
  BY DEF HostInv, HostTypeOK
<1>2. Header \in {1, 3, 4} /\ (Header = 3 <=> host.op = Continuous) /\ Gap \in {0, 1, 3}
  BY Headers DEF Gap, FastRead, DualIO, QuadIO, Continuous
<1>3. host.n >= Header
  <2>1. \A h \in {1, 3, 4}, gap \in {0, 1, 3}, n \in Nat : (n >= h + 1 => n >= h) /\ (n >= h + gap => n >= h)
    OBVIOUS
  <2>2. QED
    BY <1>1, <1>2, <2>1 DEF MinBytes
<1>4. CASE host.op = Continuous
  <2>1. ~(host.n < Header)
    BY <1>1, <1>2, <1>3
  <2>2. (m_state = "QUAD_READ" /\ m_mode = "QSPI") \/ (m_state = "DUAL_READ" /\ m_mode = "DSPI")
    BY <1>1, <1>4, <2>1 DEF CommandTaken
  <2>3. QED
    BY <2>2 DEF Reached, QuadReads, DualReads, Resting
<1>5. CASE host.op = 102
  <2>1. 102 # Continuous /\ host.n # 0
    BY <1>1, <1>2, <1>3 DEF Continuous
  <2>2. OneLaneRest
    BY <1>1, <1>5, <2>1 DEF CommandTaken
  <2>3. QED
    BY <2>2 DEF OneLaneRest, Reached, Resting, QuadReads, DualReads
<1>6. CASE DPD \in m_sreg
  <2>1. m_state = "IDLE" /\ m_mode = "SPI"
    BY <1>1, <1>6 DEF Flags
  <2>2. QED
    BY <2>1 DEF Reached, Resting, QuadReads, DualReads
<1>7. CASE host.op \notin {102, Continuous} /\ DPD \notin m_sreg
  <2>1. host.n # 0
    BY <1>1, <1>2, <1>3
  <2>2. m_state \in StateOf(host.op) /\ m_mode = ModeOf
    BY <1>1, <1>7, <2>1 DEF CommandTaken
  <2>3. CASE host.op = DualIO
    <3>1. m_state = "DUAL_READ_CMD" /\ m_mode = "DSPI"
      BY <2>2, <2>3 DEF ModeOf, StateOf, WriteCommands, Read, FastRead, DualIO, QuadIO, WriteStatus, PageProgram,
         QuadProgram, SectorErase, BulkErase, ReadStatus, ReadConfig, ReadID, ClearStatus, Release, WriteEnable,
         WriteDisable, PowerDown
    <3>2. QED
      BY <3>1 DEF Reached, Resting, QuadReads, DualReads
  <2>4. CASE host.op = QuadIO
    <3>1. m_state = "QUAD_READ_CMD" /\ m_mode = "QSPI"
      BY <2>2, <2>4 DEF ModeOf, StateOf, WriteCommands, Read, FastRead, DualIO, QuadIO, WriteStatus, PageProgram,
         QuadProgram, SectorErase, BulkErase, ReadStatus, ReadConfig, ReadID, ClearStatus, Release, WriteEnable,
         WriteDisable, PowerDown
    <3>2. QED
      BY <3>1 DEF Reached, Resting, QuadReads, DualReads
  <2>5. CASE host.op \notin {DualIO, QuadIO}
    <3>1. m_mode = IF m_state = "QPP" /\ host.n >= Header THEN "QSPI" ELSE "SPI"
      BY <2>2, <2>5 DEF ModeOf
    <3>2. StateOf(host.op) \subseteq (Resting \ (QuadReads \cup DualReads)) \cup Writing \cup {"RELEASE", "CLSR"}
      <4>1. host.op \in {WriteEnable, WriteDisable, PowerDown, Release, BulkErase, ClearStatus, 255, 90, ReadStatus,
                ReadConfig, ReadID, PageProgram, QuadProgram, Read, FastRead, SectorErase, WriteStatus}
        BY <1>1, <1>7, <2>5 DEF Ops, Registers, Plain, Programs, Reads
      <4>2. QED
        BY <4>1 DEF StateOf, WriteState, Resting, Writing, QuadReads, DualReads, WriteCommands, WriteStatus, PageProgram,
           QuadProgram, SectorErase, BulkErase, Read,
           FastRead, DualIO, QuadIO, ReadStatus, ReadConfig, ReadID, ClearStatus, Release, PowerDown,
           WriteEnable, WriteDisable
    <3>3. "QUAD_READ_IDLE" \notin Resting \cup Writing /\ "DUAL_READ_IDLE" \notin Resting \cup Writing
          /\ Writing \cap (QuadReads \cup DualReads) = {}
          /\ "RELEASE" \notin QuadReads \cup DualReads /\ "CLSR" \notin QuadReads \cup DualReads
      BY DEF Resting, Writing, QuadReads, DualReads
    <3>4. QED
      BY <2>2, <3>1, <3>2, <3>3 DEF Reached
  <2>6. QED
    BY <2>3, <2>4, <2>5
<1>8. QED
  BY <1>4, <1>5, <1>6, <1>7

\* The end of a transfer.
LEMMA HostEnds ==
    ASSUME HostInv, HostEnd
    PROVE  HostInv'
<1>1. Reached /\ Deselect /\ host' = NoTransfer /\ ~aborted /\ Flags
  BY TransferReached DEF HostEnd, HostInv
<1>2. FlashTypeOK'
  BY <1>1, DeselectTypes DEF HostInv
<1>3. host'.op = -1 /\ host'.addr = 0 /\ host'.n = 0
  BY <1>1 DEF NoTransfer
<1>4. HostTypeOK'
  <2>1. 0 \in Address
    BY GeometryAssumption DEF Address
  <2>2. -1 # SectorErase
    BY DEF SectorErase
  <2>3. QED
    BY <1>1, <1>3, <2>1, <2>2 DEF HostTypeOK, NoTransfer
<1>5. m_count' = 8 * host'.n /\ ~aborted' /\ UNCHANGED m_mode_byte
  BY <1>1, <1>3 DEF Deselect
<1>6. CommandTaken'
  <2>1. OneLaneRest' \/ LaneIdle'
    <3>1. CASE m_state \in QuadReads \cup DualReads /\ StaysContinuous
      BY <1>1, <3>1 DEF Reached, Deselect, LaneIdle, ModeAfter, QuadReads, DualReads, Writing
    <3>2. CASE m_state \in QuadReads \cup DualReads /\ ~StaysContinuous
      BY <1>1, <1>5, <3>2 DEF Reached, Deselect, OneLaneRest, ModeAfter, QuadReads, DualReads, Writing, StaysContinuous, Resting
    <3>3. CASE m_state \in Writing \cup {"RELEASE", "CLSR"}
      BY <1>1, <3>3 DEF Reached, Deselect, OneLaneRest, ModeAfter, QuadReads, DualReads, Writing, Resting
    <3>4. CASE m_state \in Resting /\ m_state \notin QuadReads \cup DualReads
      BY <1>1, <3>4 DEF Reached, Deselect, OneLaneRest, ModeAfter, QuadReads, DualReads, Writing, Resting
    <3>5. QED
      BY <1>1, <3>1, <3>2, <3>3, <3>4 DEF Reached
  <2>2. QED
    BY <1>3, <2>1, OpsAreCommands DEF CommandTaken
<1>7. Flags'
  <2>1. DPD \in m_sreg' => m_state' = "IDLE" /\ m_mode' = "SPI" /\ ~m_write_count'
    <3>1. DPD \in m_sreg' => DPD \in m_sreg
      BY <1>1 DEF Deselect, DPD, WIP
    <3>2. m_state = "IDLE" => m_state' = "IDLE" /\ m_mode' = m_mode /\ m_write_count' = (m_write_count \/ FALSE)
      BY <1>1 DEF Deselect, ModeAfter, Writing, QuadReads, DualReads
    <3>3. QED
      BY <1>1, <3>1, <3>2 DEF Flags
  <2>2. WIP \in m_sreg' => m_write_count' /\ WEL \notin m_sreg'
    <3>1. CASE m_state \in Writing
      <4>1. m_sreg' = (m_sreg \ {WEL}) \cup {WIP} /\ WEL # WIP
        BY <1>1, <3>1 DEF Deselect, Writing, WEL, WIP
      <4>2. m_write_count' = (m_write_count \/ m_state \in Writing \cup {"RELEASE"})
        BY <1>1 DEF Deselect
      <4>3. m_write_count'
        BY <3>1, <4>2, Zenon
      <4>4. QED
        BY <4>1, <4>3
    <3>2. CASE m_state \notin Writing
      <4>1. (WIP \in m_sreg' => WIP \in m_sreg) /\ (WEL \in m_sreg' => WEL \in m_sreg)
        BY <1>1, <3>2 DEF Deselect
      <4>2. m_write_count => m_write_count'
        BY <1>1 DEF Deselect
      <4>3. QED
        BY <1>1, <4>1, <4>2 DEF Flags
    <3>3. QED
      BY <3>1, <3>2
  <2>3. m_state' \notin Writing
    BY <1>1 DEF Deselect, Writing, QuadReads, DualReads
  <2>4. QED
    BY <1>3, <2>1, <2>2, <2>3 DEF Flags, Writing
<1>8. AddressFollows' /\ HostReadsMemory'
  <2>1. ~Addressed' /\ host'.op \notin Reads' /\ Header' = 1
    BY <1>3, OpsAreCommands DEF Addressed, Header, Programs, Reads
  <2>2. ~(host'.n >= Header')
    BY <1>3, <2>1
  <2>3. QED
    BY <2>1, <2>2 DEF AddressFollows, HostReadsMemory
<1>9. QED
  BY <1>2, <1>4, <1>5, <1>6, <1>7, <1>8 DEF HostInv

\* The write timer runs out.
LEMMA HostWriteEnds ==
    ASSUME HostInv, WriteEnds, UNCHANGED host
    PROVE  HostInv'
<1>1. /\ m_write_count /\ ~m_write_count' /\ m_sreg' = m_sreg \cap 2 .. 7 /\ UNCHANGED host
      /\ UNCHANGED <<m_state, m_mode, m_mem, m_addr, m_mode_byte>>
      /\ UNCHANGED <<m_ireg, m_oreg, m_count, aborted>>
  BY DEF WriteEnds, shifter
<1>2. HostTypeOK /\ ~aborted /\ m_count = 8 * host.n /\ Flags /\ CommandTaken /\ AddressFollows
  BY DEF HostInv
<1>3. FlashTypeOK'
  BY WriteEndsTypes DEF HostInv
<1>4. HostTypeOK'
  BY <1>1, <1>2 DEF HostTypeOK, Address, NoTransfer
<1>5. host.op \in Registers \cup {Release, -1} /\ DPD \notin m_sreg
  BY <1>1, <1>2 DEF Flags
<1>6. host.op \notin Reads /\ host.op \notin {102, Continuous}
  BY <1>5 DEF Registers, Reads, ReadStatus, ReadConfig, ReadID, Release, Read, FastRead, DualIO, QuadIO, Continuous
<1>7. m_state \notin Writing \ {"WRSR"}
  <2>1. CASE host.n = 0
    BY <1>2, <1>6, <2>1 DEF CommandTaken, OneLaneRest, LaneIdle, Resting, Writing, QuadReads, DualReads
  <2>2. CASE host.n # 0
    <3>1. m_state \in StateOf(host.op) /\ host.op # -1
      BY <1>2, <1>5, <1>6, <2>2 DEF CommandTaken, HostTypeOK, NoTransfer
    <3>2. StateOf(host.op) \subseteq {"RDSR", "RDCR", "RDID", "RELEASE"}
      BY <1>5, <3>1 DEF StateOf, Registers, WriteCommands, WriteStatus, PageProgram,
           QuadProgram, SectorErase, BulkErase, Read,
           FastRead, DualIO, QuadIO, ReadStatus, ReadConfig, ReadID, ClearStatus, Release, PowerDown,
           WriteEnable, WriteDisable
    <3>3. QED
      BY <3>1, <3>2 DEF Writing
  <2>3. QED
    BY <2>1, <2>2
<1>8. CommandTaken'
  <2>1. Header' = Header /\ ModeOf' = ModeOf
    BY <1>1 DEF Header, ModeOf
  <2>2. OneLaneRest' = OneLaneRest /\ LaneIdle' = LaneIdle
    BY <1>1 DEF OneLaneRest, LaneIdle, StaysContinuous
  <2>3. QED
    BY <1>1, <1>2, <1>5, <1>6, <2>1, <2>2 DEF CommandTaken
<1>9. Flags'
  BY <1>1, <1>5, <1>7 DEF Flags, DPD, WIP, Writing
<1>10. AddressFollows' /\ HostReadsMemory'
  <2>1. Header' = Header /\ Addressed' = Addressed /\ Address' = Address /\ Reads' = Reads
    BY <1>1 DEF Header, Addressed, Address, Reads
  <2>2. QED
    BY <1>1, <1>2, <1>6, <2>1 DEF AddressFollows, HostReadsMemory
<1>11. QED
  BY <1>1, <1>2, <1>3, <1>4, <1>8, <1>9, <1>10 DEF HostInv

LEMMA HostBegins ==
    ASSUME FlashInit, host = NoTransfer
    PROVE  HostInv
<1>1. FlashTypeOK
  BY InitTypes
<1>2. host.op = -1 /\ host.addr = 0 /\ host.n = 0
  BY DEF NoTransfer
<1>3. HostTypeOK
  <2>1. 0 \in Address /\ -1 # SectorErase
    BY GeometryAssumption DEF Address, SectorErase
  <2>2. QED
    BY <1>2, <2>1 DEF HostTypeOK, NoTransfer
<1>4. CommandTaken
  <2>1. OneLaneRest
    BY DEF OneLaneRest, FlashInit, Resting, QuadReads, DualReads
  <2>2. QED
    BY <1>2, <2>1, OpsAreCommands DEF CommandTaken
<1>5. Flags /\ ~aborted /\ m_count = 8 * host.n
  BY <1>2 DEF FlashInit, Flags, DPD, WIP, WEL, Writing
<1>6. AddressFollows /\ HostReadsMemory
  <2>1. ~Addressed /\ host.op \notin Reads /\ Header = 1
    BY <1>2, OpsAreCommands DEF Addressed
  <2>2. ~(host.n >= Header)
    BY <1>2, <2>1
  <2>3. QED
    BY <2>1, <2>2 DEF AddressFollows, HostReadsMemory
<1>7. QED
  BY <1>1, <1>3, <1>4, <1>5, <1>6 DEF HostInv

LEMMA HostSteps ==
    ASSUME HostInv, HostNext
    PROVE  HostInv'
BY HostStarts, HostBytes, HostEnds, HostWriteEnds DEF HostNext

-----------------------------------------------------------------------------
(* The XIP controller and the flash, clock by clock.                       *)

\* The low k digits of a number, those from the k-th on, and the k-th.
Low(k, x) == x % Pow(16, k)
High(k, x) == x \div Pow(16, k)
Digit(k, x) == High(k, x) % 16

\* The clocks of the phase up to now, this one included.
Sent == phase_tick \div 2 + 1

\* Deselected: nothing of a command is in the shift register.
Quiet == m_count = 0 /\ m_ireg = 0 /\ m_last_sck = 1

\* The flash waits for a command on one lane, or for an address on four.
SpiReady ==
    /\ m_mode = "SPI" /\ m_state \in {"IDLE", "QUAD_READ_CMD", "QUAD_READ"}
    /\ m_state # "IDLE" => ~StaysContinuous

QuadIdle == m_mode = "QSPI" /\ m_state = "QUAD_READ_IDLE" /\ StaysContinuous

\* The read is running: the first one began with a command, the others with the address.
Base == IF is_first THEN 8 ELSE 0
QuadRead == m_mode = "QSPI" /\ m_state = (IF is_first THEN "QUAD_READ_CMD" ELSE "QUAD_READ")

\* A command on one lane: its high bits have arrived.
OneLane(byte) == m_count = Sent /\ m_ireg = byte \div Pow(2, 8 - Sent)

\* Reset left the flash in continuous mode: it takes 0x66 for an address and a mode
\* byte that ends the mode.
Misread ==
    /\ m_mode = "QSPI" /\ m_count = 4 * Sent /\ m_ireg % 16 = CommandBit(102)
    /\ IF Sent < 6 THEN QuadIdle
       ELSE m_state = "QUAD_READ" /\ (StaysContinuous <=> Sent < 8)

FlashFollows ==
    CASE state = "IDLE"    -> Quiet /\ (QuadIdle \/ (is_first /\ SpiReady))
      [] state = "CMD_66"  -> is_first /\ ((SpiReady /\ OneLane(102)) \/ Misread)
      [] state \in {"WAIT_66", "TRST_WAIT"} -> is_first /\ Quiet /\ SpiReady
      [] state = "CMD_99"  -> is_first /\ SpiReady /\ OneLane(153)
      [] state = "CMD_EB"  ->
            /\ is_first /\ OneLane(235)
            /\ IF Sent < 8 THEN SpiReady ELSE QuadRead
      [] state = "ADDR" ->
            /\ m_count = Base + 4 * Sent /\ Low(Sent, m_ireg) = High(6 - Sent, A)
            /\ IF is_first \/ Sent = 6 THEN QuadRead ELSE QuadIdle
            /\ Sent = 6 => m_addr = A
      [] state = "MODE" ->
            /\ m_count = Base + 24 + 4 * Sent /\ QuadRead /\ m_addr = A
            /\ IF Sent = 1 THEN m_ireg % 16 = 10 ELSE m_mode_byte = 160
      [] state = "DUMMY" ->
            /\ m_count = Base + 32 + 4 * Sent /\ QuadRead /\ m_mode_byte = 160
            /\ IF Sent < 4 THEN m_addr = A ELSE m_addr = A + 1 /\ m_oreg % 256 = m_mem[A]
      [] state = "DATA" ->
            /\ m_count = Base + 48 + 4 * Sent /\ QuadRead /\ m_mode_byte = 160
            /\ LET a == A + phase_tick \div 4
               IN  IF phase_tick % 4 < 2 THEN m_addr = a + 1 /\ m_oreg = m_mem[a] * 16
                   ELSE /\ m_addr = a + 2 /\ m_oreg \div 256 = m_mem[a] % 16
                        /\ a + 1 \in Address => m_oreg % 256 = m_mem[a + 1]
      [] state = "DONE_WAIT" -> ~is_first /\ Quiet /\ QuadIdle

\* The first k bytes of the line are in.
Collected(k) ==
    /\ word_done = {w \in 0 .. (LineBytes \div 4) - 1 : 4 * w + 4 <= k}
    /\ \A i \in 0 .. k - 1 : data_reg[i] = m_mem[A + i]

LineFollows ==
    /\ state # "IDLE" => ~done_reg
    /\ CASE state = "IDLE" -> byte_idx = 0 /\ (Collected(LineBytes) \/ (word_done = {} /\ ~done_reg))
         [] state = "DATA" ->
               /\ byte_idx = phase_tick \div 4 /\ Collected(byte_idx)
               /\ phase_tick % 4 >= 2 => dbyte = m_mem[A + byte_idx] \div 16
         [] state = "DONE_WAIT" -> byte_idx = 0 /\ Collected(LineBytes)
         [] OTHER -> byte_idx = 0 /\ word_done = {}

FetchInv ==
    /\ FlashTypeOK /\ CtrlTypeOK /\ A \in Nat
    /\ state # "IDLE" => A \in Lines
    /\ m_sreg = {2, 3, 4} /\ ~m_write_count /\ ~aborted /\ host = NoTransfer
    /\ state \notin {"IDLE", "WAIT_66", "TRST_WAIT", "DONE_WAIT"} => m_last_sck = phase_tick % 2
    /\ FlashFollows /\ LineFollows

-----------------------------------------------------------------------------
(* What the registers of the flash hold while the controller sends.        *)

\* A clock on one lane and on four.
Bits23 == 8388608
Digits5 == 1048576
OneMore(x, bit) == (x % Bits23) * 2 + bit
FourMore(x, d) == (x % Digits5) * 16 + d

Commands == {102, 153, 235}

LEMMA SmallShift ==
    ASSUME NEW x \in 0 .. 255, NEW bit
    PROVE  OneMore(x, bit) = x * 2 + bit
<1>1. PICK m \in Nat \ {0} : m = Bits23 /\ x < m
  BY SMT DEF Bits23
<1>2. x % Bits23 = x
  BY <1>1, SmallRemainder
<1>3. QED
  BY <1>2 DEF OneMore

\* A command arrives bit by bit.
LEMMA CommandBits ==
    ASSUME NEW byte \in Commands, NEW s \in 1 .. 7, NEW x, x = byte \div Pow(2, 8 - s)
    PROVE  OneMore(x, (byte \div Pow(2, 7 - s)) % 2) = byte \div Pow(2, 8 - (s + 1))
<1>1. byte \in Nat /\ byte < 256
  BY DEF Commands
<1>2. SUFFICES OneMore(x, (byte \div Pow(2, 7 - s)) % 2) = byte \div Pow(2, 7 - s)
  <2>1. 8 - (s + 1) = 7 - s
    OBVIOUS
  <2>2. QED
    BY <2>1
<1>3. CASE s = 1
  <2>1. Pow(2, 8 - s) = 128 /\ Pow(2, 7 - s) = 64
    BY <1>3, PowValues
  <2>2. byte \div 128 \in 0 .. 255 /\ (byte \div 128) * 2 + ((byte \div 64) % 2) = byte \div 64
    BY <1>1
  <2>3. QED
    BY <2>1, <2>2, SmallShift
<1>4. CASE s = 2
  <2>1. Pow(2, 8 - s) = 64 /\ Pow(2, 7 - s) = 32
    BY <1>4, PowValues
  <2>2. byte \div 64 \in 0 .. 255 /\ (byte \div 64) * 2 + ((byte \div 32) % 2) = byte \div 32
    BY <1>1
  <2>3. QED
    BY <2>1, <2>2, SmallShift
<1>5. CASE s = 3
  <2>1. Pow(2, 8 - s) = 32 /\ Pow(2, 7 - s) = 16
    BY <1>5, PowValues
  <2>2. byte \div 32 \in 0 .. 255 /\ (byte \div 32) * 2 + ((byte \div 16) % 2) = byte \div 16
    BY <1>1
  <2>3. QED
    BY <2>1, <2>2, SmallShift
<1>6. CASE s = 4
  <2>1. Pow(2, 8 - s) = 16 /\ Pow(2, 7 - s) = 8
    BY <1>6, PowValues
  <2>2. byte \div 16 \in 0 .. 255 /\ (byte \div 16) * 2 + ((byte \div 8) % 2) = byte \div 8
    BY <1>1
  <2>3. QED
    BY <2>1, <2>2, SmallShift
<1>7. CASE s = 5
  <2>1. Pow(2, 8 - s) = 8 /\ Pow(2, 7 - s) = 4
    BY <1>7, PowValues
  <2>2. byte \div 8 \in 0 .. 255 /\ (byte \div 8) * 2 + ((byte \div 4) % 2) = byte \div 4
    BY <1>1
  <2>3. QED
    BY <2>1, <2>2, SmallShift
<1>8. CASE s = 6
  <2>1. Pow(2, 8 - s) = 4 /\ Pow(2, 7 - s) = 2
    BY <1>8, PowValues
  <2>2. byte \div 4 \in 0 .. 255 /\ (byte \div 4) * 2 + ((byte \div 2) % 2) = byte \div 2
    BY <1>1
  <2>3. QED
    BY <2>1, <2>2, SmallShift
<1>9. CASE s = 7
  <2>1. Pow(2, 8 - s) = 2 /\ Pow(2, 7 - s) = 1
    BY <1>9, PowValues
  <2>2. byte \div 2 \in 0 .. 255 /\ (byte \div 2) * 2 + ((byte \div 1) % 2) = byte \div 1
    BY <1>1
  <2>3. QED
    BY <2>1, <2>2, SmallShift
<1>10. QED
  BY <1>3, <1>4, <1>5, <1>6, <1>7, <1>8, <1>9

LEMMA PowDigits == Pow(16, 5) = Digits5 /\ Digits5 \in Nat \ {0}
BY SMT DEF Pow, Digits5

LEMMA LowStep ==
    ASSUME NEW k \in 1 .. 5, NEW x \in Nat, NEW d \in 0 .. 15
    PROVE  Low(k + 1, FourMore(x, d)) = Low(k, x) * 16 + d
<1>1. PICK y \in Nat : y < Digits5 /\ y = x % Digits5
  BY SMT DEF Digits5
<1>2. FourMore(x, d) = y * 16 + d
  BY <1>1 DEF FourMore
<1>3. CASE k = 1
  <2>1. Low(k + 1, y * 16 + d) = (y * 16 + d) % 256 /\ Low(k, x) = x % 16
    BY <1>3, PowValues, SMT DEF Low
  <2>2. y % 16 = x % 16
    BY <1>1, SMT DEF Digits5
  <2>3. (y * 16 + d) % 256 = (y % 16) * 16 + d
    BY <1>1, SMT DEF Digits5
  <2>4. QED
    BY <1>2, <2>1, <2>2, <2>3, SMT
<1>4. CASE k = 2
  <2>1. Low(k + 1, y * 16 + d) = (y * 16 + d) % 4096 /\ Low(k, x) = x % 256
    BY <1>4, PowValues, SMT DEF Low
  <2>2. y % 256 = x % 256
    BY <1>1, SMT DEF Digits5
  <2>3. (y * 16 + d) % 4096 = (y % 256) * 16 + d
    BY <1>1, SMT DEF Digits5
  <2>4. QED
    BY <1>2, <2>1, <2>2, <2>3, SMT
<1>5. CASE k = 3
  <2>1. Low(k + 1, y * 16 + d) = (y * 16 + d) % 65536 /\ Low(k, x) = x % 4096
    BY <1>5, PowValues, SMT DEF Low
  <2>2. y % 4096 = x % 4096
    BY <1>1, SMT DEF Digits5
  <2>3. (y * 16 + d) % 65536 = (y % 4096) * 16 + d
    BY <1>1, SMT DEF Digits5
  <2>4. QED
    BY <1>2, <2>1, <2>2, <2>3, SMT
<1>6. CASE k = 4
  <2>1. Low(k + 1, y * 16 + d) = (y * 16 + d) % Digits5 /\ Low(k, x) = x % 65536
    BY <1>6, PowValues, PowDigits, SMT DEF Low
  <2>2. y % 65536 = x % 65536
    BY <1>1, SMT DEF Digits5
  <2>3. (y * 16 + d) % Digits5 = (y % 65536) * 16 + d
    BY <1>1, SMT DEF Digits5
  <2>4. QED
    BY <1>2, <2>1, <2>2, <2>3, SMT
<1>7. CASE k = 5
  <2>1. Low(k + 1, y * 16 + d) = (y * 16 + d) % Pow(16, 6) /\ Low(k, x) = y
    BY <1>1, <1>7, PowDigits, SMT DEF Low
  <2>2. PICK m \in Nat \ {0} : m = Pow(16, 6) /\ y * 16 + d < m
    BY <1>1, PowValues, SMT DEF Digits5
  <2>3. y * 16 + d \in 0 .. m - 1
    BY <1>1, <2>2
  <2>4. (y * 16 + d) % m = y * 16 + d
    BY <2>2, <2>3, SmallRemainder
  <2>5. QED
    BY <1>2, <2>1, <2>2, <2>4
<1>8. QED
  BY <1>3, <1>4, <1>5, <1>6, <1>7

LEMMA HighStep ==
    ASSUME NEW k \in 0 .. 4, NEW a \in Nat
    PROVE  High(k, a) = High(k + 1, a) * 16 + Digit(k, a) /\ Digit(k, a) \in 0 .. 15
<1>1. High(k, a) \in Nat /\ Digit(k, a) \in 0 .. 15
  <2>1. PICK m \in Nat \ {0} : m = Pow(16, k)
    BY PowValues
  <2>2. a \div m \in Nat
    BY <2>1
  <2>3. High(k, a) \in Nat
    BY <2>1, <2>2 DEF High
  <2>4. QED
    BY <2>3 DEF Digit
<1>2. CASE k = 0
  <2>1. High(k, a) = a /\ High(k + 1, a) = a \div 16
    BY <1>2, PowValues, SMT DEF High
  <2>2. a = (a \div 16) * 16 + (a % 16)
    BY SMT
  <2>3. QED
    BY <1>1, <2>1, <2>2, SMT DEF Digit
<1>3. CASE k = 1
  <2>1. High(k, a) = a \div 16 /\ High(k + 1, a) = a \div 256
    BY <1>3, PowValues, SMT DEF High
  <2>2. a \div 16 = (a \div 256) * 16 + ((a \div 16) % 16)
    BY SMT
  <2>3. QED
    BY <1>1, <2>1, <2>2, SMT DEF Digit
<1>4. CASE k = 2
  <2>1. High(k, a) = a \div 256 /\ High(k + 1, a) = a \div 4096
    BY <1>4, PowValues, SMT DEF High
  <2>2. a \div 256 = (a \div 4096) * 16 + ((a \div 256) % 16)
    BY SMT
  <2>3. QED
    BY <1>1, <2>1, <2>2, SMT DEF Digit
<1>5. CASE k = 3
  <2>1. High(k, a) = a \div 4096 /\ High(k + 1, a) = a \div 65536
    BY <1>5, PowValues, SMT DEF High
  <2>2. a \div 4096 = (a \div 65536) * 16 + ((a \div 4096) % 16)
    BY SMT
  <2>3. QED
    BY <1>1, <2>1, <2>2, SMT DEF Digit
<1>6. CASE k = 4
  <2>1. High(k, a) = a \div 65536 /\ High(k + 1, a) = a \div Digits5
    BY <1>6, PowValues, PowDigits, SMT DEF High
  <2>2. a \div 65536 = (a \div Digits5) * 16 + ((a \div 65536) % 16)
    BY SMT DEF Digits5
  <2>3. QED
    BY <1>1, <2>1, <2>2, SMT DEF Digit
<1>7. QED
  BY <1>2, <1>3, <1>4, <1>5, <1>6

\* The address is sent from its high digit on.
LEMMA AddressNibbles ==
    ASSUME NEW a \in Nat, NEW x \in Nat, NEW s \in 1 .. 5, Low(s, x) = High(6 - s, a)
    PROVE  Low(s + 1, FourMore(x, Digit(5 - s, a))) = High(5 - s, a)
<1>1. Digit(5 - s, a) \in 0 .. 15 /\ High(5 - s, a) = High(6 - s, a) * 16 + Digit(5 - s, a)
  <2>1. PICK k \in 0 .. 4 : k = 5 - s
    OBVIOUS
  <2>2. k + 1 = 6 - s
    BY <2>1
  <2>3. QED
    BY <2>1, <2>2, HighStep
<1>2. Low(s + 1, FourMore(x, Digit(5 - s, a))) = Low(s, x) * 16 + Digit(5 - s, a)
  BY <1>1, LowStep
<1>3. QED
  BY <1>1, <1>2

-----------------------------------------------------------------------------
(* One clock of the flash, in the states a fetch meets.                    *)

\* No write was ever enabled.
Calm == FlashTypeOK /\ m_sreg = {2, 3, 4} /\ ~m_write_count /\ ~aborted

\* What a clock of a fetch leaves alone.
Keeps == FlashTypeOK' /\ UNCHANGED <<m_sreg, m_mem, m_write_count, aborted>>

\* A clock that shifts.
Clocked(d) == m_last_sck' = 0 /\ Shift(Lanes, d)

LEMMA CalmKeeps ==
    ASSUME Calm, Keeps
    PROVE  Calm'
BY DEF Calm, Keeps

LEMMA ShiftOne ==
    ASSUME NEW d, Shift(1, d)
    PROVE  Process(OneMore(m_ireg, d), m_count + 1, (m_oreg * 2) % 4096)
<1>1. Pow(2, 24 - 1) = Bits23 /\ Pow(2, 1) = 2 /\ Pow(2, 12) = 4096
  <2>1. Pow(2, 24 - 1) = Bits23
    <3>1. 24 - 1 = 23
      OBVIOUS
    <3>2. QED
      BY <3>1, PowValues, SMT DEF Bits23
  <2>2. Pow(2, 1) = 2 /\ Pow(2, 12) = 4096
    BY DEF Pow
  <2>3. QED
    BY <2>1, <2>2
<1>2. Process((m_ireg % Pow(2, 24 - 1)) * Pow(2, 1) + d, m_count + 1, (m_oreg * Pow(2, 1)) % Pow(2, 12))
  BY PowIs DEF Shift
<1>3. QED
  BY <1>1, <1>2 DEF OneMore

LEMMA ShiftFour ==
    ASSUME NEW d, Shift(4, d)
    PROVE  Process(FourMore(m_ireg, d), m_count + 4, (m_oreg * 16) % 4096)
<1>1. Pow(2, 24 - 4) = Digits5 /\ Pow(2, 4) = 16 /\ Pow(2, 12) = 4096
  <2>1. Pow(2, 24 - 4) = Digits5
    <3>1. 24 - 4 = 20
      OBVIOUS
    <3>2. QED
      BY <3>1, PowValues, SMT DEF Digits5
  <2>2. Pow(2, 4) = 16 /\ Pow(2, 12) = 4096
    BY DEF Pow
  <2>3. QED
    BY <2>1, <2>2
<1>2. Process((m_ireg % Pow(2, 24 - 4)) * Pow(2, 4) + d, m_count + 4, (m_oreg * Pow(2, 4)) % Pow(2, 12))
  BY PowIs DEF Shift
<1>3. QED
  BY <1>1, <1>2 DEF FourMore

\* A clock with no byte complete.
LEMMA PlainClock ==
    ASSUME NEW ireg, NEW count, NEW oreg, Process(ireg, count, oreg), count % 8 # 0, count # 8,
           m_state \notin {"QUAD_READ_IDLE", "DUAL_READ_IDLE"}
    PROVE  /\ m_ireg' = ireg /\ m_count' = count /\ m_oreg' = oreg
           /\ UNCHANGED <<m_state, m_mode, m_sreg, m_mem, m_addr, m_mode_byte, m_write_count, aborted>>
BY DEF Process, registers

\* One lane: a bit of a command.
LEMMA OneLaneShifts ==
    ASSUME Calm, SpiReady, NEW d \in {0, 1}, Clocked(d)
    PROVE  /\ Process(OneMore(m_ireg, d), m_count + 1, (m_oreg * 2) % 4096)
           /\ FlashTypeOK' /\ m_state \notin {"QUAD_READ_IDLE", "DUAL_READ_IDLE"}
<1>1. Lanes = 1 /\ m_state \notin {"QUAD_READ_IDLE", "DUAL_READ_IDLE"}
  BY DEF SpiReady, Lanes
<1>2. Process(OneMore(m_ireg, d), m_count + 1, (m_oreg * 2) % 4096) /\ Shift(1, d)
  BY <1>1, ShiftOne DEF Clocked
<1>3. FlashTypeOK'
  <2>1. d \in 0 .. 2^1 - 1
    OBVIOUS
  <2>2. m_last_sck' \in {0, 1} /\ FlashTypeOK /\ 1 \in {1, 2, 4, 8}
    BY DEF Clocked, Calm
  <2>3. QED
    BY <1>2, <2>1, <2>2, ShiftTypes
<1>4. QED
  BY <1>1, <1>2, <1>3

LEMMA BitClock ==
    ASSUME Calm, SpiReady, NEW d \in {0, 1}, Clocked(d), m_count \in 0 .. 6
    PROVE  /\ Keeps /\ m_count' = m_count + 1 /\ m_ireg' = OneMore(m_ireg, d)
           /\ UNCHANGED <<m_state, m_mode, m_addr, m_mode_byte>>
<1>1. (m_count + 1) % 8 # 0 /\ m_count + 1 # 8
  OBVIOUS
<1>2. QED
  BY <1>1, OneLaneShifts, PlainClock DEF Keeps

\* The last bit of a command.
LEMMA CommandClock ==
    ASSUME Calm, SpiReady, NEW d \in {0, 1}, Clocked(d), m_count = 7,
           NEW byte \in Commands, OneMore(m_ireg, d) = byte
    PROVE  /\ Keeps /\ m_count' = 8 /\ m_ireg' = byte
           /\ UNCHANGED <<m_addr, m_mode_byte>>
           /\ IF byte = 235 THEN m_state' = "QUAD_READ_CMD" /\ m_mode' = "QSPI"
              ELSE UNCHANGED <<m_state, m_mode>>
<1>1. byte % 256 = byte
  BY DEF Commands
<1>2. /\ m_ireg' = byte /\ m_count' = 8 /\ Command(byte % 256, (m_oreg * 2) % 4096)
      /\ FlashTypeOK'
  BY OneLaneShifts, SMT DEF Process
<1>3. PICK oreg : Command(byte, oreg)
  BY <1>1, <1>2
<1>4. DPD \notin m_sreg
  BY DEF Calm, DPD
<1>5. UNCHANGED <<m_mem, m_addr, m_mode_byte, aborted>>
  BY <1>3 DEF Command
<1>6. UNCHANGED m_sreg
  BY <1>3, <1>4 DEF Command, Commands, WriteEnable, WriteDisable, Release, PowerDown
<1>7. UNCHANGED m_write_count
  <2>1. byte # Release
    BY DEF Commands, Release
  <2>2. m_write_count' = (m_write_count \/ (byte = Release /\ DPD \in m_sreg))
    BY <1>3, <1>4 DEF Command
  <2>3. m_write_count' = FALSE /\ m_write_count = FALSE
    BY <2>1, <2>2, Zenon DEF Calm, FlashTypeOK
  <2>4. QED
    BY <2>3
<1>8. CASE byte = 235
  BY <1>2, <1>3, <1>4, <1>5, <1>6, <1>7, <1>8
     DEF Keeps, Command, CommandState, WriteStatus, PageProgram, QuadProgram, SectorErase, BulkErase,
         Read, FastRead, DualIO, QuadIO, ReadStatus, ReadConfig, ReadID, ClearStatus, Release,
         PowerDown, WriteEnable, WriteDisable
<1>9. CASE byte # 235
  <2>1. m_state' = CommandState(byte)
    BY <1>3, <1>4 DEF Command
  <2>2. CommandState(byte) = m_state
    BY <1>9 DEF Commands, CommandState, WriteStatus, PageProgram, QuadProgram, SectorErase, BulkErase,
         Read, FastRead, DualIO, QuadIO, ReadStatus, ReadConfig, ReadID, ClearStatus, Release,
         PowerDown, WriteEnable, WriteDisable
  <2>3. UNCHANGED m_mode
    BY <1>3, <1>4, <1>9 DEF Command, Commands, DualIO, QuadIO
  <2>4. QED
    BY <1>2, <1>5, <1>6, <1>7, <1>9, <2>1, <2>2, <2>3 DEF Keeps
<1>10. QED
  BY <1>8, <1>9

\* Four lanes.
LEMMA FourLanesShift ==
    ASSUME Calm, m_mode = "QSPI", NEW d \in 0 .. 15, Clocked(d)
    PROVE  /\ Process(FourMore(m_ireg, d), m_count + 4, (m_oreg * 16) % 4096) /\ FlashTypeOK'
           /\ m_ireg' = FourMore(m_ireg, d) /\ m_count' = m_count + 4
<1>1. Lanes = 4
  BY DEF Lanes
<1>2. Process(FourMore(m_ireg, d), m_count + 4, (m_oreg * 16) % 4096) /\ Shift(4, d)
  BY <1>1, ShiftFour DEF Clocked
<1>3. d \in 0 .. 2^4 - 1
  OBVIOUS
<1>4. m_last_sck' \in {0, 1} /\ FlashTypeOK /\ 4 \in {1, 2, 4, 8}
  BY DEF Clocked, Calm
<1>5. FlashTypeOK'
  BY <1>2, <1>3, <1>4, ShiftTypes
<1>6. QED
  BY <1>2, <1>5 DEF Process

\* In continuous mode the sixth of them completes an address.
LEMMA AddressClock ==
    ASSUME Calm, QuadIdle, NEW d \in 0 .. 15, Clocked(d)
    PROVE  /\ Keeps /\ m_count' = m_count + 4 /\ m_ireg' = FourMore(m_ireg, d)
           /\ UNCHANGED <<m_mode, m_mode_byte>>
           /\ IF m_count' = 24 THEN m_state' = "QUAD_READ" /\ m_addr' = m_ireg' % MemBytes
              ELSE UNCHANGED <<m_state, m_addr>>
<1>1. m_mode = "QSPI" /\ m_state = "QUAD_READ_IDLE" /\ DPD \notin m_sreg
  BY DEF QuadIdle, Calm, DPD
<1>2. m_ireg' = FourMore(m_ireg, d) /\ m_count' = m_count + 4 /\ FlashTypeOK'
  BY <1>1, FourLanesShift
<1>3. ContinuousAddress(FourMore(m_ireg, d), m_count + 4)
  BY <1>1, FourLanesShift DEF Process
<1>4. ContinuousAddress(m_ireg', m_count')
  BY <1>2, <1>3
<1>5. UNCHANGED <<m_mode, m_sreg, m_mem, m_mode_byte, m_write_count>>
  BY <1>4 DEF ContinuousAddress, registers
<1>6. ~aborted'
  <2>1. aborted' = \/ DPD \in m_sreg
                   \/ m_mode # (IF m_state = "QUAD_READ_IDLE" THEN "QSPI" ELSE "DSPI")
    BY <1>4 DEF ContinuousAddress
  <2>2. QED
    BY <1>1, <2>1
<1>7. IF m_count' = 24 THEN m_state' = "QUAD_READ" /\ m_addr' = m_ireg' % MemBytes
      ELSE UNCHANGED <<m_state, m_addr>>
  BY <1>1, <1>4 DEF ContinuousAddress
<1>8. aborted' = aborted
  BY <1>2, <1>6 DEF Calm, FlashTypeOK
<1>9. QED
  BY <1>2, <1>5, <1>7, <1>8 DEF Keeps

\* The clocks of a quad read: half of them complete no byte.
Reads4 == m_mode = "QSPI" /\ m_state \in QuadReads

LEMMA HalfClock ==
    ASSUME Calm, Reads4, NEW d \in 0 .. 15, Clocked(d), (m_count + 4) % 8 # 0
    PROVE  /\ Keeps /\ m_count' = m_count + 4 /\ m_ireg' = FourMore(m_ireg, d)
           /\ UNCHANGED <<m_state, m_mode, m_addr, m_mode_byte>>
           /\ m_oreg' = (m_oreg * 16) % 4096
<1>1. m_mode = "QSPI" /\ m_state \notin {"QUAD_READ_IDLE", "DUAL_READ_IDLE"}
  BY DEF Reads4, QuadReads
<1>2. m_count + 4 # 8
  BY DEF Calm, FlashTypeOK
<1>3. QED
  BY <1>1, <1>2, FourLanesShift, PlainClock DEF Keeps

LEMMA ByteClock ==
    ASSUME Calm, Reads4, NEW d \in 0 .. 15, Clocked(d), m_count > 4, (m_count + 4) % 8 = 0
    PROVE  /\ Keeps /\ m_count' = m_count + 4 /\ m_ireg' = FourMore(m_ireg, d)
           /\ UNCHANGED <<m_state, m_mode>>
           /\ ReadByte(m_ireg', m_count', (m_oreg * 16) % 4096)
<1>1. m_mode = "QSPI" /\ m_state \notin {"QUAD_READ_IDLE", "DUAL_READ_IDLE"} /\ m_state \in Reading
  BY DEF Reads4, QuadReads, Reading
<1>2. m_ireg' = FourMore(m_ireg, d) /\ m_count' = m_count + 4 /\ FlashTypeOK'
  BY <1>1, FourLanesShift
<1>3. m_count' # 8 /\ m_count' % 8 = 0
  BY <1>2 DEF Calm, FlashTypeOK
<1>4. Process(m_ireg', m_count', (m_oreg * 16) % 4096)
  BY <1>1, <1>2, FourLanesShift
<1>5. PICK oreg : oreg = (m_oreg * 16) % 4096 /\ Process(m_ireg', m_count', oreg)
  BY <1>4
<1>6. DataByte(m_ireg', m_count', oreg)
  BY <1>1, <1>3, <1>5 DEF Process
<1>7. m_state \notin {"PP", "QPP", "SECTOR_ERASE", "WRSR"}
  BY DEF Reads4, QuadReads
<1>8. ReadByte(m_ireg', m_count', oreg) /\ UNCHANGED <<m_mem, m_write_count>>
  BY <1>1, <1>6, <1>7 DEF DataByte, ProgramByte, EraseByte, StatusByteIn, AnswerByte
<1>9. UNCHANGED <<m_state, m_mode, m_sreg, aborted>>
  BY <1>8 DEF ReadByte, registers
<1>10. QED
  BY <1>2, <1>5, <1>8, <1>9 DEF Keeps

\* The end of a transfer: the flash rests on one lane, or in continuous mode.
LEMMA FetchDeselect ==
    ASSUME Calm, SpiReady \/ QuadIdle \/ Reads4, Deselect
    PROVE  /\ Keeps /\ Quiet'
           /\ SpiReady' \/ QuadIdle'
           /\ Reads4 /\ StaysContinuous => QuadIdle'
           /\ QuadIdle => QuadIdle'
           /\ SpiReady => SpiReady'
           /\ Reads4 /\ ~StaysContinuous => SpiReady'
<1>1. m_state \in {"IDLE", "QUAD_READ_CMD", "QUAD_READ", "QUAD_READ_IDLE"}
  BY DEF SpiReady, QuadIdle, Reads4, QuadReads
<1>2. m_state \notin Writing \cup {"RELEASE", "CLSR"} \cup DualReads \cup {"PP", "QPP", "SECTOR_ERASE", "BULK_ERASE"}
  BY <1>1 DEF Writing, DualReads
<1>3. UNCHANGED <<m_mem, m_sreg, m_mode_byte, aborted>>
  BY <1>2 DEF Deselect
<1>4. UNCHANGED m_write_count
  <2>1. m_write_count' = (m_write_count \/ m_state \in Writing \cup {"RELEASE"})
    BY DEF Deselect
  <2>2. m_write_count' = FALSE /\ m_write_count = FALSE
    BY <1>2, <2>1, Zenon DEF Calm, FlashTypeOK
  <2>3. QED
    BY <2>2
<1>5. Keeps /\ Quiet'
  BY <1>3, <1>4, DeselectTypes DEF Keeps, Calm, Quiet, Deselect
<1>6. StaysContinuous' = StaysContinuous
  BY <1>3 DEF StaysContinuous
<1>7. /\ m_state' = IF m_state \in QuadReads /\ StaysContinuous THEN "QUAD_READ_IDLE" ELSE m_state
      /\ m_mode' = IF m_state \in QuadReads /\ ~StaysContinuous THEN "SPI" ELSE m_mode
  BY <1>2 DEF Deselect, ModeAfter
<1>8. Reads4 /\ StaysContinuous => QuadIdle'
  BY <1>6, <1>7 DEF Reads4, QuadIdle
<1>9. QuadIdle => QuadIdle'
  BY <1>6, <1>7 DEF QuadIdle, QuadReads
<1>10. SpiReady => SpiReady'
  BY <1>6, <1>7 DEF SpiReady, QuadReads
<1>11. Reads4 /\ ~StaysContinuous => SpiReady'
  BY <1>6, <1>7 DEF SpiReady, Reads4, QuadReads
<1>12. QED
  BY <1>5, <1>8, <1>9, <1>10, <1>11

\* What the bytes of a quad read are for.
LEMMA AddressByteClock ==
    ASSUME Calm, Reads4, NEW d \in 0 .. 15, Clocked(d), m_state = "QUAD_READ_CMD", m_count = 28
    PROVE  m_addr' = m_ireg' % MemBytes /\ UNCHANGED m_mode_byte
<1>1. PICK oreg : ReadByte(m_ireg', 32, oreg)
  <2>1. (m_count + 4) % 8 = 0 /\ m_count > 4 /\ m_count + 4 = 32
    OBVIOUS
  <2>2. ReadByte(m_ireg', m_count', (m_oreg * 16) % 4096) /\ m_count' = 32
    BY <2>1, ByteClock
  <2>3. QED
    BY <2>2
<1>2. ~DataDue(32) /\ ~ModeByteDue(32)
  BY DEF DataDue, FirstDataAt, ModeByteDue, ModeByteAt
<1>3. QED
  BY <1>1, <1>2 DEF ReadByte, AddressAt

LEMMA ModeByteClock ==
    ASSUME Calm, Reads4, NEW d \in 0 .. 15, Clocked(d),
           m_count = IF m_state = "QUAD_READ_CMD" THEN 36 ELSE 28
    PROVE  m_mode_byte' = m_ireg' % 256 /\ UNCHANGED m_addr
<1>1. PICK count \in {32, 40} : m_count + 4 = count /\ (count = 40 <=> m_state = "QUAD_READ_CMD")
  OBVIOUS
<1>2. PICK oreg : ReadByte(m_ireg', count, oreg)
  <2>1. (m_count + 4) % 8 = 0 /\ m_count > 4
    OBVIOUS
  <2>2. ReadByte(m_ireg', m_count', (m_oreg * 16) % 4096) /\ m_count' = count
    BY <1>1, <2>1, ByteClock
  <2>3. QED
    BY <2>2
<1>3. m_state = (IF count = 40 THEN "QUAD_READ_CMD" ELSE "QUAD_READ")
  BY <1>1 DEF Reads4, QuadReads
<1>4. ~DataDue(count) /\ ModeByteDue(count)
  BY <1>3 DEF DataDue, FirstDataAt, ModeByteDue, ModeByteAt
<1>5. ~(count = AddressAt /\ m_state \notin {"DUAL_READ", "QUAD_READ"})
  BY <1>3 DEF AddressAt
<1>6. QED
  BY <1>2, <1>4, <1>5 DEF ReadByte

LEMMA OtherByteClock ==
    ASSUME Calm, Reads4, NEW d \in 0 .. 15, Clocked(d),
           m_count \in IF m_state = "QUAD_READ_CMD" THEN {12, 20, 44} ELSE {36}
    PROVE  UNCHANGED <<m_addr, m_mode_byte>>
<1>1. PICK count \in {16, 24, 40, 48} : m_count + 4 = count /\ (count # 40 <=> m_state = "QUAD_READ_CMD")
  OBVIOUS
<1>2. PICK oreg : ReadByte(m_ireg', count, oreg)
  <2>1. (m_count + 4) % 8 = 0 /\ m_count > 4
    BY <1>1
  <2>2. ReadByte(m_ireg', m_count', (m_oreg * 16) % 4096) /\ m_count' = count
    BY <1>1, <2>1, ByteClock
  <2>3. QED
    BY <2>2
<1>3. m_state = (IF count # 40 THEN "QUAD_READ_CMD" ELSE "QUAD_READ")
  BY <1>1 DEF Reads4, QuadReads
<1>4. ~DataDue(count) /\ ~ModeByteDue(count)
  BY <1>3 DEF DataDue, FirstDataAt, ModeByteDue, ModeByteAt
<1>5. ~(count = AddressAt /\ m_state \notin {"DUAL_READ", "QUAD_READ"})
  BY <1>3 DEF AddressAt
<1>6. QED
  BY <1>2, <1>4, <1>5 DEF ReadByte

LEMMA DataByteClock ==
    ASSUME Calm, Reads4, NEW d \in 0 .. 15, Clocked(d), (m_count + 4) % 8 = 0,
           m_count + 4 >= IF m_state = "QUAD_READ_CMD" THEN 56 ELSE 48
    PROVE  /\ m_addr' = m_addr + 1 /\ UNCHANGED m_mode_byte
           /\ m_oreg' \div 256 = ((m_oreg * 16) % 4096) \div 256
           /\ m_addr \in Address => m_oreg' % 256 = m_mem[m_addr]
<1>1. PICK count : m_count + 4 = count /\ count >= 48 /\ (m_state = "QUAD_READ_CMD" => count >= 56) /\ count \in Nat
  BY DEF Calm, FlashTypeOK
<1>2. PICK oreg \in 0 .. 2^12 - 1 : ReadByte(m_ireg', count, oreg) /\ oreg = (m_oreg * 16) % 4096
  <2>1. m_count > 4
    BY <1>1 DEF Calm, FlashTypeOK
  <2>2. ReadByte(m_ireg', m_count', (m_oreg * 16) % 4096) /\ m_count' = count
    BY <1>1, <2>1, ByteClock
  <2>3. (m_oreg * 16) % 4096 \in 0 .. 2^12 - 1
    BY DEF Calm, FlashTypeOK
  <2>4. QED
    BY <2>2, <2>3
<1>3. m_state \in {"QUAD_READ_CMD", "QUAD_READ"} /\ WIP \notin m_sreg
  BY DEF Reads4, QuadReads, Calm, WIP
<1>4. DataDue(count) /\ ~ModeByteDue(count)
  BY <1>1, <1>3 DEF DataDue, FirstDataAt, ModeByteDue, ModeByteAt
<1>5. ~(count = AddressAt /\ m_state \notin {"DUAL_READ", "QUAD_READ"})
  BY <1>1 DEF AddressAt
<1>6. m_addr' = m_addr + 1 /\ m_oreg' \in {QOREG(oreg, b) : b \in MemoryAt(m_addr)} /\ UNCHANGED m_mode_byte
  BY <1>2, <1>4, <1>5 DEF ReadByte
<1>7. PICK b \in MemoryAt(m_addr) : m_oreg' = QOREG(oreg, b)
  BY <1>6
<1>8. b \in Byte
  BY MemoryTypes DEF Calm
<1>9. m_oreg' % 256 = b /\ m_oreg' \div 256 = oreg \div 256
  BY <1>7, <1>8, OregTypes
<1>10. m_addr \in Address => b = m_mem[m_addr]
  BY DEF MemoryAt
<1>11. QED
  BY <1>2, <1>6, <1>9, <1>10

-----------------------------------------------------------------------------
(* One clock of the controller.                                            *)

Deselected == {"IDLE", "WAIT_66", "TRST_WAIT", "DONE_WAIT"}
ByteSent == [CMD_66 |-> 102, CMD_99 |-> 153, CMD_EB |-> 235]

\* A clock inside a fetch.
FetchStep ==
    /\ FetchInv /\ state # "IDLE"
    /\ CtrlClock(FALSE, 0, flash_di) /\ FlashCall(csn', sck', spi_do')

LEMMA TickTypes ==
    ASSUME CtrlTypeOK, state # "IDLE"
    PROVE  /\ state \in DOMAIN Ticks /\ phase_tick \in Nat /\ Ticks[state] \in Nat
           /\ phase_tick < Ticks[state]
           /\ state \notin Deselected => Ticks[state] % 2 = 0
<1>1. state \in DOMAIN Ticks /\ phase_tick \in Nat /\ phase_tick < Ticks[state]
  BY DEF CtrlTypeOK
<1>2. 4 * LineBytes \in Nat /\ (4 * LineBytes) % 2 = 0 /\ TRST_CYCLES \in Nat
  BY LineAssumption, TrstAssumption
<1>3. Ticks[state] \in Nat
  BY <1>1, <1>2 DEF Ticks
<1>4. state \notin Deselected => Ticks[state] % 2 = 0
  BY <1>1, <1>2 DEF Ticks, Deselected
<1>5. QED
  BY <1>1, <1>3, <1>4

LEMMA CtrlWaits ==
    ASSUME FetchStep, ~LastTick
    PROVE  /\ state' = state /\ phase_tick' = phase_tick + 1 /\ phase_tick' < Ticks[state]
           /\ UNCHANGED <<is_first, A, done_reg>>
<1>1. next_state(FALSE) = state /\ state # "IDLE" /\ CtrlTypeOK
  BY DEF FetchStep, FetchInv, next_state
<1>2. state' = state /\ phase_tick' = phase_tick + 1 /\ A' = A
  BY <1>1 DEF FetchStep, CtrlClock
<1>3. phase_tick + 1 < Ticks[state]
  BY <1>1, TickTypes DEF LastTick
<1>4. is_first' = is_first /\ done_reg' = done_reg
  <2>1. is_first' = (is_first /\ ~(state = "DATA" /\ LastTick))
        /\ done_reg' = (done_reg \/ (state = "DONE_WAIT" /\ LastTick))
    BY DEF FetchStep, CtrlClock
  <2>2. QED
    BY <1>1, <2>1 DEF CtrlTypeOK
<1>5. QED
  BY <1>2, <1>3, <1>4

LEMMA CtrlAdvances ==
    ASSUME FetchStep, LastTick
    PROVE  /\ state' = Successor[state] /\ phase_tick' = 0 /\ phase_tick = Ticks[state] - 1
           /\ A' = A
           /\ is_first' = (is_first /\ state # "DATA")
           /\ done_reg' = (done_reg \/ state = "DONE_WAIT")
<1>1. next_state(FALSE) = Successor[state] /\ state # "IDLE" /\ CtrlTypeOK
  BY DEF FetchStep, FetchInv, next_state
<1>2. Successor[state] # state
  BY <1>1, TickTypes DEF Ticks, Successor
<1>3. state' = Successor[state] /\ phase_tick' = 0 /\ A' = A
  BY <1>1, <1>2 DEF FetchStep, CtrlClock
<1>4. is_first' = (is_first /\ ~(state = "DATA" /\ LastTick))
      /\ done_reg' = (done_reg \/ (state = "DONE_WAIT" /\ LastTick))
  BY DEF FetchStep, CtrlClock
<1>5. QED
  BY <1>3, <1>4 DEF LastTick

\* Outside a fetch the call deselects the flash.
LEMMA CallDeselects ==
    ASSUME FlashCall(csn', sck', spi_do'), state' \in Deselected
    PROVE  Deselect
<1>1. csn'
  BY DEF csn, Deselected
<1>2. QED
  BY <1>1 DEF FlashCall

\* With SCK high nothing happens, with SCK low after it the lanes are shifted in.
LEMMA CallRises ==
    ASSUME FlashCall(csn', sck', spi_do'), state' \notin Deselected, phase_tick' % 2 = 1
    PROVE  /\ m_last_sck' = 1
           /\ UNCHANGED <<m_state, m_mode, m_sreg, m_creg, m_mem, m_pmem, m_addr, m_mode_byte,
                          m_ireg, m_oreg, m_count, m_write_count, aborted>>
<1>1. ~csn' /\ sck' = 1
  BY DEF csn, sck, Deselected
<1>2. QED
  BY <1>1 DEF FlashCall, registers, shifter

LEMMA CallShifts ==
    ASSUME FlashCall(csn', sck', spi_do'), state' \notin Deselected, phase_tick' % 2 = 0, m_last_sck = 1
    PROVE  Clocked(spi_do' % 2^Lanes)
<1>1. ~csn' /\ sck' = 0
  BY DEF csn, sck, Deselected
<1>2. QED
  BY <1>1 DEF FlashCall, Clocked

LEMMA LaneBits ==
    ASSUME NEW d \in 0 .. 15
    PROVE  /\ m_mode = "QSPI" => d % 2^Lanes = d
           /\ m_mode = "SPI" /\ d \in {0, 1} => d % 2^Lanes = d
<1>1. CASE m_mode = "QSPI"
  <2>1. Lanes = 4 /\ d % 2^4 = d
    BY <1>1 DEF Lanes
  <2>2. 2^Lanes = Pow(2, 4) /\ Pow(2, 4) = 16
    BY <2>1, PowIs, PowValues
  <2>3. QED
    BY <1>1, <2>1, <2>2
<1>2. CASE m_mode = "SPI"
  <2>1. Lanes = 1
    BY <1>2 DEF Lanes
  <2>2. 2^Lanes = Pow(2, 1) /\ Pow(2, 1) = 2
    BY <2>1, PowIs, PowValues
  <2>3. QED
    BY <1>2, <2>1, <2>2
<1>3. QED
  BY <1>1, <1>2

-----------------------------------------------------------------------------
(* Phase by phase.                                                         *)

Active == DOMAIN Ticks \ Deselected

LEMMA FetchCalm ==
    ASSUME FetchInv
    PROVE  Calm /\ CtrlTypeOK /\ (state # "IDLE" => A \in Nat /\ A + LineBytes <= MemBytes /\ A \in Bits24)
<1>1. Calm /\ CtrlTypeOK
  BY DEF FetchInv, Calm
<1>2. ASSUME state # "IDLE"
      PROVE  A \in Nat /\ A + LineBytes <= MemBytes /\ A \in Bits24
  <2>1. A \in Nat /\ A + LineBytes <= MemBytes
    BY <1>2, LinesAssumption DEF FetchInv
  <2>2. MemBytes <= 2^24 /\ MemBytes \in Nat
    BY GeometryAssumption
  <2>3. A <= 2^24 - 1
    BY <2>1, <2>2, LineAssumption
  <2>4. A \in Bits24
    BY <2>1, <2>3 DEF Bits24
  <2>5. QED
    BY <2>1, <2>4
<1>3. QED
  BY <1>1, <1>2

\* The first of the two ticks of a bit or a digit is over.
LEMMA RisingTick ==
    ASSUME FetchStep, state \in Active, phase_tick % 2 = 0
    PROVE  Keeps /\ FlashFollows' /\ m_last_sck' = phase_tick' % 2 /\ state' = state /\ A' = A
<1>1. Calm /\ CtrlTypeOK /\ phase_tick \in Nat /\ state \notin Deselected /\ state # "IDLE"
  BY FetchCalm DEF FetchStep, Active, Deselected, CtrlTypeOK
<1>2. ~LastTick
  <2>1. Ticks[state] \in Nat /\ Ticks[state] % 2 = 0
    BY <1>1, TickTypes
  <2>2. QED
    BY <1>1, <2>1 DEF LastTick
<1>3. state' = state /\ phase_tick' = phase_tick + 1 /\ UNCHANGED <<is_first, A>>
  BY <1>2, CtrlWaits
<1>4. phase_tick' % 2 = 1 /\ phase_tick' \div 2 = phase_tick \div 2 /\ phase_tick' \div 4 = phase_tick \div 4
      /\ (phase_tick' % 4 < 2 <=> phase_tick % 4 < 2)
  BY <1>1, <1>3
<1>5. /\ m_last_sck' = 1
      /\ UNCHANGED <<m_state, m_mode, m_sreg, m_creg, m_mem, m_pmem, m_addr, m_mode_byte,
                     m_ireg, m_oreg, m_count, m_write_count, aborted>>
  BY <1>1, <1>3, <1>4, CallRises DEF FetchStep
<1>6. Keeps
  BY <1>1, <1>5 DEF Keeps, Calm, FlashTypeOK
<1>7. Sent' = Sent /\ Base' = Base
  BY <1>3, <1>4 DEF Sent, Base
<1>8. SpiReady' = SpiReady /\ QuadIdle' = QuadIdle /\ QuadRead' = QuadRead
  BY <1>3, <1>5 DEF SpiReady, QuadIdle, QuadRead, StaysContinuous
<1>9. FlashFollows
  BY DEF FetchStep, FetchInv
<1>10. FlashFollows'
  <2>1. CASE state = "CMD_66"
    <3>1. is_first /\ ((SpiReady /\ OneLane(102)) \/ Misread)
      BY <1>9, <2>1 DEF FlashFollows
    <3>2. SpiReady /\ OneLane(102) => SpiReady' /\ OneLane(102)'
      BY <1>5, <1>7, <1>8 DEF OneLane
    <3>3. CommandBit(102)' = CommandBit(102) /\ StaysContinuous' = StaysContinuous
      BY <1>4, <1>5 DEF CommandBit, StaysContinuous
    <3>4. Misread => Misread'
      BY <1>5, <1>7, <1>8, <3>3 DEF Misread
    <3>5. QED
      BY <1>3, <2>1, <3>1, <3>2, <3>4 DEF FlashFollows
  <2>2. CASE state \in {"CMD_99", "CMD_EB"}
    <3>1. OneLane(153)' = OneLane(153) /\ OneLane(235)' = OneLane(235)
      BY <1>5, <1>7 DEF OneLane
    <3>2. CASE state = "CMD_99"
      BY <1>3, <1>8, <1>9, <3>1, <3>2 DEF FlashFollows
    <3>3. CASE state = "CMD_EB"
      BY <1>3, <1>7, <1>8, <1>9, <3>1, <3>3 DEF FlashFollows
    <3>4. QED
      BY <2>2, <3>2, <3>3
  <2>3. CASE state \in {"ADDR", "MODE", "DUMMY"}
    BY <1>3, <1>5, <1>7, <1>8, <1>9, <2>3 DEF FlashFollows
  <2>4. CASE state = "DATA"
    BY <1>3, <1>4, <1>5, <1>7, <1>8, <1>9, <2>4 DEF FlashFollows
  <2>5. QED
    BY <1>1, <2>1, <2>2, <2>3, <2>4 DEF Active, Deselected, CtrlTypeOK, Ticks
<1>11. QED
  BY <1>3, <1>4, <1>5, <1>6, <1>10

\* A bit of a command on one lane.
LEMMA CommandPin ==
    ASSUME NEW s \in 0 .. 7, phase_tick' = 2 * s, state' \in DOMAIN ByteSent
    PROVE  /\ spi_do' = (ByteSent[state'] \div Pow(2, 7 - s)) % 2
           /\ spi_do' \in {0, 1} /\ ByteSent[state'] \in Commands
<1>1. phase_tick' \div 2 = s
  OBVIOUS
<1>2. spi_do' = (ByteSent[state'] \div 2^(7 - s)) % 2
  <2>1. state' \in {"CMD_66", "CMD_99", "CMD_EB"}
    BY DEF ByteSent
  <2>2. CASE state' = "CMD_66"
    BY <1>1, <2>2 DEF spi_do, CommandBit, ByteSent
  <2>3. CASE state' = "CMD_99"
    BY <1>1, <2>3 DEF spi_do, CommandBit, ByteSent
  <2>4. CASE state' = "CMD_EB"
    BY <1>1, <2>4 DEF spi_do, CommandBit, ByteSent
  <2>5. QED
    BY <2>1, <2>2, <2>3, <2>4
<1>3. ByteSent[state'] \in Commands /\ ByteSent[state'] \in Nat
  BY DEF ByteSent, Commands
<1>4. PICK m \in Nat \ {0} : m = Pow(2, 7 - s)
  <2>1. 7 - s \in 0 .. 7
    OBVIOUS
  <2>2. QED
    BY <2>1, PowValues
<1>5. ByteSent[state'] \div m \in Nat
  BY <1>3, <1>4
<1>6. (ByteSent[state'] \div m) % 2 \in {0, 1}
  BY <1>5
<1>7. QED
  BY <1>2, <1>3, <1>4, <1>6, PowIs

\* The next bit.
LEMMA OneLaneGoesOn ==
    ASSUME Calm, SpiReady, NEW byte \in Commands, NEW s \in 1 .. 7,
           m_count = s, m_ireg = byte \div Pow(2, 8 - s), Clocked((byte \div Pow(2, 7 - s)) % 2),
           (byte \div Pow(2, 7 - s)) % 2 \in {0, 1}
    PROVE  /\ Keeps /\ m_count' = s + 1 /\ m_ireg' = byte \div Pow(2, 8 - (s + 1))
           /\ UNCHANGED <<m_addr, m_mode_byte>>
           /\ IF s = 7 /\ byte = 235 THEN m_state' = "QUAD_READ_CMD" /\ m_mode' = "QSPI" ELSE SpiReady'
<1> DEFINE d == (byte \div Pow(2, 7 - s)) % 2
<1>1. d \in {0, 1} /\ Clocked(d) /\ OneMore(m_ireg, d) = byte \div Pow(2, 8 - (s + 1))
  BY CommandBits
<1> HIDE DEF d
<1>2. CASE s < 7
  <2>1. m_count \in 0 .. 6
    BY <1>2
  <2>2. /\ Keeps /\ m_count' = s + 1 /\ m_ireg' = OneMore(m_ireg, d)
        /\ UNCHANGED <<m_state, m_mode, m_addr, m_mode_byte>>
    BY <1>1, <2>1, BitClock
  <2>3. SpiReady'
    BY <2>2 DEF SpiReady, StaysContinuous
  <2>4. QED
    BY <1>1, <1>2, <2>2, <2>3
<1>3. CASE s = 7
  <2>1. OneMore(m_ireg, d) = byte
    <3>1. Pow(2, 8 - (s + 1)) = 1
      <4>1. 8 - (s + 1) = 0
        BY <1>3
      <4>2. QED
        BY <4>1, PowValues
    <3>2. byte \div 1 = byte
      BY DEF Commands
    <3>3. QED
      BY <1>1, <3>1, <3>2
  <2>2. /\ Keeps /\ m_count' = 8 /\ m_ireg' = byte
        /\ UNCHANGED <<m_addr, m_mode_byte>>
        /\ IF byte = 235 THEN m_state' = "QUAD_READ_CMD" /\ m_mode' = "QSPI"
           ELSE UNCHANGED <<m_state, m_mode>>
    BY <1>1, <1>3, <2>1, CommandClock
  <2>3. byte # 235 => SpiReady'
    BY <2>2 DEF SpiReady, StaysContinuous
  <2>4. QED
    BY <1>1, <1>3, <2>1, <2>2, <2>3
<1>4. QED
  BY <1>2, <1>3

\* The first bit.
LEMMA OneLaneBegins ==
    ASSUME Calm, SpiReady, Quiet, NEW byte \in Commands,
           Clocked((byte \div Pow(2, 7)) % 2), (byte \div Pow(2, 7)) % 2 \in {0, 1}
    PROVE  Keeps /\ m_count' = 1 /\ m_ireg' = byte \div Pow(2, 7) /\ SpiReady'
<1> DEFINE d == (byte \div Pow(2, 7)) % 2
<1>1. d \in {0, 1} /\ Clocked(d) /\ d = byte \div Pow(2, 7)
  <2>1. (byte \div 128) % 2 = byte \div 128
    BY DEF Commands
  <2>2. QED
    BY <2>1, PowValues
<1> HIDE DEF d
<1>2. /\ Keeps /\ m_count' = 1 /\ m_ireg' = OneMore(0, d)
      /\ UNCHANGED <<m_state, m_mode, m_addr, m_mode_byte>>
  <2>1. m_count = 0 /\ m_ireg = 0
    BY DEF Quiet
  <2>2. QED
    BY <1>1, <2>1, BitClock
<1>3. OneMore(0, d) = d
  BY <1>1, SmallShift
<1>4. SpiReady'
  BY <1>2 DEF SpiReady, StaysContinuous
<1>5. QED
  BY <1>1, <1>2, <1>3, <1>4

\* The second tick: the next bit or digit is shifted in, or the phase is over.
LEMMA FallingTick ==
    ASSUME FetchStep, state \in Active, phase_tick % 2 = 1
    PROVE  \E s \in Nat \ {0} :
              /\ Sent = s /\ phase_tick = 2 * s - 1 /\ 2 * s <= Ticks[state] /\ m_last_sck = 1
              /\ A' = A /\ state' = (IF 2 * s < Ticks[state] THEN state ELSE Successor[state])
              /\ is_first' = (is_first /\ ~(state = "DATA" /\ 2 * s = Ticks[state]))
              /\ phase_tick' = (IF 2 * s < Ticks[state] THEN 2 * s ELSE 0)
              /\ Sent' = (IF 2 * s < Ticks[state] THEN s + 1 ELSE 1)
              /\ IF state' \in Deselected THEN Deselect ELSE Clocked(spi_do' % 2^Lanes)
<1>1. Calm /\ CtrlTypeOK /\ phase_tick \in Nat /\ state \notin Deselected /\ state # "IDLE"
  BY FetchCalm DEF FetchStep, Active, Deselected, CtrlTypeOK
<1>2. /\ Ticks[state] \in Nat /\ Ticks[state] % 2 = 0 /\ phase_tick < Ticks[state]
  BY <1>1, TickTypes
<1>3. m_last_sck = 1
  BY <1>1 DEF FetchStep, FetchInv, Deselected
<1>4. PICK s \in Nat \ {0} : phase_tick = 2 * s - 1 /\ Sent = s
  <2>1. PICK p \in Nat : p = phase_tick /\ p % 2 = 1
    BY <1>1
  <2>2. p \div 2 + 1 \in Nat \ {0} /\ p = 2 * (p \div 2 + 1) - 1
    BY <2>1
  <2>3. QED
    BY <2>1, <2>2 DEF Sent
<1>5. 2 * s <= Ticks[state] /\ (LastTick <=> 2 * s = Ticks[state])
  <2>1. PICK t \in Nat : t = Ticks[state] /\ t % 2 = 0
    BY <1>2
  <2>2. 2 * s <= t
    BY <1>2, <1>4, <2>1
  <2>3. LastTick <=> 2 * s = t
    BY <1>1, <1>4, <2>1 DEF LastTick
  <2>4. QED
    BY <2>1, <2>2, <2>3
<1>6. CASE ~LastTick
  <2>1. state' = state /\ phase_tick' = 2 * s /\ UNCHANGED <<is_first, A>>
    BY <1>4, <1>6, CtrlWaits
  <2>2. Sent' = s + 1 /\ phase_tick' % 2 = 0
    BY <2>1 DEF Sent
  <2>3. Clocked(spi_do' % 2^Lanes)
    BY <1>1, <1>3, <2>1, <2>2, CallShifts DEF FetchStep
  <2>4. is_first' = (is_first /\ ~(state = "DATA" /\ 2 * s = Ticks[state]))
    BY <1>1, <1>5, <1>6, <2>1 DEF CtrlTypeOK
  <2>5. 2 * s < Ticks[state]
    BY <1>2, <1>5, <1>6
  <2>6. QED
    BY <1>1, <1>3, <1>4, <1>5, <2>1, <2>2, <2>3, <2>4, <2>5
<1>7. CASE LastTick
  <2>1. state' = Successor[state] /\ phase_tick' = 0 /\ A' = A
    BY <1>7, CtrlAdvances
  <2>2. Sent' = 1 /\ phase_tick' % 2 = 0
    BY <2>1 DEF Sent
  <2>3. IF state' \in Deselected THEN Deselect ELSE Clocked(spi_do' % 2^Lanes)
    BY <1>3, <2>2, CallShifts, CallDeselects DEF FetchStep
  <2>4. is_first' = (is_first /\ ~(state = "DATA" /\ 2 * s = Ticks[state]))
    <3>1. is_first' = (is_first /\ state # "DATA")
      BY <1>7, CtrlAdvances
    <3>2. 2 * s = Ticks[state]
      BY <1>5, <1>7
    <3>3. QED
      BY <3>1, <3>2, Zenon
  <2>5. ~(2 * s < Ticks[state])
    BY <1>2, <1>5, <1>7
  <2>6. QED
    BY <1>3, <1>4, <1>5, <2>1, <2>2, <2>3, <2>4, <2>5
<1>8. QED
  BY <1>6, <1>7

LEMMA MisreadGoesOn ==
    ASSUME Calm, Misread, NEW s \in 1 .. 7, Sent = s, Sent' = s + 1, NEW d \in {0, 1},
           Clocked(d), d = CommandBit(102)', s = 7 => d = 0, s = 7 => CommandBit(102) = 1
    PROVE  Keeps /\ Misread'
<1>1. m_mode = "QSPI" /\ m_count = 4 * s /\ d \in 0 .. 15 /\ m_ireg \in Nat
  BY DEF Misread, Calm, FlashTypeOK
<1>2. Low(1, FourMore(m_ireg, d)) = d /\ FourMore(m_ireg, d) % 16 = d
  <2>1. PICK y \in Nat : y = m_ireg % Digits5
    BY <1>1, PowDigits
  <2>2. (y * 16 + d) % 16 = d
    BY <2>1
  <2>3. FourMore(m_ireg, d) % 16 = d
    BY <2>1, <2>2 DEF FourMore
  <2>4. QED
    BY <2>3, PowValues DEF Low
<1>3. CASE s < 6
  <2>1. QuadIdle
    BY <1>3 DEF Misread
  <2>2. /\ Keeps /\ m_count' = 4 * s + 4 /\ m_ireg' = FourMore(m_ireg, d)
        /\ UNCHANGED <<m_mode, m_mode_byte>>
        /\ IF 4 * s + 4 = 24 THEN m_state' = "QUAD_READ" ELSE UNCHANGED m_state
    BY <1>1, <2>1, AddressClock
  <2>3. StaysContinuous' /\ m_state = "QUAD_READ_IDLE"
    BY <2>1, <2>2 DEF StaysContinuous, QuadIdle
  <2>4. QED
    BY <1>1, <1>2, <1>3, <2>1, <2>2, <2>3 DEF Misread, QuadIdle
<1>4. CASE s = 6
  <2>1. m_state = "QUAD_READ" /\ StaysContinuous /\ Reads4 /\ (m_count + 4) % 8 # 0
    BY <1>1, <1>4 DEF Misread, Reads4, QuadReads
  <2>2. /\ Keeps /\ m_count' = m_count + 4 /\ m_ireg' = FourMore(m_ireg, d)
        /\ UNCHANGED <<m_state, m_mode, m_mode_byte>>
    BY <1>1, <2>1, HalfClock
  <2>3. StaysContinuous'
    BY <2>1, <2>2 DEF StaysContinuous
  <2>4. QED
    BY <1>1, <1>2, <1>4, <2>1, <2>2, <2>3 DEF Misread
<1>5. CASE s = 7
  <2>1. m_state = "QUAD_READ" /\ Reads4 /\ m_count = 28 /\ (m_count + 4) % 8 = 0 /\ m_count > 4
    BY <1>1, <1>5 DEF Misread, Reads4, QuadReads
  <2>2. /\ Keeps /\ m_count' = m_count + 4 /\ m_ireg' = FourMore(m_ireg, d)
        /\ UNCHANGED <<m_state, m_mode>>
    BY <1>1, <2>1, ByteClock
  <2>3. m_mode_byte' = m_ireg' % 256
    BY <1>1, <2>1, ModeByteClock
  <2>4. Low(2, FourMore(m_ireg, d)) = Low(1, m_ireg) * 16 + d
    <3>1. 1 \in 1 .. 5 /\ 1 + 1 = 2
      OBVIOUS
    <3>2. QED
      BY <1>1, <3>1, LowStep
  <2>5. Low(1, m_ireg) = 1
    <3>1. m_ireg % 16 = 1
      BY <1>5 DEF Misread
    <3>2. QED
      BY <3>1, PowValues DEF Low
  <2>6. m_mode_byte' = 16
    <3>1. Low(2, m_ireg') = 16
      BY <1>5, <2>2, <2>4, <2>5
    <3>2. QED
      BY <2>3, <3>1, PowValues DEF Low
  <2>7. ~StaysContinuous'
    BY <2>6 DEF StaysContinuous
  <2>8. QED
    BY <1>1, <1>2, <1>5, <2>1, <2>2, <2>7 DEF Misread
<1>6. QED
  BY <1>3, <1>4, <1>5

LEMMA Reset1Phase ==
    ASSUME FetchStep, state = "CMD_66", phase_tick % 2 = 1
    PROVE  Keeps /\ FlashFollows'
<1>1. is_first /\ ((SpiReady /\ OneLane(102)) \/ Misread) /\ Calm /\ state \in Active
  BY FetchCalm DEF FetchStep, FetchInv, FlashFollows, Active, Deselected, Ticks
<1>2. PICK s \in Nat \ {0} :
              /\ Sent = s /\ phase_tick = 2 * s - 1 /\ 2 * s <= 16
              /\ state' = (IF 2 * s < 16 THEN "CMD_66" ELSE "WAIT_66")
              /\ is_first' = is_first
              /\ phase_tick' = (IF 2 * s < 16 THEN 2 * s ELSE 0)
              /\ Sent' = (IF 2 * s < 16 THEN s + 1 ELSE 1)
              /\ IF state' \in Deselected THEN Deselect ELSE Clocked(spi_do' % 2^Lanes)
  <2>1. Ticks[state] = 16 /\ Successor[state] = "WAIT_66"
    BY DEF Ticks, Successor
  <2>2. CtrlTypeOK
    BY DEF FetchStep, FetchInv
  <2>3. (is_first /\ ~(state = "DATA" /\ FALSE)) = is_first
    BY <2>2 DEF CtrlTypeOK
  <2>4. QED
    BY <1>1, <2>1, <2>2, FallingTick DEF CtrlTypeOK
<1>3. CASE s < 8
  <2>1. s \in 1 .. 7 /\ state' = "CMD_66" /\ phase_tick' = 2 * s /\ Sent' = s + 1 /\ is_first'
        /\ Clocked(spi_do' % 2^Lanes)
    BY <1>1, <1>2, <1>3 DEF Deselected
  <2>2. spi_do' = (102 \div Pow(2, 7 - s)) % 2 /\ spi_do' \in {0, 1} /\ 102 \in Commands
    <3>1. state' \in DOMAIN ByteSent /\ ByteSent[state'] = 102 /\ s \in 0 .. 7
      BY <2>1 DEF ByteSent
    <3>2. QED
      BY <2>1, <3>1, CommandPin
  <2>3. PICK d \in {0, 1} : d = spi_do' /\ d \in 0 .. 15
    BY <2>2
  <2>4. CASE SpiReady /\ OneLane(102)
    <3>1. Clocked(d)
      BY <2>1, <2>3, <2>4, LaneBits DEF SpiReady
    <3>2. m_count = s /\ m_ireg = 102 \div Pow(2, 8 - s)
      BY <1>2, <2>4 DEF OneLane
    <3>3. Keeps /\ m_count' = s + 1 /\ m_ireg' = 102 \div Pow(2, 8 - (s + 1)) /\ SpiReady'
      BY <1>1, <2>1, <2>2, <2>3, <2>4, <3>1, <3>2, OneLaneGoesOn
    <3>4. OneLane(102)'
      BY <2>1, <3>3 DEF OneLane
    <3>5. QED
      BY <2>1, <3>3, <3>4 DEF FlashFollows
  <2>5. CASE Misread
    <3>1. Clocked(d)
      BY <2>1, <2>3, <2>5, LaneBits DEF Misread
    <3>2. d = CommandBit(102)'
      BY <2>1, <2>3 DEF spi_do
    <3>3. s = 7 => d = 0
      <4>1. ASSUME s = 7 PROVE d = 0
        <5>1. 7 - s = 0 /\ (102 \div 1) % 2 = 0
          BY <4>1
        <5>2. QED
          BY <2>2, <2>3, <5>1, PowValues
      <4>2. QED
        BY <4>1
    <3>4. s = 7 => CommandBit(102) = 1
      <4>1. ASSUME s = 7 PROVE CommandBit(102) = 1
        <5>1. 7 - (phase_tick \div 2) = 1
          BY <1>2, <4>1
        <5>2. (102 \div 2^1) % 2 = 1
          OBVIOUS
        <5>3. QED
          BY <5>1, <5>2 DEF CommandBit
      <4>2. QED
        BY <4>1
    <3>5. Keeps /\ Misread'
      BY <1>1, <1>2, <2>1, <2>3, <2>5, <3>1, <3>2, <3>3, <3>4, MisreadGoesOn
    <3>6. QED
      BY <2>1, <3>5 DEF FlashFollows
  <2>6. QED
    BY <1>1, <2>4, <2>5
<1>4. CASE s = 8
  <2>1. state' = "WAIT_66" /\ is_first' /\ Deselect
    BY <1>1, <1>2, <1>4 DEF Deselected
  <2>2. SpiReady \/ (Reads4 /\ ~StaysContinuous)
    BY <1>1, <1>2, <1>4 DEF Misread, Reads4, QuadReads
  <2>3. Keeps /\ Quiet' /\ SpiReady'
    BY <1>1, <2>1, <2>2, FetchDeselect
  <2>4. QED
    BY <2>1, <2>3 DEF FlashFollows
<1>5. QED
  <2>1. s < 8 \/ s = 8
    BY <1>2
  <2>2. QED
    BY <1>3, <1>4, <2>1

\* Between two commands, and after the read.
LEMMA WaitPhase ==
    ASSUME FetchStep, state \in {"WAIT_66", "TRST_WAIT"}
    PROVE  Keeps /\ FlashFollows' /\ (state' \notin Deselected => m_last_sck' = phase_tick' % 2)
<1>1. is_first /\ Quiet /\ SpiReady /\ Calm /\ state # "IDLE"
  BY FetchCalm DEF FetchStep, FetchInv, FlashFollows
<1>2. CASE ~LastTick
  <2>1. state' = state /\ is_first'
    BY <1>1, <1>2, CtrlWaits
  <2>2. Deselect
    BY <2>1, CallDeselects DEF FetchStep, Deselected
  <2>3. Keeps /\ Quiet' /\ SpiReady'
    BY <1>1, <2>2, FetchDeselect
  <2>4. QED
    BY <2>1, <2>3 DEF FlashFollows, Deselected
<1>3. CASE LastTick
  <2>1. state' \in {"CMD_99", "CMD_EB"} /\ phase_tick' = 0
    BY <1>3, CtrlAdvances DEF Successor
  <2>2. is_first'
    <3>1. is_first' = (is_first /\ state # "DATA")
      BY <1>3, CtrlAdvances
    <3>2. QED
      BY <1>1, <3>1
  <2>3. Clocked(spi_do' % 2^Lanes)
    <3>1. phase_tick' % 2 = 0 /\ state' \notin Deselected /\ m_last_sck = 1
      BY <1>1, <2>1 DEF Deselected, Quiet
    <3>2. QED
      BY <3>1, CallShifts DEF FetchStep
  <2>4. PICK byte \in Commands : byte = ByteSent[state'] /\ spi_do' = (byte \div Pow(2, 7)) % 2 /\ spi_do' \in {0, 1}
    <3>1. phase_tick' = 2 * 0 /\ state' \in DOMAIN ByteSent /\ 7 - 0 = 7 /\ 0 \in 0 .. 7
      BY <2>1 DEF ByteSent
    <3>2. QED
      BY <3>1, CommandPin
  <2>5. Clocked(spi_do')
    <3>1. spi_do' \in 0 .. 15 /\ m_mode = "SPI"
      BY <1>1, <2>4 DEF SpiReady
    <3>2. PICK d \in {0, 1} : d = spi_do' /\ d \in 0 .. 15
      BY <2>4, <3>1
    <3>3. d % 2^Lanes = d
      BY <3>1, <3>2, LaneBits
    <3>4. QED
      BY <2>3, <3>2, <3>3
  <2>6. Keeps /\ m_count' = 1 /\ m_ireg' = byte \div Pow(2, 7) /\ SpiReady'
    BY <1>1, <2>4, <2>5, OneLaneBegins
  <2>7. Sent' = 1 /\ 8 - Sent' = 7
    BY <2>1 DEF Sent
  <2>8. state' = "CMD_99" => OneLane(153)'
    BY <2>4, <2>6, <2>7 DEF OneLane, ByteSent
  <2>9. state' = "CMD_EB" => OneLane(235)'
    BY <2>4, <2>6, <2>7 DEF OneLane, ByteSent
  <2>10. m_last_sck' = 0 /\ phase_tick' % 2 = 0
    BY <2>1, <2>5 DEF Clocked
  <2>11. CASE state' = "CMD_99"
    BY <2>2, <2>6, <2>8, <2>10, <2>11 DEF FlashFollows
  <2>12. CASE state' = "CMD_EB"
    <3>1. Sent' < 8
      BY <2>7
    <3>2. QED
      BY <2>2, <2>6, <2>9, <2>10, <2>12, <3>1 DEF FlashFollows
  <2>13. QED
    BY <2>1, <2>11, <2>12
<1>4. QED
  BY <1>2, <1>3

LEMMA DonePhase ==
    ASSUME FetchStep, state = "DONE_WAIT"
    PROVE  Keeps /\ FlashFollows' /\ state' \in Deselected
<1>1. ~is_first /\ Quiet /\ QuadIdle /\ Calm
  BY FetchCalm DEF FetchStep, FetchInv, FlashFollows
<1>2. state' \in {"DONE_WAIT", "IDLE"} /\ ~is_first'
  <2>1. CASE ~LastTick
    BY <1>1, <2>1, CtrlWaits
  <2>2. CASE LastTick
    BY <1>1, <2>2, CtrlAdvances DEF Successor
  <2>3. QED
    BY <2>1, <2>2
<1>3. Deselect
  BY <1>2, CallDeselects DEF FetchStep, Deselected
<1>4. Keeps /\ Quiet' /\ QuadIdle'
  BY <1>1, <1>3, FetchDeselect
<1>5. QED
  BY <1>2, <1>4 DEF FlashFollows, Deselected

LEMMA Reset2Phase ==
    ASSUME FetchStep, state = "CMD_99", phase_tick % 2 = 1
    PROVE  Keeps /\ FlashFollows'
<1>1. is_first /\ SpiReady /\ OneLane(153) /\ Calm /\ state \in Active
  BY FetchCalm DEF FetchStep, FetchInv, FlashFollows, Active, Deselected, Ticks
<1>2. PICK s \in Nat \ {0} :
              /\ Sent = s /\ phase_tick = 2 * s - 1 /\ 2 * s <= 16
              /\ state' = (IF 2 * s < 16 THEN "CMD_99" ELSE "TRST_WAIT")
              /\ is_first' = is_first
              /\ phase_tick' = (IF 2 * s < 16 THEN 2 * s ELSE 0)
              /\ Sent' = (IF 2 * s < 16 THEN s + 1 ELSE 1)
              /\ IF state' \in Deselected THEN Deselect ELSE Clocked(spi_do' % 2^Lanes)
  <2>1. Ticks[state] = 16 /\ Successor[state] = "TRST_WAIT"
    BY DEF Ticks, Successor
  <2>2. CtrlTypeOK
    BY DEF FetchStep, FetchInv
  <2>3. QED
    BY <1>1, <2>1, <2>2, FallingTick DEF CtrlTypeOK
<1>3. CASE s < 8
  <2>1. s \in 1 .. 7 /\ state' = "CMD_99" /\ phase_tick' = 2 * s /\ Sent' = s + 1 /\ is_first'
        /\ Clocked(spi_do' % 2^Lanes)
    BY <1>1, <1>2, <1>3 DEF Deselected
  <2>2. spi_do' = (153 \div Pow(2, 7 - s)) % 2 /\ spi_do' \in {0, 1} /\ 153 \in Commands
    <3>1. state' \in DOMAIN ByteSent /\ ByteSent[state'] = 153 /\ s \in 0 .. 7
      BY <2>1 DEF ByteSent
    <3>2. QED
      BY <2>1, <3>1, CommandPin
  <2>3. PICK d \in {0, 1} : d = spi_do' /\ d \in 0 .. 15
    BY <2>2
  <2>4. Clocked(d)
    BY <1>1, <2>1, <2>3, LaneBits DEF SpiReady
  <2>5. m_count = s /\ m_ireg = 153 \div Pow(2, 8 - s)
    BY <1>1, <1>2 DEF OneLane
  <2>6. Keeps /\ m_count' = s + 1 /\ m_ireg' = 153 \div Pow(2, 8 - (s + 1)) /\ SpiReady'
    BY <1>1, <2>1, <2>2, <2>3, <2>4, <2>5, OneLaneGoesOn
  <2>7. OneLane(153)'
    BY <2>1, <2>6 DEF OneLane
  <2>8. QED
    BY <2>1, <2>6, <2>7 DEF FlashFollows
<1>4. CASE s = 8
  <2>1. state' = "TRST_WAIT" /\ is_first' /\ Deselect
    BY <1>1, <1>2, <1>4 DEF Deselected
  <2>2. Keeps /\ Quiet' /\ SpiReady'
    BY <1>1, <2>1, FetchDeselect
  <2>3. QED
    BY <2>1, <2>2 DEF FlashFollows
<1>5. QED
  <2>1. s < 8 \/ s = 8
    BY <1>2
  <2>2. QED
    BY <1>3, <1>4, <2>1

\* The digits of the address on the pins, and in the flash.
LEMMA AddressPin ==
    ASSUME NEW s \in 0 .. 5, phase_tick' = 2 * s, state' = "ADDR", A' = A, A \in Nat
    PROVE  spi_do' = Digit(5 - s, A) /\ spi_do' \in 0 .. 15
<1>1. phase_tick' \div 2 = s
  OBVIOUS
<1>2. spi_do' = (A \div 16^(5 - s)) % 16
  BY <1>1 DEF spi_do
<1>3. spi_do' = Digit(5 - s, A)
  BY <1>2, PowIs DEF Digit, High
<1>4. PICK m \in Nat \ {0} : m = Pow(16, 5 - s)
  <2>1. 5 - s \in 0 .. 5
    OBVIOUS
  <2>2. QED
    BY <2>1, PowValues, PowDigits
<1>5. A \div m \in Nat
  BY <1>4
<1>6. (A \div m) % 16 \in 0 .. 15
  BY <1>5
<1>7. QED
  BY <1>2, <1>3, <1>4, <1>6, PowIs

LEMMA FirstDigit ==
    ASSUME NEW x \in Nat, NEW a \in Bits24
    PROVE  Low(1, FourMore(x, Digit(5, a))) = High(5, a)
<1>1. PICK h \in 0 .. 15 : h = High(5, a)
  <2>1. a \div Digits5 \in 0 .. 15
    BY SMT DEF Digits5, Bits24
  <2>2. QED
    BY <2>1, PowDigits DEF High
<1>2. Digit(5, a) = h
  BY <1>1 DEF Digit
<1>3. PICK y \in Nat : y = x % Digits5
  BY PowDigits
<1>4. (y * 16 + h) % 16 = h
  BY <1>3
<1>5. QED
  BY <1>1, <1>2, <1>3, <1>4, PowValues DEF FourMore, Low

LEMMA LastDigit ==
    ASSUME NEW x \in Bits24, NEW a \in Nat, Low(6, x) = High(0, a)
    PROVE  x = a
<1>1. PICK m \in Nat \ {0} : m = Pow(16, 6) /\ x \in 0 .. m - 1
  BY PowValues, SMT DEF Bits24
<1>2. Low(6, x) = x
  BY <1>1, SmallRemainder DEF Low
<1>3. High(0, a) = a
  BY PowValues DEF High
<1>4. QED
  BY <1>2, <1>3

LEMMA ReadCommandPhase ==
    ASSUME FetchStep, state = "CMD_EB", phase_tick % 2 = 1
    PROVE  Keeps /\ FlashFollows'
<1>1. is_first /\ OneLane(235) /\ Calm /\ state \in Active /\ (IF Sent < 8 THEN SpiReady ELSE QuadRead)
      /\ A \in Bits24 /\ A \in Nat
  BY FetchCalm DEF FetchStep, FetchInv, FlashFollows, Active, Deselected, Ticks
<1>2. PICK s \in Nat \ {0} :
              /\ Sent = s /\ phase_tick = 2 * s - 1 /\ 2 * s <= 16 /\ A' = A
              /\ state' = (IF 2 * s < 16 THEN "CMD_EB" ELSE "ADDR")
              /\ is_first' = is_first
              /\ phase_tick' = (IF 2 * s < 16 THEN 2 * s ELSE 0)
              /\ Sent' = (IF 2 * s < 16 THEN s + 1 ELSE 1)
              /\ Clocked(spi_do' % 2^Lanes)
  <2>1. Ticks[state] = 16 /\ Successor[state] = "ADDR"
    BY DEF Ticks, Successor
  <2>2. CtrlTypeOK
    BY DEF FetchStep, FetchInv
  <2>3. QED
    BY <1>1, <2>1, <2>2, FallingTick DEF CtrlTypeOK, Deselected
<1>3. CASE s < 8
  <2>1. s \in 1 .. 7 /\ state' = "CMD_EB" /\ phase_tick' = 2 * s /\ Sent' = s + 1 /\ is_first' /\ SpiReady
    BY <1>1, <1>2, <1>3
  <2>2. spi_do' = (235 \div Pow(2, 7 - s)) % 2 /\ spi_do' \in {0, 1} /\ 235 \in Commands
    <3>1. state' \in DOMAIN ByteSent /\ ByteSent[state'] = 235 /\ s \in 0 .. 7
      BY <2>1 DEF ByteSent
    <3>2. QED
      BY <2>1, <3>1, CommandPin
  <2>3. PICK d \in {0, 1} : d = spi_do' /\ d \in 0 .. 15
    BY <2>2
  <2>4. Clocked(d)
    BY <1>2, <2>1, <2>3, LaneBits DEF SpiReady
  <2>5. m_count = s /\ m_ireg = 235 \div Pow(2, 8 - s)
    BY <1>1, <1>2 DEF OneLane
  <2>6. /\ Keeps /\ m_count' = s + 1 /\ m_ireg' = 235 \div Pow(2, 8 - (s + 1))
        /\ IF s = 7 THEN m_state' = "QUAD_READ_CMD" /\ m_mode' = "QSPI" ELSE SpiReady'
    BY <1>1, <2>1, <2>2, <2>3, <2>4, <2>5, OneLaneGoesOn
  <2>7. OneLane(235)'
    BY <2>1, <2>6 DEF OneLane
  <2>8. IF Sent' < 8 THEN SpiReady' ELSE QuadRead'
    BY <2>1, <2>6 DEF QuadRead
  <2>9. QED
    BY <2>1, <2>6, <2>7, <2>8 DEF FlashFollows
<1>4. CASE s = 8
  <2>1. state' = "ADDR" /\ is_first' /\ phase_tick' = 2 * 0 /\ Sent' = 1 /\ QuadRead /\ is_first
    BY <1>1, <1>2, <1>4
  <2>2. spi_do' = Digit(5, A) /\ spi_do' \in 0 .. 15
    <3>1. 0 \in 0 .. 5 /\ 5 - 0 = 5
      OBVIOUS
    <3>2. QED
      BY <1>1, <1>2, <2>1, <3>1, AddressPin
  <2>3. PICK d \in 0 .. 15 : d = spi_do'
    BY <2>2
  <2>4. Clocked(d) /\ Reads4 /\ m_count = 8
    BY <1>1, <1>2, <1>4, <2>1, <2>3, LaneBits DEF QuadRead, Reads4, QuadReads, OneLane
  <2>5. /\ Keeps /\ m_count' = 12 /\ m_ireg' = FourMore(m_ireg, d)
        /\ UNCHANGED <<m_state, m_mode>>
    BY <1>1, <2>4, HalfClock
  <2>6. Low(1, m_ireg') = High(5, A)
    <3>1. m_ireg \in Nat
      BY <1>1 DEF Calm, FlashTypeOK
    <3>2. QED
      BY <1>1, <2>2, <2>3, <2>5, <3>1, FirstDigit
  <2>7. Base' = 8 /\ 6 - Sent' = 5 /\ QuadRead'
    BY <2>1, <2>5 DEF Base, QuadRead
  <2>8. Low(Sent', m_ireg') = High(6 - Sent', A') /\ m_count' = Base' + 4 * Sent' /\ Sent' # 6
    BY <1>2, <2>1, <2>5, <2>6, <2>7
  <2>9. QED
    BY <2>1, <2>5, <2>7, <2>8 DEF FlashFollows
<1>5. QED
  <2>1. s < 8 \/ s = 8
    BY <1>2
  <2>2. QED
    BY <1>3, <1>4, <2>1

\* A digit of the address, after the command or without one.
LEMMA DigitClock ==
    ASSUME Calm, NEW d \in 0 .. 15, Clocked(d), NEW s \in 1 .. 5, is_first \in BOOLEAN, is_first' = is_first,
           m_count = Base + 4 * s, IF is_first THEN QuadRead ELSE QuadIdle
    PROVE  /\ Keeps /\ m_count' = Base + 4 * (s + 1) /\ m_ireg' = FourMore(m_ireg, d)
           /\ IF is_first \/ s = 5 THEN QuadRead' ELSE QuadIdle'
           /\ s = 5 => m_addr' = m_ireg' % MemBytes
<1>1. CASE is_first
  <2>1. Base = 8 /\ m_state = "QUAD_READ_CMD" /\ m_mode = "QSPI" /\ Reads4
    BY <1>1 DEF Base, QuadRead, Reads4, QuadReads
  <2>2. CASE s \in {2, 4}
    <3>1. (m_count + 4) % 8 # 0
      BY <2>1, <2>2
    <3>2. Keeps /\ m_count' = m_count + 4 /\ m_ireg' = FourMore(m_ireg, d) /\ UNCHANGED <<m_state, m_mode>>
      BY <2>1, <3>1, HalfClock
    <3>3. QED
      BY <1>1, <2>1, <2>2, <3>2 DEF QuadRead
  <2>3. CASE s \in {1, 3, 5}
    <3>1. (m_count + 4) % 8 = 0 /\ m_count > 4
      BY <2>1, <2>3
    <3>2. Keeps /\ m_count' = m_count + 4 /\ m_ireg' = FourMore(m_ireg, d) /\ UNCHANGED <<m_state, m_mode>>
      BY <2>1, <3>1, ByteClock
    <3>3. s = 5 => m_addr' = m_ireg' % MemBytes
      <4>1. ASSUME s = 5 PROVE m_addr' = m_ireg' % MemBytes
        <5>1. m_count = 28
          BY <2>1, <4>1
        <5>2. QED
          BY <2>1, <5>1, AddressByteClock
      <4>2. QED
        BY <4>1
    <3>4. QED
      BY <1>1, <2>1, <2>3, <3>2, <3>3 DEF QuadRead
  <2>4. QED
    BY <2>2, <2>3
<1>2. CASE ~is_first
  <2>1. Base = 0 /\ QuadIdle
    BY <1>2 DEF Base
  <2>2. /\ Keeps /\ m_count' = m_count + 4 /\ m_ireg' = FourMore(m_ireg, d)
        /\ UNCHANGED <<m_mode, m_mode_byte>>
        /\ IF m_count' = 24 THEN m_state' = "QUAD_READ" /\ m_addr' = m_ireg' % MemBytes
           ELSE UNCHANGED <<m_state, m_addr>>
    BY <2>1, AddressClock
  <2>3. m_count' = 4 * (s + 1) /\ (m_count' = 24 <=> s = 5)
    BY <2>1, <2>2
  <2>4. CASE s = 5
    BY <1>2, <2>1, <2>2, <2>3, <2>4 DEF QuadRead, QuadIdle
  <2>5. CASE s # 5
    BY <1>2, <2>1, <2>2, <2>3, <2>5 DEF QuadIdle, StaysContinuous
  <2>6. QED
    BY <2>4, <2>5
<1>3. QED
  BY <1>1, <1>2

LEMMA AddressPhase ==
    ASSUME FetchStep, state = "ADDR", phase_tick % 2 = 1
    PROVE  Keeps /\ FlashFollows'
<1>1. /\ Calm /\ state \in Active /\ A \in Bits24 /\ A \in Nat /\ A + LineBytes <= MemBytes
      /\ is_first \in BOOLEAN
  BY FetchCalm DEF FetchStep, FetchInv, Active, Deselected, Ticks, CtrlTypeOK
<1>2. /\ m_count = Base + 4 * Sent /\ Low(Sent, m_ireg) = High(6 - Sent, A)
      /\ IF is_first \/ Sent = 6 THEN QuadRead ELSE QuadIdle
      /\ Sent = 6 => m_addr = A
  BY DEF FetchStep, FetchInv, FlashFollows
<1>3. PICK s \in Nat \ {0} :
              /\ Sent = s /\ phase_tick = 2 * s - 1 /\ 2 * s <= 12 /\ A' = A
              /\ state' = (IF 2 * s < 12 THEN "ADDR" ELSE "MODE")
              /\ is_first' = is_first
              /\ phase_tick' = (IF 2 * s < 12 THEN 2 * s ELSE 0)
              /\ Sent' = (IF 2 * s < 12 THEN s + 1 ELSE 1)
              /\ Clocked(spi_do' % 2^Lanes)
  <2>1. Ticks[state] = 12 /\ Successor[state] = "MODE"
    BY DEF Ticks, Successor
  <2>2. QED
    BY <1>1, <2>1, FallingTick DEF Deselected
<1>4. Base' = Base
  BY <1>3 DEF Base
<1>5. m_ireg \in Nat /\ m_mode = "QSPI"
  BY <1>1, <1>2 DEF Calm, FlashTypeOK, QuadIdle, QuadRead
<1>6. CASE s < 6
  <2>1. s \in 1 .. 5 /\ s \in 0 .. 5 /\ state' = "ADDR" /\ phase_tick' = 2 * s /\ Sent' = s + 1
    BY <1>3, <1>6
  <2>2. PICK d \in 0 .. 15 : d = spi_do' /\ d = Digit(5 - s, A)
    BY <1>1, <1>3, <2>1, AddressPin
  <2>3. Clocked(d)
    BY <1>3, <1>5, <2>2, LaneBits
  <2>4. m_count = Base + 4 * s /\ IF is_first THEN QuadRead ELSE QuadIdle
    BY <1>1, <1>2, <1>3, <1>6
  <2>5. /\ Keeps /\ m_count' = Base + 4 * (s + 1) /\ m_ireg' = FourMore(m_ireg, d)
        /\ IF is_first \/ s = 5 THEN QuadRead' ELSE QuadIdle'
        /\ s = 5 => m_addr' = m_ireg' % MemBytes
    BY <1>1, <1>3, <2>1, <2>3, <2>4, DigitClock
  <2>6. Low(s + 1, m_ireg') = High(5 - s, A)
    <3>1. Low(s, m_ireg) = High(6 - s, A)
      BY <1>2, <1>3
    <3>2. QED
      BY <1>1, <1>5, <2>1, <2>2, <2>5, <3>1, AddressNibbles
  <2>7. s = 5 => m_addr' = A
    <3>1. ASSUME s = 5 PROVE m_addr' = A
      <4>1. s + 1 = 6 /\ 5 - s = 0
        BY <3>1
      <4>2. m_ireg' \in Bits24
        BY <2>5 DEF Keeps, FlashTypeOK, Bits24
      <4>3. m_ireg' = A
        BY <1>1, <2>6, <4>1, <4>2, LastDigit
      <4>4. A \in 0 .. MemBytes - 1 /\ MemBytes \in Nat \ {0}
        BY <1>1, LineAssumption, GeometryAssumption
      <4>5. A % MemBytes = A
        BY <4>4, SmallRemainder
      <4>6. QED
        BY <2>5, <3>1, <4>3, <4>5
    <3>2. QED
      BY <3>1
  <2>8. 6 - (s + 1) = 5 - s /\ (s + 1 = 6 <=> s = 5)
    BY <2>1
  <2>9. /\ m_count' = Base' + 4 * Sent' /\ Low(Sent', m_ireg') = High(6 - Sent', A')
        /\ Sent' = 6 <=> s = 5
    BY <1>3, <1>4, <2>1, <2>5, <2>6, <2>8
  <2>10. QED
    BY <1>1, <1>3, <2>1, <2>5, <2>7, <2>9 DEF FlashFollows
<1>7. CASE s = 6
  <2>1. state' = "MODE" /\ phase_tick' = 0 /\ Sent' = 1 /\ QuadRead /\ m_addr = A /\ m_count = Base + 24
    BY <1>2, <1>3, <1>7
  <2>2. PICK d \in 0 .. 15 : d = spi_do' /\ d = 10
    BY <2>1 DEF spi_do
  <2>3. Clocked(d)
    BY <1>3, <1>5, <2>2, LaneBits
  <2>4. Reads4 /\ (m_count + 4) % 8 # 0
    BY <2>1 DEF QuadRead, Reads4, QuadReads, Base
  <2>5. /\ Keeps /\ m_count' = m_count + 4 /\ m_ireg' = FourMore(m_ireg, d)
        /\ UNCHANGED <<m_state, m_mode, m_addr, m_mode_byte>>
    BY <1>1, <2>3, <2>4, HalfClock
  <2>6. m_ireg' % 16 = 10
    <3>1. PICK y \in Nat : y = m_ireg % Digits5
      BY <1>5, PowDigits
    <3>2. (y * 16 + d) % 16 = 10
      BY <2>2, <3>1
    <3>3. QED
      BY <2>5, <3>1, <3>2 DEF FourMore
  <2>7. QuadRead' /\ m_addr' = A' /\ Base \in {0, 8}
    BY <1>3, <2>1, <2>5 DEF QuadRead, Base
  <2>8. m_count' = Base' + 24 + 4 * Sent'
    BY <1>4, <2>1, <2>5, <2>7
  <2>9. QED
    BY <2>1, <2>5, <2>6, <2>7, <2>8 DEF FlashFollows
<1>8. QED
  <2>1. s < 6 \/ s = 6
    BY <1>3
  <2>2. QED
    BY <1>6, <1>7, <2>1

LEMMA ModePhase ==
    ASSUME FetchStep, state = "MODE", phase_tick % 2 = 1
    PROVE  Keeps /\ FlashFollows'
<1>1. /\ Calm /\ state \in Active /\ is_first \in BOOLEAN
  BY FetchCalm DEF FetchStep, FetchInv, Active, Deselected, Ticks, CtrlTypeOK
<1>2. /\ m_count = Base + 24 + 4 * Sent /\ QuadRead /\ m_addr = A
      /\ IF Sent = 1 THEN m_ireg % 16 = 10 ELSE m_mode_byte = 160
  BY DEF FetchStep, FetchInv, FlashFollows
<1>3. PICK s \in Nat \ {0} :
              /\ Sent = s /\ phase_tick = 2 * s - 1 /\ 2 * s <= 4 /\ A' = A
              /\ state' = (IF 2 * s < 4 THEN "MODE" ELSE "DUMMY")
              /\ is_first' = is_first
              /\ phase_tick' = (IF 2 * s < 4 THEN 2 * s ELSE 0)
              /\ Sent' = (IF 2 * s < 4 THEN s + 1 ELSE 1)
              /\ Clocked(spi_do' % 2^Lanes)
  <2>1. Ticks[state] = 4 /\ Successor[state] = "DUMMY"
    BY DEF Ticks, Successor
  <2>2. QED
    BY <1>1, <2>1, FallingTick DEF Deselected
<1>4. Base' = Base /\ Base \in {0, 8} /\ (Base = 8 <=> m_state = "QUAD_READ_CMD")
  BY <1>1, <1>2, <1>3 DEF Base, QuadRead
<1>5. m_ireg \in Nat /\ m_mode = "QSPI" /\ Reads4
  BY <1>1, <1>2 DEF Calm, FlashTypeOK, QuadRead, Reads4, QuadReads
<1>6. PICK d \in 0 .. 15 : d = spi_do' /\ d = 0
  BY <1>3 DEF spi_do
<1>7. Clocked(d)
  BY <1>3, <1>5, <1>6, LaneBits
<1>8. CASE s = 1
  <2>1. state' = "MODE" /\ Sent' = 2 /\ m_count = Base + 28 /\ m_ireg % 16 = 10
    BY <1>2, <1>3, <1>4, <1>8
  <2>2. (m_count + 4) % 8 = 0 /\ m_count > 4 /\ m_count = (IF m_state = "QUAD_READ_CMD" THEN 36 ELSE 28)
    BY <1>4, <2>1
  <2>3. /\ Keeps /\ m_count' = m_count + 4 /\ m_ireg' = FourMore(m_ireg, d)
        /\ UNCHANGED <<m_state, m_mode>>
    BY <1>1, <1>5, <1>7, <2>2, ByteClock
  <2>4. m_mode_byte' = m_ireg' % 256 /\ UNCHANGED m_addr
    BY <1>1, <1>5, <1>7, <2>2, ModeByteClock
  <2>5. Low(2, FourMore(m_ireg, d)) = Low(1, m_ireg) * 16 + d
    <3>1. 1 \in 1 .. 5 /\ 1 + 1 = 2
      OBVIOUS
    <3>2. QED
      BY <1>5, <3>1, LowStep
  <2>6. m_mode_byte' = 160
    BY <1>6, <2>1, <2>3, <2>4, <2>5, PowValues DEF Low
  <2>7. QuadRead' /\ m_addr' = A' /\ m_count' = Base' + 24 + 4 * Sent' /\ Sent' # 1
    BY <1>2, <1>3, <1>4, <2>1, <2>3, <2>4 DEF QuadRead
  <2>8. QED
    BY <2>1, <2>3, <2>6, <2>7 DEF FlashFollows
<1>9. CASE s = 2
  <2>1. state' = "DUMMY" /\ Sent' = 1 /\ m_count = Base + 32 /\ m_mode_byte = 160
    BY <1>2, <1>3, <1>4, <1>9
  <2>2. (m_count + 4) % 8 # 0
    BY <1>4, <2>1
  <2>3. /\ Keeps /\ m_count' = m_count + 4 /\ m_ireg' = FourMore(m_ireg, d)
        /\ UNCHANGED <<m_state, m_mode, m_addr, m_mode_byte>>
    BY <1>1, <1>5, <1>7, <2>2, HalfClock
  <2>4. QuadRead' /\ m_addr' = A' /\ m_count' = Base' + 32 + 4 * Sent' /\ Sent' < 4 /\ m_mode_byte' = 160
    BY <1>2, <1>3, <1>4, <2>1, <2>3 DEF QuadRead
  <2>5. QED
    BY <2>1, <2>3, <2>4 DEF FlashFollows
<1>10. QED
  <2>1. s = 1 \/ s = 2
    BY <1>3
  <2>2. QED
    BY <1>8, <1>9, <2>1

LEMMA DummyPhase ==
    ASSUME FetchStep, state = "DUMMY", phase_tick % 2 = 1
    PROVE  Keeps /\ FlashFollows'
<1>1. /\ Calm /\ state \in Active /\ is_first \in BOOLEAN /\ A \in Nat /\ A \in Address
  <2>1. A \in Nat /\ A + LineBytes <= MemBytes
    BY FetchCalm DEF FetchStep
  <2>2. A \in Address
    BY <2>1, LineAssumption, GeometryAssumption DEF Address
  <2>3. QED
    BY <2>1, <2>2, FetchCalm DEF FetchStep, FetchInv, Active, Deselected, Ticks, CtrlTypeOK
<1>2. /\ m_count = Base + 32 + 4 * Sent /\ QuadRead /\ m_mode_byte = 160
      /\ IF Sent < 4 THEN m_addr = A ELSE m_addr = A + 1 /\ m_oreg % 256 = m_mem[A]
  BY DEF FetchStep, FetchInv, FlashFollows
<1>3. PICK s \in Nat \ {0} :
              /\ Sent = s /\ phase_tick = 2 * s - 1 /\ 2 * s <= 8 /\ A' = A
              /\ state' = (IF 2 * s < 8 THEN "DUMMY" ELSE "DATA")
              /\ is_first' = is_first
              /\ phase_tick' = (IF 2 * s < 8 THEN 2 * s ELSE 0)
              /\ Sent' = (IF 2 * s < 8 THEN s + 1 ELSE 1)
              /\ Clocked(spi_do' % 2^Lanes)
  <2>1. Ticks[state] = 8 /\ Successor[state] = "DATA"
    BY DEF Ticks, Successor
  <2>2. QED
    BY <1>1, <2>1, FallingTick DEF Deselected
<1>4. Base' = Base /\ Base \in {0, 8} /\ (Base = 8 <=> m_state = "QUAD_READ_CMD")
  BY <1>1, <1>2, <1>3 DEF Base, QuadRead
<1>5. m_mode = "QSPI" /\ Reads4
  BY <1>2 DEF QuadRead, Reads4, QuadReads
<1>6. PICK d \in 0 .. 15 : d = spi_do' /\ d = 0
  BY <1>3 DEF spi_do
<1>7. Clocked(d)
  BY <1>3, <1>5, <1>6, LaneBits
<1>8. m_count = Base + 32 + 4 * s
  BY <1>2, <1>3
<1>9. CASE s < 4
  <2>1. state' = "DUMMY" /\ Sent' = s + 1 /\ m_addr = A
    BY <1>2, <1>3, <1>9
  <2>2. CASE s = 2
    <3>1. (m_count + 4) % 8 # 0 /\ s + 1 < 4
      BY <1>4, <1>8, <2>2
    <3>2. Keeps /\ m_count' = m_count + 4 /\ UNCHANGED <<m_state, m_mode, m_addr, m_mode_byte>>
      BY <1>1, <1>5, <1>7, <3>1, HalfClock
    <3>3. m_count' = Base' + 32 + 4 * Sent' /\ Sent' < 4 /\ m_addr' = A' /\ QuadRead' /\ m_mode_byte' = 160
      BY <1>2, <1>3, <1>4, <1>8, <2>1, <3>1, <3>2 DEF QuadRead
    <3>4. QED
      BY <2>1, <3>2, <3>3 DEF FlashFollows
  <2>3. CASE s = 1
    <3>1. /\ (m_count + 4) % 8 = 0 /\ m_count > 4 /\ s + 1 < 4
          /\ m_count \in IF m_state = "QUAD_READ_CMD" THEN {12, 20, 44} ELSE {36}
      BY <1>4, <1>8, <2>3
    <3>2. Keeps /\ m_count' = m_count + 4 /\ UNCHANGED <<m_state, m_mode>>
      BY <1>1, <1>5, <1>7, <3>1, ByteClock
    <3>3. UNCHANGED <<m_addr, m_mode_byte>>
      BY <1>1, <1>5, <1>7, <3>1, OtherByteClock
    <3>4. m_count' = Base' + 32 + 4 * Sent' /\ Sent' < 4 /\ m_addr' = A' /\ QuadRead' /\ m_mode_byte' = 160
      BY <1>2, <1>3, <1>4, <1>8, <2>1, <3>1, <3>2, <3>3 DEF QuadRead
    <3>5. QED
      BY <2>1, <3>2, <3>4 DEF FlashFollows
  <2>4. CASE s = 3
    <3>1. /\ (m_count + 4) % 8 = 0 /\ m_count > 4
          /\ m_count + 4 >= IF m_state = "QUAD_READ_CMD" THEN 56 ELSE 48
      BY <1>4, <1>8, <2>4
    <3>2. Keeps /\ m_count' = m_count + 4 /\ UNCHANGED <<m_state, m_mode>>
      BY <1>1, <1>5, <1>7, <3>1, ByteClock
    <3>3. m_addr' = m_addr + 1 /\ UNCHANGED m_mode_byte /\ m_oreg' % 256 = m_mem[A]
      BY <1>1, <1>5, <1>7, <2>1, <3>1, DataByteClock
    <3>4. m_mem' = m_mem
      BY <3>2 DEF Keeps
    <3>5. m_count' = Base' + 32 + 4 * Sent' /\ Sent' = 4 /\ m_addr' = A' + 1 /\ QuadRead' /\ m_mode_byte' = 160
      BY <1>2, <1>3, <1>4, <1>8, <2>1, <2>4, <3>2, <3>3 DEF QuadRead
    <3>6. m_oreg' % 256 = m_mem'[A'] /\ ~(Sent' < 4)
      BY <1>3, <3>3, <3>4, <3>5
    <3>7. QED
      BY <2>1, <3>2, <3>5, <3>6 DEF FlashFollows
  <2>5. QED
    BY <1>9, <2>2, <2>3, <2>4
<1>10. CASE s = 4
  <2>1. state' = "DATA" /\ Sent' = 1 /\ phase_tick' = 0 /\ m_addr = A + 1 /\ m_oreg % 256 = m_mem[A]
    BY <1>2, <1>3, <1>10
  <2>2. (m_count + 4) % 8 # 0
    BY <1>4, <1>8, <1>10
  <2>3. /\ Keeps /\ m_count' = m_count + 4
        /\ UNCHANGED <<m_state, m_mode, m_addr, m_mode_byte>>
        /\ m_oreg' = (m_oreg * 16) % 4096
    BY <1>1, <1>5, <1>7, <2>2, HalfClock
  <2>4. m_oreg' = m_mem[A] * 16
    <3>1. m_oreg \in Nat
      BY <1>1 DEF Calm, FlashTypeOK
    <3>2. (m_oreg * 16) % 4096 = (m_oreg % 256) * 16
      BY <3>1
    <3>3. QED
      BY <2>1, <2>3, <3>2
  <2>5. m_mem' = m_mem /\ phase_tick' \div 4 = 0 /\ phase_tick' % 4 < 2
    BY <2>1, <2>3 DEF Keeps
  <2>6. m_count' = Base' + 48 + 4 * Sent' /\ QuadRead' /\ m_mode_byte' = 160
    BY <1>2, <1>3, <1>4, <1>8, <1>10, <2>1, <2>3 DEF QuadRead
  <2>7. m_addr' = (A' + phase_tick' \div 4) + 1 /\ m_oreg' = m_mem'[A' + phase_tick' \div 4] * 16
    BY <1>1, <1>3, <2>1, <2>3, <2>4, <2>5
  <2>8. QED
    BY <2>1, <2>3, <2>5, <2>6, <2>7 DEF FlashFollows
<1>11. QED
  <2>1. s < 4 \/ s = 4
    BY <1>3
  <2>2. QED
    BY <1>9, <1>10, <2>1

LEMMA DataPhase ==
    ASSUME FetchStep, state = "DATA", phase_tick % 2 = 1
    PROVE  Keeps /\ FlashFollows'
<1>1. /\ Calm /\ state \in Active /\ is_first \in BOOLEAN /\ A \in Nat /\ A + LineBytes <= MemBytes
      /\ LineBytes \in Nat \ {0} /\ phase_tick \in Nat /\ MemBytes \in Nat
  BY FetchCalm, LineAssumption, GeometryAssumption DEF FetchStep, FetchInv, Active, Deselected, Ticks, CtrlTypeOK
<1>2. m_count = Base + 48 + 4 * Sent /\ QuadRead /\ m_mode_byte = 160
  BY DEF FetchStep, FetchInv, FlashFollows
<1>3. PICK s \in Nat \ {0} :
              /\ Sent = s /\ phase_tick = 2 * s - 1 /\ 2 * s <= 4 * LineBytes /\ A' = A
              /\ state' = (IF 2 * s < 4 * LineBytes THEN "DATA" ELSE "DONE_WAIT")
              /\ is_first' = (is_first /\ ~(2 * s = 4 * LineBytes))
              /\ phase_tick' = (IF 2 * s < 4 * LineBytes THEN 2 * s ELSE 0)
              /\ Sent' = (IF 2 * s < 4 * LineBytes THEN s + 1 ELSE 1)
              /\ IF state' \in Deselected THEN Deselect ELSE Clocked(spi_do' % 2^Lanes)
  <2>1. Ticks[state] = 4 * LineBytes /\ Successor[state] = "DONE_WAIT"
    BY DEF Ticks, Successor
  <2>2. QED
    BY <1>1, <2>1, FallingTick
<1>4. m_mode = "QSPI" /\ Reads4 /\ Base \in {0, 8} /\ (Base = 8 <=> m_state = "QUAD_READ_CMD")
  BY <1>1, <1>2 DEF QuadRead, Reads4, QuadReads, Base
<1>5. m_count = Base + 48 + 4 * s
  BY <1>2, <1>3
<1>6. CASE 2 * s < 4 * LineBytes
  <2>1. state' = "DATA" /\ Sent' = s + 1 /\ phase_tick' = 2 * s /\ is_first' = is_first
    BY <1>1, <1>3, <1>6
  <2>2. PICK d \in 0 .. 15 : d = spi_do' /\ d = 0
    BY <2>1 DEF spi_do
  <2>3. Clocked(d)
    BY <1>3, <1>4, <2>1, <2>2, LaneBits DEF Deselected
  <2>4. Base' = Base
    BY <2>1 DEF Base
  <2>5. CASE s % 2 = 1
    <3>1. PICK j \in Nat : s = 2 * j + 1
      <4>1. s \div 2 \in Nat /\ s = 2 * (s \div 2) + 1
        BY <2>5
      <4>2. QED
        BY <4>1
    <3>2. phase_tick = 4 * j + 1 /\ phase_tick \div 4 = j /\ phase_tick % 4 < 2
      BY <1>3, <3>1
    <3>3. phase_tick' = 4 * j + 2 /\ phase_tick' \div 4 = j /\ ~(phase_tick' % 4 < 2) /\ j < LineBytes
      BY <1>1, <1>6, <2>1, <3>1
    <3>4. m_addr = A + j + 1 /\ m_oreg = m_mem[A + j] * 16
      BY <3>2 DEF FetchStep, FetchInv, FlashFollows
    <3>5. /\ (m_count + 4) % 8 = 0 /\ m_count > 4
          /\ m_count + 4 >= IF m_state = "QUAD_READ_CMD" THEN 56 ELSE 48
      BY <1>4, <1>5, <3>1
    <3>6. Keeps /\ m_count' = m_count + 4 /\ UNCHANGED <<m_state, m_mode>>
      BY <1>1, <1>4, <2>3, <3>5, ByteClock
    <3>7. /\ m_addr' = m_addr + 1 /\ UNCHANGED m_mode_byte
          /\ m_oreg' \div 256 = ((m_oreg * 16) % 4096) \div 256
          /\ m_addr \in Address => m_oreg' % 256 = m_mem[m_addr]
      BY <1>1, <1>4, <2>3, <3>5, DataByteClock
    <3>8. m_oreg' \div 256 = m_mem[A + j] % 16
      <4>1. A + j \in Address
        BY <1>1, <3>1, <3>3 DEF Address
      <4>2. PICK b \in 0 .. 255 : b = m_mem[A + j]
        BY <1>1, <4>1 DEF Calm, FlashTypeOK, Byte
      <4>3. (((b * 16) * 16) % 4096) \div 256 = b % 16
        BY <4>2
      <4>4. QED
        BY <3>4, <3>7, <4>2, <4>3
    <3>9. m_mem' = m_mem
      BY <3>6 DEF Keeps
    <3>10. QuadRead' /\ m_mode_byte' = 160
      BY <1>2, <2>1, <3>6, <3>7 DEF QuadRead
    <3>11. m_count' = Base' + 48 + 4 * Sent'
      BY <1>4, <1>5, <2>1, <2>4, <3>6
    <3>12. /\ m_addr' = A' + phase_tick' \div 4 + 2
           /\ m_oreg' \div 256 = m_mem'[A' + phase_tick' \div 4] % 16
           /\ A' + phase_tick' \div 4 + 1 \in Address' => m_oreg' % 256 = m_mem'[A' + phase_tick' \div 4 + 1]
      <4>1. A' + phase_tick' \div 4 = A + j /\ A + j \in Nat
        BY <1>1, <1>3, <3>1, <3>3
      <4>2. m_addr' = A + j + 2
        BY <1>1, <3>1, <3>4, <3>7
      <4>3. Address' = Address
        BY DEF Address
      <4>4. QED
        BY <3>4, <3>7, <3>8, <3>9, <4>1, <4>2, <4>3
    <3>13. QED
      BY <2>1, <3>3, <3>6, <3>10, <3>11, <3>12 DEF FlashFollows
  <2>6. CASE s % 2 = 0
    <3>1. PICK j \in Nat \ {0} : s = 2 * j
      <4>1. s \div 2 \in Nat \ {0} /\ s = 2 * (s \div 2)
        BY <2>6
      <4>2. QED
        BY <4>1
    <3>2. phase_tick = 4 * (j - 1) + 3 /\ phase_tick \div 4 = j - 1 /\ ~(phase_tick % 4 < 2)
      BY <1>3, <3>1
    <3>3. phase_tick' = 4 * j /\ phase_tick' \div 4 = j /\ phase_tick' % 4 < 2 /\ j < LineBytes
      BY <1>1, <1>6, <2>1, <3>1
    <3>4. m_addr = A + (j - 1) + 2 /\ A + (j - 1) + 1 \in Address => m_oreg % 256 = m_mem[A + (j - 1) + 1]
      BY <3>2 DEF FetchStep, FetchInv, FlashFollows
    <3>5. A + j \in Address /\ A + (j - 1) + 1 = A + j
      BY <1>1, <3>1, <3>3 DEF Address
    <3>6. m_addr = A + j + 1
      <4>1. m_addr = A + (j - 1) + 2
        BY <3>2 DEF FetchStep, FetchInv, FlashFollows
      <4>2. QED
        BY <1>1, <3>1, <4>1
    <3>7. m_oreg % 256 = m_mem[A + j]
      <4>1. A + (j - 1) + 1 \in Address => m_oreg % 256 = m_mem[A + (j - 1) + 1]
        BY <3>2 DEF FetchStep, FetchInv, FlashFollows
      <4>2. QED
        BY <3>5, <4>1
    <3>8. (m_count + 4) % 8 # 0
      BY <1>4, <1>5, <3>1
    <3>9. /\ Keeps /\ m_count' = m_count + 4
          /\ UNCHANGED <<m_state, m_mode, m_addr, m_mode_byte>>
          /\ m_oreg' = (m_oreg * 16) % 4096
      BY <1>1, <1>4, <2>3, <3>8, HalfClock
    <3>10. m_oreg' = m_mem[A + j] * 16
      <4>1. m_oreg \in Nat
        BY <1>1 DEF Calm, FlashTypeOK
      <4>2. (m_oreg * 16) % 4096 = (m_oreg % 256) * 16
        BY <4>1
      <4>3. QED
        BY <3>7, <3>9, <4>2
    <3>11. m_mem' = m_mem
      BY <3>9 DEF Keeps
    <3>12. QuadRead' /\ m_mode_byte' = 160
      BY <1>2, <2>1, <3>9 DEF QuadRead
    <3>13. m_count' = Base' + 48 + 4 * Sent'
      BY <1>4, <1>5, <2>1, <2>4, <3>9
    <3>14. m_addr' = A' + phase_tick' \div 4 + 1 /\ m_oreg' = m_mem'[A' + phase_tick' \div 4] * 16
      BY <1>3, <3>3, <3>6, <3>9, <3>10, <3>11
    <3>15. QED
      BY <2>1, <3>3, <3>9, <3>12, <3>13, <3>14 DEF FlashFollows
  <2>7. QED
    <3>1. s % 2 = 0 \/ s % 2 = 1
      BY <1>3
    <3>2. QED
      BY <2>5, <2>6, <3>1
<1>7. CASE 2 * s = 4 * LineBytes
  <2>1. state' = "DONE_WAIT" /\ ~is_first' /\ Deselect
    <3>1. ~(2 * s < 4 * LineBytes)
      BY <1>1, <1>7
    <3>2. state' = "DONE_WAIT"
      BY <1>3, <3>1
    <3>3. is_first' = (is_first /\ ~(2 * s = 4 * LineBytes))
      BY <1>3
    <3>4. ~is_first'
      BY <1>7, <3>3, Zenon
    <3>5. Deselect
      BY <1>3, <3>2 DEF Deselected
    <3>6. QED
      BY <3>2, <3>4, <3>5
  <2>2. StaysContinuous
    BY <1>2 DEF StaysContinuous
  <2>3. Keeps /\ Quiet' /\ QuadIdle'
    BY <1>1, <1>4, <2>1, <2>2, FetchDeselect
  <2>4. QED
    BY <2>1, <2>3 DEF FlashFollows
<1>8. QED
  <2>1. 2 * s < 4 * LineBytes \/ 2 * s = 4 * LineBytes
    BY <1>1, <1>3
  <2>2. QED
    BY <1>6, <1>7, <2>1

-----------------------------------------------------------------------------
(* The flash side of the invariant, for every step of a fetch.             *)

\* The flash rests, or it is inside a quad read.
LEMMA FlashShape ==
    ASSUME FetchInv
    PROVE  SpiReady \/ QuadIdle \/ Reads4
<1>1. FlashFollows /\ CtrlTypeOK
  BY DEF FetchInv
<1>2. QuadRead => Reads4
  BY DEF QuadRead, Reads4, QuadReads
<1>3. Misread => QuadIdle \/ Reads4
  BY DEF Misread, Reads4, QuadReads
<1>4. CASE state \in {"IDLE", "DONE_WAIT", "WAIT_66", "TRST_WAIT", "CMD_99"}
  BY <1>1, <1>4 DEF FlashFollows
<1>5. CASE state = "CMD_66"
  BY <1>1, <1>3, <1>5 DEF FlashFollows
<1>6. CASE state \in {"CMD_EB", "ADDR"}
  BY <1>1, <1>2, <1>6 DEF FlashFollows
<1>7. CASE state \in {"MODE", "DUMMY", "DATA"}
  BY <1>1, <1>2, <1>7 DEF FlashFollows
<1>8. QED
  BY <1>1, <1>4, <1>5, <1>6, <1>7 DEF CtrlTypeOK, Ticks

\* What the invariant says of the serial clock.
ClockFollows == state \notin Deselected => m_last_sck = phase_tick % 2

LEMMA FetchGoesOn ==
    ASSUME FetchStep
    PROVE  Keeps /\ FlashFollows' /\ ClockFollows'
<1>1. CtrlTypeOK /\ state # "IDLE" /\ phase_tick \in Nat /\ Calm
  BY FetchCalm DEF FetchStep, FetchInv, CtrlTypeOK
<1>2. CASE state \in {"WAIT_66", "TRST_WAIT"}
  BY <1>2, WaitPhase DEF ClockFollows
<1>3. CASE state = "DONE_WAIT"
  BY <1>3, DonePhase DEF ClockFollows
<1>4. CASE state \in Active /\ phase_tick % 2 = 0
  BY <1>4, RisingTick DEF ClockFollows
<1>5. CASE state \in Active /\ phase_tick % 2 = 1
  <2>1. Keeps /\ FlashFollows'
    <3>1. state \in {"CMD_66", "CMD_99", "CMD_EB", "ADDR", "MODE", "DUMMY", "DATA"}
      BY <1>5 DEF Active, Ticks, Deselected
    <3>2. QED
      BY <1>5, <3>1, Reset1Phase, Reset2Phase, ReadCommandPhase, AddressPhase, ModePhase, DummyPhase,
         DataPhase
  <2>2. ClockFollows'
    <3>1. PICK s \in Nat \ {0} :
              /\ phase_tick' = (IF 2 * s < Ticks[state] THEN 2 * s ELSE 0)
              /\ IF state' \in Deselected THEN Deselect ELSE Clocked(spi_do' % 2^Lanes)
      BY <1>5, FallingTick
    <3>2. phase_tick' % 2 = 0
      BY <3>1
    <3>3. state' \notin Deselected => m_last_sck' = 0
      BY <3>1 DEF Clocked
    <3>4. QED
      BY <3>2, <3>3 DEF ClockFollows
  <2>3. QED
    BY <2>1, <2>2
<1>6. QED
  <2>1. state \in Active \cup {"WAIT_66", "TRST_WAIT", "DONE_WAIT"}
    BY <1>1 DEF CtrlTypeOK, Active, Ticks, Deselected
  <2>2. phase_tick % 2 = 0 \/ phase_tick % 2 = 1
    BY <1>1
  <2>3. QED
    BY <1>2, <1>3, <1>4, <1>5, <2>1, <2>2

\* The controller idles, or is reset whatever it does.
LEMMA FlashRests ==
    ASSUME FetchInv, state' = "IDLE", FlashCall(csn', sck', spi_do'),
           (state = "IDLE" /\ is_first' = is_first) \/ is_first'
    PROVE  Keeps /\ FlashFollows' /\ ClockFollows'
<1>1. Deselect /\ Calm
  BY CallDeselects, FetchCalm DEF Deselected
<1>2. Keeps /\ Quiet' /\ (SpiReady' \/ QuadIdle') /\ (QuadIdle => QuadIdle')
  BY <1>1, FlashShape, FetchDeselect
<1>3. state = "IDLE" => QuadIdle \/ is_first
  BY DEF FetchInv, FlashFollows
<1>4. QuadIdle' \/ (is_first' /\ SpiReady')
  BY <1>2, <1>3
<1>5. QED
  BY <1>2, <1>4 DEF FlashFollows, ClockFollows, Deselected

\* A fetch begins.
LEMMA FetchBegins ==
    ASSUME FetchInv, state = "IDLE", NEW a \in Lines, CtrlClock(TRUE, a, flash_di),
           FlashCall(csn', sck', spi_do')
    PROVE  Keeps /\ FlashFollows' /\ ClockFollows'
<1>1. /\ Calm /\ Quiet /\ (QuadIdle \/ (is_first /\ SpiReady)) /\ is_first \in BOOLEAN
  BY FetchCalm DEF FetchInv, FlashFollows, CtrlTypeOK
<1>2. /\ state' = (IF is_first THEN "CMD_66" ELSE "ADDR") /\ phase_tick' = 0 /\ A' = a
      /\ is_first' = is_first
  <2>1. next_state(TRUE) = IF is_first THEN "CMD_66" ELSE "ADDR"
    BY DEF next_state
  <2>2. is_first' = (is_first /\ ~(state = "DATA" /\ LastTick))
    BY DEF CtrlClock
  <2>3. is_first' = is_first
    BY <1>1, <2>2
  <2>4. QED
    BY <2>1, <2>3 DEF CtrlClock
<1>3. Sent' = 1 /\ phase_tick' % 2 = 0 /\ phase_tick' = 2 * 0
  BY <1>2 DEF Sent
<1>4. Clocked(spi_do' % 2^Lanes) /\ state' \notin Deselected
  <2>1. state' \notin Deselected /\ m_last_sck = 1
    BY <1>1, <1>2 DEF Deselected, Quiet
  <2>2. QED
    BY <1>3, <2>1, CallShifts
<1>5. ClockFollows'
  BY <1>3, <1>4 DEF ClockFollows, Clocked
<1>6. CASE is_first
  <2>1. state' = "CMD_66" /\ is_first'
    BY <1>2, <1>6
  <2>2. spi_do' = (102 \div Pow(2, 7)) % 2 /\ spi_do' \in {0, 1} /\ 102 \in Commands
    <3>1. state' \in DOMAIN ByteSent /\ ByteSent[state'] = 102 /\ 0 \in 0 .. 7 /\ 7 - 0 = 7
      BY <2>1 DEF ByteSent
    <3>2. QED
      BY <1>3, <3>1, CommandPin
  <2>3. PICK d \in {0, 1} : d = spi_do' /\ d \in 0 .. 15
    BY <2>2
  <2>4. CASE SpiReady
    <3>1. Clocked(d)
      BY <1>4, <2>3, <2>4, LaneBits DEF SpiReady
    <3>2. Keeps /\ m_count' = 1 /\ m_ireg' = 102 \div Pow(2, 7) /\ SpiReady'
      BY <1>1, <2>2, <2>3, <2>4, <3>1, OneLaneBegins
    <3>3. OneLane(102)'
      <4>1. 8 - Sent' = 7
        BY <1>3
      <4>2. QED
        BY <1>3, <3>2, <4>1 DEF OneLane
    <3>4. QED
      BY <1>5, <2>1, <3>2, <3>3 DEF FlashFollows
  <2>5. CASE QuadIdle
    <3>1. Clocked(d) /\ m_mode = "QSPI" /\ m_state = "QUAD_READ_IDLE" /\ StaysContinuous
      BY <1>4, <2>3, <2>5, LaneBits DEF QuadIdle
    <3>2. /\ Keeps /\ m_count' = 4 /\ m_ireg' = FourMore(0, d)
          /\ UNCHANGED <<m_mode, m_mode_byte, m_state>>
      <4>1. m_count = 0 /\ m_ireg = 0
        BY <1>1 DEF Quiet
      <4>2. QED
        BY <1>1, <2>3, <2>5, <3>1, <4>1, AddressClock
    <3>3. m_ireg' % 16 = d
      <4>1. PICK y \in Nat : y = 0 % Digits5
        BY PowDigits
      <4>2. (y * 16 + d) % 16 = d
        BY <2>3, <4>1
      <4>3. QED
        BY <3>2, <4>1, <4>2 DEF FourMore
    <3>4. d = CommandBit(102)'
      BY <2>1, <2>3 DEF spi_do
    <3>5. QuadIdle'
      BY <3>1, <3>2 DEF QuadIdle, StaysContinuous
    <3>6. Misread'
      BY <1>3, <3>1, <3>2, <3>3, <3>4, <3>5 DEF Misread
    <3>7. QED
      BY <1>5, <2>1, <3>2, <3>6 DEF FlashFollows
  <2>6. QED
    BY <1>1, <2>4, <2>5
<1>7. CASE ~is_first
  <2>1. state' = "ADDR" /\ ~is_first' /\ QuadIdle
    BY <1>1, <1>2, <1>7
  <2>2. a \in Nat /\ a \in Bits24
    <3>1. a \in Nat /\ a + LineBytes <= MemBytes
      BY LinesAssumption
    <3>2. MemBytes <= 2^24 /\ MemBytes \in Nat
      BY GeometryAssumption
    <3>3. a <= 2^24 - 1
      BY <3>1, <3>2, LineAssumption
    <3>4. QED
      BY <3>1, <3>3 DEF Bits24
  <2>3. PICK d \in 0 .. 15 : d = spi_do' /\ d = Digit(5, a)
    <3>1. phase_tick' \div 2 = 0 /\ 5 - 0 = 5
      BY <1>3
    <3>2. spi_do' = (a \div 16^5) % 16
      <4>1. spi_do' = (A' \div 16^(5 - (phase_tick' \div 2))) % 16
        BY <2>1 DEF spi_do
      <4>2. spi_do' = (A' \div Pow(16, 5 - (phase_tick' \div 2))) % 16
        BY <4>1, PowIs
      <4>3. spi_do' = (a \div Pow(16, 5)) % 16
        BY <1>2, <3>1, <4>2
      <4>4. QED
        BY <4>3, PowIs
    <3>3. spi_do' = Digit(5, a)
      BY <3>2, PowIs DEF Digit, High
    <3>4. Digit(5, a) \in 0 .. 15
      <4>1. a \div Digits5 \in Nat
        BY <2>2, PowDigits
      <4>2. QED
        BY <4>1, PowDigits DEF Digit, High
    <3>5. QED
      BY <3>3, <3>4
  <2>4. Clocked(d)
    BY <1>4, <2>1, <2>3, LaneBits DEF QuadIdle
  <2>5. /\ Keeps /\ m_count' = 4 /\ m_ireg' = FourMore(m_ireg, d) /\ m_ireg = 0
        /\ UNCHANGED <<m_mode, m_mode_byte, m_state>>
    <3>1. m_count = 0 /\ m_ireg = 0
      BY <1>1 DEF Quiet
    <3>2. QED
      BY <1>1, <2>1, <2>4, <3>1, AddressClock
  <2>6. Low(1, m_ireg') = High(5, a)
    BY <2>2, <2>3, <2>5, FirstDigit
  <2>7. QuadIdle' /\ Base' = 0
    BY <2>1, <2>5 DEF QuadIdle, StaysContinuous, Base
  <2>8. Low(Sent', m_ireg') = High(6 - Sent', A') /\ m_count' = Base' + 4 * Sent' /\ Sent' # 6
    BY <1>2, <1>3, <2>5, <2>6, <2>7
  <2>9. QED
    BY <1>5, <2>1, <2>5, <2>7, <2>8 DEF FlashFollows
<1>8. QED
  BY <1>1, <1>6, <1>7

-----------------------------------------------------------------------------
(* The controller's side: the line fills with what the memory holds.       *)

LEMMA SelfRemainder ==
    ASSUME NEW n \in Nat \ {0}
    PROVE  n % n = 0
<1> DEFINE q == n \div n
           r == n % n
<1>1. q \in Int /\ r \in 0 .. n - 1 /\ n = (n * q) + r
  BY DivMod
<1>2. n * 1 = n /\ 0 \in 0 .. n - 1
  OBVIOUS
<1> HIDE DEF q, r
<1>3. n * q + r = n * 1 + 0
  BY <1>1, <1>2
<1>4. r = 0
  BY <1>1, <1>2, <1>3, RemainderUnique
<1>5. QED
  BY <1>4 DEF r

\* No bit of the line comes in.
LEMMA NoCapture ==
    ASSUME FetchStep, state # "DATA" \/ phase_tick % 2 = 0
    PROVE  UNCHANGED <<dbyte, data_reg, byte_idx, word_done>>
<1>1. ~(state = "DATA" /\ phase_tick % 2 = 1)
  OBVIOUS
<1>2. QED
  BY <1>1 DEF FetchStep, CtrlClock

\* The state and the ticks keep their types.
LEMMA StepTypes ==
    ASSUME FetchStep, dbyte' \in 0 .. 15, data_reg' \in [0 .. LineBytes - 1 -> 0 .. 255],
           byte_idx' \in 0 .. LineBytes - 1, word_done' \subseteq 0 .. (LineBytes \div 4) - 1
    PROVE  CtrlTypeOK'
<1>1. CtrlTypeOK /\ state # "IDLE"
  BY DEF FetchStep, FetchInv
<1>2. state \in DOMAIN Ticks /\ phase_tick \in Nat
  BY <1>1, TickTypes
<1>3. CASE ~LastTick
  <2>1. state' = state /\ phase_tick' = phase_tick + 1 /\ phase_tick' < Ticks[state] /\ is_first' \in BOOLEAN
        /\ done_reg' \in BOOLEAN
    BY <1>1, <1>3, CtrlWaits DEF CtrlTypeOK
  <2>2. phase_tick' \in Nat
    BY <1>2, <2>1
  <2>3. QED
    BY <1>1, <2>1, <2>2 DEF CtrlTypeOK
<1>4. CASE LastTick
  <2>1. state' = Successor[state] /\ phase_tick' = 0
    BY <1>4, CtrlAdvances
  <2>2. is_first' \in BOOLEAN /\ done_reg' \in BOOLEAN
    BY <1>4, CtrlAdvances
  <2>3. state' \in {"IDLE"} \cup DOMAIN Ticks
    BY <1>2, <2>1 DEF Ticks, Successor
  <2>4. state' # "IDLE" => 0 < Ticks[state']
    BY <2>3, LineAssumption, TrstAssumption DEF Ticks
  <2>5. QED
    BY <2>1, <2>2, <2>3, <2>4 DEF CtrlTypeOK
<1>5. QED
  BY <1>3, <1>4

\* The line grows by a byte.
LEMMA CollectsByte ==
    ASSUME NEW j \in Nat, j < LineBytes, Collected(j), LineBytes \in Nat, LineBytes % 4 = 0,
           data_reg \in [0 .. LineBytes - 1 -> 0 .. 255],
           A' = A, m_mem' = m_mem, data_reg' = [data_reg EXCEPT ![j] = m_mem[A + j]],
           word_done' = IF j % 4 = 3 THEN word_done \cup {j \div 4} ELSE word_done
    PROVE  Collected(j + 1)'
<1>1. word_done = {w \in 0 .. (LineBytes \div 4) - 1 : 4 * w + 4 <= j}
      /\ \A i \in 0 .. j - 1 : data_reg[i] = m_mem[A + i]
  BY DEF Collected
<1>2. word_done' = {w \in 0 .. (LineBytes \div 4) - 1 : 4 * w + 4 <= j + 1}
  <2>1. CASE j % 4 = 3
    <3>1. PICK v \in 0 .. (LineBytes \div 4) - 1 : v = j \div 4 /\ 4 * v + 4 = j + 1
      BY <2>1
    <3>2. \A w \in 0 .. (LineBytes \div 4) - 1 : 4 * w + 4 <= j + 1 <=> 4 * w + 4 <= j \/ w = v
      BY <3>1
    <3>3. QED
      BY <1>1, <2>1, <3>1, <3>2
  <2>2. CASE j % 4 # 3
    <3>1. \A w \in 0 .. (LineBytes \div 4) - 1 : 4 * w + 4 <= j + 1 <=> 4 * w + 4 <= j
      <4>1. TAKE w \in 0 .. (LineBytes \div 4) - 1
      <4>2. w \in Nat
        OBVIOUS
      <4>3. (4 * w + 3) % 4 = 3
        BY <4>2
      <4>4. j # 4 * w + 3
        BY <2>2, <4>3
      <4>5. QED
        BY <4>2, <4>4
    <3>2. QED
      BY <1>1, <2>2, <3>1
  <2>3. QED
    BY <2>1, <2>2
<1>3. \A i \in 0 .. (j + 1) - 1 : data_reg'[i] = m_mem'[A' + i]
  BY <1>1
<1>4. QED
  BY <1>2, <1>3 DEF Collected

LEMMA LineGoesOn ==
    ASSUME FetchStep, state # "DATA" \/ phase_tick % 2 = 0
    PROVE  CtrlTypeOK' /\ LineFollows'
<1>1. CtrlTypeOK /\ LineFollows /\ state # "IDLE" /\ Keeps /\ phase_tick \in Nat
  BY FetchGoesOn DEF FetchStep, FetchInv, CtrlTypeOK
<1>2. UNCHANGED <<dbyte, data_reg, byte_idx, word_done>> /\ m_mem' = m_mem
  BY <1>1, NoCapture DEF Keeps
<1>3. CtrlTypeOK'
  BY <1>1, <1>2, StepTypes DEF CtrlTypeOK
<1>4. LineFollows'
  <2>1. CASE ~LastTick
    <3>1. state' = state /\ phase_tick' = phase_tick + 1 /\ UNCHANGED <<A, done_reg>>
      BY <2>1, CtrlWaits
    <3>2. Collected(byte_idx)' = Collected(byte_idx) /\ Collected(LineBytes)' = Collected(LineBytes)
      BY <1>2, <3>1 DEF Collected
    <3>3. CASE state = "DATA"
      <4>1. phase_tick' \div 4 = phase_tick \div 4 /\ (phase_tick' % 4 >= 2 <=> phase_tick % 4 >= 2)
        BY <1>1, <3>1, <3>3
      <4>2. QED
        BY <1>1, <1>2, <3>1, <3>2, <3>3, <4>1 DEF LineFollows
    <3>4. CASE state # "DATA"
      BY <1>1, <1>2, <3>1, <3>2, <3>4 DEF LineFollows
    <3>5. QED
      BY <3>3, <3>4
  <2>2. CASE LastTick
    <3>1. /\ state' = Successor[state] /\ phase_tick' = 0 /\ A' = A /\ done_reg' = (done_reg \/ state = "DONE_WAIT")
          /\ phase_tick = Ticks[state] - 1
      BY <2>2, CtrlAdvances
    <3>2. state # "DATA"
      <4>1. (4 * LineBytes - 1) % 2 = 1
        BY LineAssumption
      <4>2. QED
        BY <3>1, <4>1 DEF Ticks
    <3>3. Collected(LineBytes)' = Collected(LineBytes)
      BY <1>2, <3>1 DEF Collected
    <3>4. CASE state = "DONE_WAIT"
      <4>1. state' = "IDLE" /\ byte_idx = 0 /\ Collected(LineBytes)
        BY <1>1, <3>1, <3>4 DEF LineFollows, Successor
      <4>2. QED
        BY <1>2, <3>3, <4>1 DEF LineFollows
    <3>5. CASE state = "DUMMY"
      <4>1. state' = "DATA" /\ byte_idx = 0 /\ word_done = {} /\ ~done_reg
        BY <1>1, <3>1, <3>5 DEF LineFollows, Successor
      <4>2. ~done_reg'
        BY <1>1, <3>1, <3>5, <4>1 DEF CtrlTypeOK
      <4>3. Collected(0)'
        <5>1. word_done' = {w \in 0 .. (LineBytes \div 4) - 1 : 4 * w + 4 <= 0}
          BY <1>2, <4>1
        <5>2. QED
          BY <5>1 DEF Collected
      <4>4. byte_idx' = 0 /\ phase_tick' \div 4 = 0 /\ ~(phase_tick' % 4 >= 2)
        BY <1>2, <3>1, <4>1
      <4>5. Collected(byte_idx)'
        BY <4>3, <4>4
      <4>6. QED
        BY <4>1, <4>2, <4>4, <4>5 DEF LineFollows
    <3>6. CASE state \in {"CMD_66", "WAIT_66", "CMD_99", "TRST_WAIT", "CMD_EB", "ADDR", "MODE"}
      <4>1. byte_idx = 0 /\ word_done = {} /\ ~done_reg
        BY <1>1, <3>6 DEF LineFollows
      <4>2. state' \in {"WAIT_66", "CMD_99", "TRST_WAIT", "CMD_EB", "ADDR", "MODE", "DUMMY"}
        BY <3>1, <3>6 DEF Successor
      <4>3. ~done_reg'
        BY <1>1, <3>1, <3>6, <4>1 DEF CtrlTypeOK
      <4>4. QED
        BY <1>2, <4>1, <4>2, <4>3 DEF LineFollows
    <3>7. QED
      BY <1>1, <3>2, <3>4, <3>5, <3>6 DEF CtrlTypeOK, Ticks
  <2>3. QED
    BY <2>1, <2>2
<1>5. QED
  BY <1>3, <1>4

LEMMA LineGrows ==
    ASSUME FetchStep, state = "DATA", phase_tick % 2 = 1
    PROVE  CtrlTypeOK' /\ LineFollows'
<1>1. /\ CtrlTypeOK /\ LineFollows /\ Keeps /\ phase_tick \in Nat /\ m_mem' = m_mem /\ A \in Nat
      /\ LineBytes \in Nat \ {0} /\ LineBytes % 4 = 0 /\ A + LineBytes <= MemBytes /\ MemBytes \in Nat
  <2>1. CtrlTypeOK /\ LineFollows /\ phase_tick \in Nat
    BY DEF FetchStep, FetchInv, CtrlTypeOK
  <2>2. Keeps /\ m_mem' = m_mem
    BY FetchGoesOn DEF Keeps
  <2>3. A \in Nat /\ A + LineBytes <= MemBytes
    BY FetchCalm DEF FetchStep
  <2>4. QED
    BY <2>1, <2>2, <2>3, LineAssumption, GeometryAssumption
<1>2. byte_idx = phase_tick \div 4 /\ Collected(byte_idx) /\ ~done_reg
      /\ (phase_tick % 4 >= 2 => dbyte = m_mem[A + byte_idx] \div 16)
  BY <1>1 DEF LineFollows
<1>3. PICK j \in Nat : j = byte_idx /\ phase_tick \in {4 * j + 1, 4 * j + 3}
  <2>1. phase_tick \div 4 \in Nat /\ phase_tick \in {4 * (phase_tick \div 4) + 1, 4 * (phase_tick \div 4) + 3}
    BY <1>1
  <2>2. QED
    BY <1>2, <2>1
<1>4. j < LineBytes /\ phase_tick < 4 * LineBytes /\ Ticks[state] = 4 * LineBytes
  <2>1. phase_tick < Ticks[state] /\ Ticks[state] = 4 * LineBytes
    BY <1>1 DEF CtrlTypeOK, Ticks
  <2>2. QED
    BY <1>1, <1>3, <2>1
<1>5. PICK b \in 0 .. 255 : b = m_mem[A + j]
  <2>1. A + j \in Address
    BY <1>1, <1>4 DEF Address
  <2>2. m_mem \in [Address -> Byte]
    BY DEF FetchStep, FetchInv, FlashTypeOK
  <2>3. QED
    BY <2>1, <2>2 DEF Byte
<1>6. flash_di = m_oreg \div 256
  <2>1. m_mode = "QSPI" /\ ~csn
    BY DEF FetchStep, FetchInv, FlashFollows, QuadRead, csn
  <2>2. QED
    BY <2>1 DEF flash_di, FlashOut
<1>7. Capture(flash_di)
  BY DEF FetchStep, CtrlClock
<1>8. A' = A /\ done_reg' = FALSE
  <2>1. CASE ~LastTick
    BY <1>2, <1>1, <2>1, CtrlWaits DEF CtrlTypeOK
  <2>2. CASE LastTick
    BY <1>2, <1>1, <2>2, CtrlAdvances DEF CtrlTypeOK
  <2>3. QED
    BY <2>1, <2>2
<1>9. CASE phase_tick = 4 * j + 1
  <2>1. phase_tick % 4 = 1 /\ phase_tick % 4 < 2 /\ phase_tick \div 4 = j
    BY <1>9
  <2>2. m_oreg = b * 16
    BY <1>5, <2>1 DEF FetchStep, FetchInv, FlashFollows
  <2>3. dbyte' = b \div 16 /\ dbyte' \in 0 .. 15
    <3>1. (b * 16) \div 256 = b \div 16 /\ b \div 16 \in 0 .. 15
      BY <1>5
    <3>2. dbyte' = flash_di
      BY <1>7, <2>1 DEF Capture
    <3>3. QED
      BY <1>6, <2>2, <3>1, <3>2
  <2>4. UNCHANGED <<data_reg, byte_idx, word_done>>
    BY <1>7, <2>1 DEF Capture
  <2>5. ~LastTick
    BY <1>1, <1>4, <1>9 DEF LastTick
  <2>6. state' = "DATA" /\ phase_tick' = 4 * j + 2
    BY <1>9, <2>5, CtrlWaits
  <2>7. phase_tick' \div 4 = j /\ phase_tick' % 4 >= 2
    BY <2>6
  <2>8. CtrlTypeOK'
    BY <1>1, <2>3, <2>4, StepTypes DEF CtrlTypeOK
  <2>9. Collected(byte_idx)'
    BY <1>1, <1>2, <1>8, <2>4 DEF Collected
  <2>10. byte_idx' = j /\ dbyte' = m_mem'[A' + byte_idx'] \div 16
    BY <1>1, <1>3, <1>5, <1>8, <2>3, <2>4
  <2>11. QED
    BY <1>8, <2>6, <2>7, <2>8, <2>9, <2>10 DEF LineFollows
<1>10. CASE phase_tick = 4 * j + 3
  <2>1. phase_tick % 4 = 3 /\ ~(phase_tick % 4 < 2) /\ phase_tick \div 4 = j /\ phase_tick % 4 # 1 /\ phase_tick % 4 >= 2
    BY <1>10
  <2>2. m_oreg \div 256 = b % 16
    BY <1>5, <2>1 DEF FetchStep, FetchInv, FlashFollows
  <2>3. dbyte = b \div 16
    BY <1>2, <1>3, <1>5, <2>1
  <2>4. dbyte * 16 + flash_di = b
    <3>1. (b \div 16) * 16 + (b % 16) = b
      BY <1>5
    <3>2. QED
      BY <1>6, <2>2, <2>3, <3>1
  <2>5. /\ data_reg' = [data_reg EXCEPT ![j] = m_mem[A + j]]
        /\ byte_idx' = (j + 1) % LineBytes
        /\ word_done' = (IF j % 4 = 3 THEN word_done \cup {j \div 4} ELSE word_done)
        /\ UNCHANGED dbyte
    BY <1>3, <1>5, <1>7, <2>1, <2>4 DEF Capture
  <2>6. Collected(j + 1)'
    <3>1. Collected(j) /\ data_reg \in [0 .. LineBytes - 1 -> 0 .. 255]
      BY <1>1, <1>2, <1>3 DEF CtrlTypeOK
    <3>2. QED
      BY <1>1, <1>4, <1>8, <2>5, <3>1, CollectsByte
  <2>7. byte_idx' = (IF j + 1 < LineBytes THEN j + 1 ELSE 0)
    <3>1. CASE j + 1 < LineBytes
      <4>1. j + 1 \in 0 .. LineBytes - 1
        BY <1>1, <3>1
      <4>2. (j + 1) % LineBytes = j + 1
        BY <1>1, <4>1, SmallRemainder
      <4>3. QED
        BY <2>5, <3>1, <4>2
    <3>2. CASE j + 1 = LineBytes
      <4>1. LineBytes % LineBytes = 0
        BY <1>1, SelfRemainder
      <4>2. QED
        BY <2>5, <3>2, <4>1
    <3>3. QED
      BY <1>1, <1>4, <3>1, <3>2
  <2>8. CtrlTypeOK'
    <3>1. word_done' \subseteq 0 .. (LineBytes \div 4) - 1
      BY <2>6 DEF Collected
    <3>2. byte_idx' \in 0 .. LineBytes - 1
      BY <1>1, <1>4, <2>7
    <3>3. data_reg' \in [0 .. LineBytes - 1 -> 0 .. 255]
      BY <1>1, <1>4, <1>5, <2>5 DEF CtrlTypeOK
    <3>4. dbyte' \in 0 .. 15
      BY <1>1, <2>5 DEF CtrlTypeOK
    <3>5. QED
      BY <3>1, <3>2, <3>3, <3>4, StepTypes
  <2>9. CASE j + 1 < LineBytes
    <3>1. ~LastTick
      BY <1>1, <1>4, <1>10, <2>9 DEF LastTick
    <3>2. state' = "DATA" /\ phase_tick' = 4 * j + 4
      BY <1>10, <3>1, CtrlWaits
    <3>3. phase_tick' \div 4 = j + 1 /\ ~(phase_tick' % 4 >= 2) /\ byte_idx' = j + 1
      BY <2>7, <2>9, <3>2
    <3>4. Collected(byte_idx)'
      BY <2>6, <3>3 DEF Collected
    <3>5. QED
      BY <1>8, <2>8, <3>2, <3>3, <3>4 DEF LineFollows
  <2>10. CASE j + 1 = LineBytes
    <3>1. LastTick
      BY <1>4, <1>10, <2>10 DEF LastTick
    <3>2. state' = "DONE_WAIT"
      BY <3>1, CtrlAdvances DEF Successor
    <3>3. byte_idx' = 0 /\ Collected(LineBytes)'
      BY <2>6, <2>7, <2>10 DEF Collected
    <3>4. QED
      BY <1>8, <2>8, <3>2, <3>3 DEF LineFollows
  <2>11. QED
    BY <1>1, <1>4, <2>9, <2>10
<1>11. QED
  BY <1>3, <1>9, <1>10

-----------------------------------------------------------------------------
(* Every step of a fetch keeps the invariant.                              *)

LEMMA FetchSteps ==
    ASSUME FetchInv, FetchStep, UNCHANGED host
    PROVE  FetchInv'
<1>1. Keeps /\ FlashFollows' /\ ClockFollows' /\ Calm
  BY FetchGoesOn, FetchCalm
<1>2. CtrlTypeOK' /\ LineFollows'
  <2>1. phase_tick \in Nat
    BY DEF FetchInv, CtrlTypeOK
  <2>2. phase_tick % 2 = 0 \/ phase_tick % 2 = 1
    BY <2>1
  <2>3. QED
    BY <2>2, LineGoesOn, LineGrows
<1>3. A' = A
  BY CtrlWaits, CtrlAdvances
<1>4. A' \in Nat /\ (state' # "IDLE" => A' \in Lines)
  BY <1>3 DEF FetchInv, FetchStep
<1>5. Calm'
  BY <1>1, CalmKeeps
<1>6. QED
  BY <1>1, <1>2, <1>4, <1>5 DEF FetchInv, Calm, ClockFollows, Deselected

LEMMA FetchIdles ==
    ASSUME FetchInv, state = "IDLE", CtrlClock(FALSE, 0, flash_di), FlashCall(csn', sck', spi_do'),
           UNCHANGED host
    PROVE  FetchInv' /\ Keeps
<1>1. state' = "IDLE" /\ phase_tick' = 0 /\ A' = A /\ UNCHANGED <<dbyte, data_reg, byte_idx, word_done>>
  BY DEF CtrlClock, next_state
<1>2. is_first' = is_first /\ done_reg' = done_reg
  <2>1. is_first' = (is_first /\ ~(state = "DATA" /\ LastTick))
        /\ done_reg' = (done_reg \/ (state = "DONE_WAIT" /\ LastTick))
    BY DEF CtrlClock
  <2>2. QED
    BY <2>1 DEF FetchInv, CtrlTypeOK
<1>3. Keeps /\ FlashFollows' /\ ClockFollows' /\ Calm
  BY <1>1, <1>2, FlashRests, FetchCalm
<1>4. CtrlTypeOK'
  BY <1>1, <1>2 DEF FetchInv, CtrlTypeOK
<1>5. LineFollows'
  <2>1. Collected(LineBytes)' = Collected(LineBytes)
    BY <1>1, <1>3 DEF Collected, Keeps
  <2>2. QED
    BY <1>1, <1>2, <2>1 DEF FetchInv, LineFollows
<1>6. Calm'
  BY <1>3, CalmKeeps
<1>7. QED
  BY <1>1, <1>3, <1>4, <1>5, <1>6 DEF FetchInv, Calm, ClockFollows, Deselected

LEMMA FetchStarts ==
    ASSUME FetchInv, state = "IDLE", NEW a \in Lines, CtrlClock(TRUE, a, flash_di),
           FlashCall(csn', sck', spi_do'), UNCHANGED host
    PROVE  FetchInv' /\ Keeps
<1>1. Keeps /\ FlashFollows' /\ ClockFollows' /\ Calm
  BY FetchBegins, FetchCalm
<1>2. /\ state' \in {"CMD_66", "ADDR"} /\ phase_tick' = 0 /\ A' = a /\ byte_idx' = 0 /\ word_done' = {}
      /\ UNCHANGED <<dbyte, data_reg>> /\ done_reg' = FALSE
  BY DEF CtrlClock, next_state
<1>3. is_first' \in BOOLEAN
  BY DEF CtrlClock
<1>4. CtrlTypeOK'
  <2>1. state' \in DOMAIN Ticks /\ 0 < Ticks[state']
    BY <1>2 DEF Ticks
  <2>2. byte_idx' \in 0 .. LineBytes - 1
    BY <1>2, LineAssumption
  <2>3. QED
    BY <1>2, <1>3, <2>1, <2>2 DEF FetchInv, CtrlTypeOK
<1>5. LineFollows'
  BY <1>2 DEF LineFollows
<1>6. Calm' /\ a \in Nat
  BY <1>1, CalmKeeps, LinesAssumption
<1>7. QED
  BY <1>1, <1>2, <1>4, <1>5, <1>6 DEF FetchInv, Calm, ClockFollows, Deselected

LEMMA FetchResets ==
    ASSUME FetchInv, WarmReset, UNCHANGED host
    PROVE  FetchInv' /\ Keeps
<1>1. /\ state' = "IDLE" /\ phase_tick' = 0 /\ is_first' = TRUE /\ A' = A
      /\ dbyte' = 0 /\ data_reg' = [i \in 0 .. LineBytes - 1 |-> 0] /\ byte_idx' = 0
      /\ word_done' = {} /\ done_reg' = FALSE /\ FlashCall(csn', sck', spi_do')
  BY DEF WarmReset, CtrlReset
<1>2. Keeps /\ FlashFollows' /\ ClockFollows' /\ Calm
  BY <1>1, FlashRests, FetchCalm
<1>3. CtrlTypeOK'
  <2>1. byte_idx' \in 0 .. LineBytes - 1
    BY <1>1, LineAssumption
  <2>2. data_reg' \in [0 .. LineBytes - 1 -> 0 .. 255]
    BY <1>1
  <2>3. word_done' \subseteq 0 .. (LineBytes \div 4) - 1 /\ dbyte' \in 0 .. 15
    BY <1>1
  <2>4. QED
    BY <1>1, <2>1, <2>2, <2>3 DEF CtrlTypeOK
<1>4. LineFollows'
  BY <1>1 DEF LineFollows
<1>5. Calm'
  BY <1>2, CalmKeeps
<1>6. QED
  BY <1>1, <1>2, <1>3, <1>4, <1>5 DEF FetchInv, Calm, ClockFollows, Deselected

LEMMA FetchCycles ==
    ASSUME FetchInv, FetchCycle
    PROVE  FetchInv' /\ Keeps
<1>1. UNCHANGED host
  BY DEF FetchCycle
<1>2. CASE WarmReset
  BY <1>1, <1>2, FetchResets
<1>3. CASE FlashCall(csn', sck', spi_do') /\ CtrlClock(FALSE, 0, flash_di) /\ state = "IDLE"
  BY <1>1, <1>3, FetchIdles
<1>4. CASE FlashCall(csn', sck', spi_do') /\ CtrlClock(FALSE, 0, flash_di) /\ state # "IDLE"
  <2>1. FetchStep
    BY <1>4 DEF FetchStep
  <2>2. QED
    BY <1>1, <2>1, FetchSteps, FetchGoesOn
<1>5. ASSUME FlashCall(csn', sck', spi_do'), NEW a \in Lines, state = "IDLE", CtrlClock(TRUE, a, flash_di)
      PROVE  FetchInv' /\ Keeps
  BY <1>1, <1>5, FetchStarts
<1>6. QED
  BY <1>2, <1>3, <1>4, <1>5 DEF FetchCycle, XipClock

-----------------------------------------------------------------------------
(* The whole bench.                                                        *)

FlashInv == IF exercise = "fetch" THEN FetchInv ELSE HostInv /\ CtrlInit

LEMMA CtrlInitTypes ==
    ASSUME CtrlInit
    PROVE  CtrlTypeOK
<1>1. state = "IDLE" /\ phase_tick \in Nat /\ dbyte \in 0 .. 15 /\ byte_idx = 0
      /\ is_first \in BOOLEAN /\ done_reg \in BOOLEAN
  <2>1. state = "IDLE" /\ phase_tick = 0 /\ dbyte = 0 /\ byte_idx = 0
    BY DEF CtrlInit
  <2>2. is_first = TRUE /\ done_reg = FALSE
    BY DEF CtrlInit
  <2>3. phase_tick \in Nat /\ dbyte \in 0 .. 15
    BY <2>1
  <2>4. QED
    BY <2>1, <2>2, <2>3
<1>2. word_done \subseteq 0 .. (LineBytes \div 4) - 1
  BY DEF CtrlInit
<1>3. 0 \in 0 .. LineBytes - 1
  BY LineAssumption
<1>4. data_reg \in [0 .. LineBytes - 1 -> 0 .. 255]
  BY DEF CtrlInit
<1>5. QED
  BY <1>1, <1>2, <1>3, <1>4 DEF CtrlTypeOK

LEMMA FetchInit ==
    ASSUME FlashInit, CtrlInit, host = NoTransfer
    PROVE  FetchInv
<1>1. FlashTypeOK
  BY InitTypes
<1>2. CtrlTypeOK
  BY CtrlInitTypes
<1>3. m_sreg = {2, 3, 4} /\ ~m_write_count /\ ~aborted /\ state = "IDLE" /\ A \in Nat
  BY DEF FlashInit, CtrlInit
<1>4. Quiet /\ SpiReady /\ is_first
  BY DEF FlashInit, CtrlInit, Quiet, SpiReady
<1>5. FlashFollows
  BY <1>3, <1>4 DEF FlashFollows
<1>6. LineFollows
  BY <1>3 DEF LineFollows, CtrlInit
<1>7. QED
  BY <1>1, <1>2, <1>3, <1>5, <1>6 DEF FetchInv

LEMMA FlashInvBegins ==
    ASSUME Init
    PROVE  FlashInv
<1>1. FlashInit /\ CtrlInit /\ host = NoTransfer
  BY DEF Init
<1>2. FetchInv /\ HostInv
  BY <1>1, FetchInit, HostBegins
<1>3. QED
  BY <1>1, <1>2 DEF FlashInv

\* What the devices do not touch.
LEMMA FlashStutters ==
    ASSUME UNCHANGED <<flash, host, ctrl>>
    PROVE  /\ HostInv => HostInv'
           /\ FetchInv => FetchInv'
           /\ CtrlInit => CtrlInit'
<1>1. /\ UNCHANGED <<m_state, m_mode, m_sreg, m_creg, m_mem, m_pmem, m_addr, m_mode_byte>>
      /\ UNCHANGED <<m_ireg, m_oreg, m_count, m_last_sck, m_write_count, aborted, host>>
      /\ UNCHANGED <<state, phase_tick, is_first, A, dbyte, data_reg, byte_idx, word_done, done_reg>>
  BY DEF flash, registers, shifter, ctrl
<1>2. FlashTypeOK => FlashTypeOK'
  BY <1>1 DEF FlashTypeOK
<1>3. HostInv => HostInv'
  <2>1. Addressed' = Addressed /\ Header' = Header /\ Gap' = Gap /\ MaxBytes' = MaxBytes
    BY <1>1 DEF Addressed, Header, Gap, MaxBytes
  <2>2. HostTypeOK => HostTypeOK'
    BY <1>1, <2>1 DEF HostTypeOK
  <2>3. Resting' = Resting /\ LaneIdle' = LaneIdle /\ OneLaneRest' = OneLaneRest /\ ModeOf' = ModeOf
        /\ StateOf(host.op)' = StateOf(host.op)
    BY <1>1, <2>1 DEF Resting, LaneIdle, OneLaneRest, ModeOf, StateOf, StaysContinuous
  <2>4. CommandTaken => CommandTaken'
    BY <1>1, <2>1, <2>3 DEF CommandTaken
  <2>5. Flags => Flags'
    BY <1>1, <2>1, <2>3 DEF Flags
  <2>6. AddressFollows => AddressFollows'
    BY <1>1, <2>1 DEF AddressFollows
  <2>7. HostReadsMemory => HostReadsMemory'
    BY <1>1, <2>1 DEF HostReadsMemory, ByteOut
  <2>8. QED
    BY <1>1, <1>2, <2>2, <2>4, <2>5, <2>6, <2>7 DEF HostInv
<1>4. FetchInv => FetchInv'
  <2>1. CtrlTypeOK => CtrlTypeOK'
    BY <1>1 DEF CtrlTypeOK
  <2>2. Sent' = Sent /\ Base' = Base /\ Quiet' = Quiet /\ SpiReady' = SpiReady /\ QuadIdle' = QuadIdle
        /\ QuadRead' = QuadRead /\ StaysContinuous' = StaysContinuous
    BY <1>1 DEF Sent, Base, Quiet, SpiReady, QuadIdle, QuadRead, StaysContinuous
  <2>3. /\ OneLane(102)' = OneLane(102) /\ OneLane(153)' = OneLane(153) /\ OneLane(235)' = OneLane(235)
        /\ CommandBit(102)' = CommandBit(102)
    BY <1>1, <2>2 DEF OneLane, CommandBit
  <2>4. Misread => Misread'
    BY <1>1, <2>2, <2>3 DEF Misread
  <2>5. FlashFollows /\ CtrlTypeOK => FlashFollows'
    <3>1. SUFFICES ASSUME FlashFollows, CtrlTypeOK
                   PROVE  FlashFollows'
      OBVIOUS
    <3>2. CASE state \in Deselected
      BY <1>1, <2>2, <3>1, <3>2 DEF FlashFollows, Deselected
    <3>3. CASE state \in {"CMD_66", "CMD_99"}
      BY <1>1, <2>2, <2>3, <2>4, <3>1, <3>3 DEF FlashFollows
    <3>4. CASE state = "CMD_EB"
      BY <1>1, <2>2, <2>3, <3>1, <3>4 DEF FlashFollows
    <3>5. CASE state \in {"ADDR", "MODE", "DUMMY"}
      BY <1>1, <2>2, <3>1, <3>5 DEF FlashFollows
    <3>6. CASE state = "DATA"
      BY <1>1, <2>2, <3>1, <3>6 DEF FlashFollows
    <3>7. QED
      BY <3>1, <3>2, <3>3, <3>4, <3>5, <3>6 DEF CtrlTypeOK, Ticks, Deselected
  <2>6. LineFollows => LineFollows'
    <3>1. Collected(byte_idx)' = Collected(byte_idx) /\ Collected(LineBytes)' = Collected(LineBytes)
      BY <1>1 DEF Collected
    <3>2. QED
      BY <1>1, <3>1 DEF LineFollows
  <2>7. QED
    BY <1>1, <1>2, <2>1, <2>5, <2>6 DEF FetchInv
<1>5. CtrlInit => CtrlInit'
  BY <1>1 DEF CtrlInit
<1>6. QED
  BY <1>3, <1>4, <1>5

LEMMA FlashInvSteps ==
    ASSUME FlashInv, [Next]_vars
    PROVE  FlashInv'
<1>1. CASE FetchCycle
  <2>1. exercise = "fetch" /\ exercise' = exercise
    BY <1>1 DEF FetchCycle
  <2>2. FetchInv'
    BY <1>1, <2>1, FetchCycles DEF FlashInv
  <2>3. QED
    BY <2>1, <2>2 DEF FlashInv
<1>2. CASE HostCycle
  <2>1. exercise = "host" /\ exercise' = exercise /\ HostNext /\ UNCHANGED ctrl
    BY <1>2 DEF HostCycle
  <2>2. HostInv' /\ CtrlInit'
    BY <2>1, HostSteps DEF FlashInv, ctrl, CtrlInit
  <2>3. QED
    BY <2>1, <2>2 DEF FlashInv
<1>3. CASE UNCHANGED <<exercise, flash, host, ctrl>>
  BY <1>3, FlashStutters DEF FlashInv
<1>4. QED
  <2>1. FetchCycle \/ HostCycle \/ UNCHANGED <<exercise, flash, host, ctrl>>
    BY DEF Next, UartCycle, MicCycle, JtagStep, Ended, vars
  <2>2. QED
    BY <1>1, <1>2, <1>3, <2>1

LEMMA FlashInvariant == Spec => []FlashInv
<1>1. Init => FlashInv
  BY FlashInvBegins
<1>2. FlashInv /\ [Next]_vars => FlashInv'
  BY FlashInvSteps
<1>3. QED
  BY <1>1, <1>2, PTL DEF Spec

\* Whatever the controller sends, in any clock of which it may be reset, and whatever a
\* host that keeps to the data sheet sends, no assertion of the flash model fails and
\* it never calls exit. flashsim.cpp:280-303,476-483,623-627.
THEOREM NoAssertionFails == Spec => []FlashAssertions
<1>1. FlashInv => FlashAssertions
  BY DEF FlashInv, FetchInv, HostInv, FlashAssertions
<1>2. QED
  BY <1>1, FlashInvariant, PTL

\* The registers of the flash and of the controller keep their types.
FlashSideTypeOK == FlashTypeOK /\ CtrlTypeOK

LEMMA FlashSideTypes == Spec => []FlashSideTypeOK
<1>1. FlashInv => FlashSideTypeOK
  BY CtrlInitTypes DEF FlashInv, FetchInv, HostInv, FlashSideTypeOK
<1>2. QED
  BY <1>1, FlashInvariant, PTL

\* What a fetch has marked as done is what the memory holds, clock by clock and
\* through warm resets, and so is what a host reads. flashsim.cpp:507-595,
\* flash_ctrl_eb.v:123-175.
THEOREM ReadsAreMemory == Spec => []ReadsReturnMemory
<1>1. FetchInv => ReadsReturnMemory
  <2>1. SUFFICES ASSUME FetchInv
                 PROVE  ReadsReturnMemory
    OBVIOUS
  <2>2. HostReadsMemory
    <3>1. host.op = -1 /\ -1 \notin Reads
      <4>1. host = [op |-> -1, addr |-> 0, n |-> 0]
        BY <2>1 DEF FetchInv, NoTransfer
      <4>2. host.op = -1
        BY <4>1
      <4>3. -1 \notin Reads
        BY DEF Reads, Read, FastRead, DualIO, QuadIO, Continuous
      <4>4. QED
        BY <4>2, <4>3
    <3>2. QED
      BY <3>1 DEF HostReadsMemory
  <2>3. ASSUME NEW i \in 0 .. LineBytes - 1, i \div 4 \in word_done \/ done_reg
        PROVE  data_reg[i] = m_mem[A + i]
    <3>1. LineFollows /\ CtrlTypeOK /\ LineBytes \in Nat
      <4>1. LineFollows /\ CtrlTypeOK
        BY <2>1 DEF FetchInv
      <4>2. QED
        BY <4>1, LineAssumption
    <3>2. PICK k \in 0 .. LineBytes : Collected(k) /\ (~done_reg \/ k = LineBytes)
      <4>1. LineBytes \in 0 .. LineBytes /\ 0 \in 0 .. LineBytes
        BY <3>1
      <4>2. CASE state = "DATA"
        BY <3>1, <4>2 DEF LineFollows, CtrlTypeOK
      <4>3. CASE state \in {"IDLE", "DONE_WAIT"}
        BY <2>3, <3>1, <4>1, <4>3 DEF LineFollows
      <4>4. CASE state \notin {"IDLE", "DATA", "DONE_WAIT"}
        BY <2>3, <3>1, <4>4 DEF LineFollows
      <4>5. QED
        BY <4>2, <4>3, <4>4
    <3>3. i < k
      <4>1. CASE done_reg
        BY <3>2, <4>1
      <4>2. CASE i \div 4 \in word_done
        <5>1. 4 * (i \div 4) + 4 <= k
          BY <3>2, <4>2 DEF Collected
        <5>2. QED
          BY <5>1
      <4>3. QED
        BY <2>3, <4>1, <4>2
    <3>4. QED
      BY <3>2, <3>3 DEF Collected
  <2>4. QED
    BY <2>2, <2>3 DEF ReadsReturnMemory
<1>2. HostInv /\ CtrlInit => ReadsReturnMemory
  BY DEF HostInv, CtrlInit, ReadsReturnMemory
<1>3. FlashInv => ReadsReturnMemory
  BY <1>1, <1>2 DEF FlashInv
<1>4. QED
  BY <1>3, FlashInvariant, PTL

-----------------------------------------------------------------------------
(* To a host the model is a NOR flash.                                     *)

NorStep == [Nor!Next]_(Nor!nor)

\* A step that shows in no variable of the NOR flash.
LEMMA NorRests ==
    ASSUME m_mem' = m_mem, m_sreg' = m_sreg, m_state' = "WRSR" <=> m_state = "WRSR"
    PROVE  NorStep
<1>1. UNCHANGED <<m_mem, WIP \in m_sreg, DPD \in m_sreg>>
  OBVIOUS
<1>2. (WEL \in m_sreg \/ m_state = "WRSR")' = (WEL \in m_sreg \/ m_state = "WRSR")
  BY Zenon
<1>3. UNCHANGED Nor!nor
  BY <1>1, <1>2 DEF Nor!nor
<1>4. QED
  BY <1>3 DEF NorStep

\* A step that only enables, disables or puts to sleep.
LEMMA NorFlags ==
    ASSUME m_mem' = m_mem, m_state # "WRSR", m_state' # "WRSR", DPD \notin m_sreg,
           \/ m_sreg' = m_sreg \cup {WEL} \/ m_sreg' = m_sreg \ {WEL}
           \/ WIP \notin m_sreg /\ m_sreg' = m_sreg \cup {DPD}
    PROVE  NorStep
<1>1. WIP # WEL /\ WIP # DPD /\ WEL # DPD
  BY DEF WIP, WEL, DPD
<1>2. CASE m_sreg' = m_sreg \cup {WEL}
  <2>1. (WEL \in m_sreg \/ m_state = "WRSR")' = TRUE
    BY <1>2
  <2>2. (WIP \in m_sreg)' = (WIP \in m_sreg) /\ (DPD \in m_sreg)' = (DPD \in m_sreg)
    BY <1>1, <1>2
  <2>3. Nor!WriteEnable
    BY <2>1, <2>2 DEF Nor!WriteEnable
  <2>4. QED
    BY <2>3 DEF NorStep, Nor!Next
<1>3. CASE m_sreg' = m_sreg \ {WEL}
  <2>1. (WEL \in m_sreg \/ m_state = "WRSR")' = FALSE
    BY <1>3
  <2>2. (WIP \in m_sreg)' = (WIP \in m_sreg) /\ (DPD \in m_sreg)' = (DPD \in m_sreg)
    BY <1>1, <1>3
  <2>3. Nor!WriteDisable
    BY <2>1, <2>2 DEF Nor!WriteDisable
  <2>4. QED
    BY <2>3 DEF NorStep, Nor!Next
<1>4. CASE WIP \notin m_sreg /\ m_sreg' = m_sreg \cup {DPD}
  <2>1. (DPD \in m_sreg)' = TRUE
    BY <1>4
  <2>2. /\ (WIP \in m_sreg)' = (WIP \in m_sreg)
        /\ (WEL \in m_sreg \/ m_state = "WRSR")' = (WEL \in m_sreg \/ m_state = "WRSR")
    BY <1>1, <1>4
  <2>3. Nor!Sleep
    BY <1>4, <2>1, <2>2 DEF Nor!Sleep
  <2>4. QED
    BY <2>3 DEF NorStep, Nor!Next
<1>5. QED
  BY <1>2, <1>3, <1>4

\* The end of deep power down.
LEMMA NorWakes ==
    ASSUME m_mem' = m_mem, m_state # "WRSR", m_state' # "WRSR", DPD \in m_sreg, m_sreg' = m_sreg \ {DPD}
    PROVE  NorStep
<1>1. (DPD \in m_sreg)' = FALSE
  OBVIOUS
<1>2. /\ (WIP \in m_sreg)' = (WIP \in m_sreg)
      /\ (WEL \in m_sreg \/ m_state = "WRSR")' = (WEL \in m_sreg \/ m_state = "WRSR")
  BY DEF WIP, WEL, DPD
<1>3. Nor!Wake
  BY <1>1, <1>2 DEF Nor!Wake
<1>4. QED
  BY <1>3 DEF NorStep, Nor!Next

\* The write timer runs out.
LEMMA NorWriteEnds ==
    ASSUME HostInv, WriteEnds
    PROVE  NorStep
<1>1. m_write_count /\ m_sreg' = m_sreg \cap 2 .. 7 /\ m_state' = m_state /\ m_mem' = m_mem
  BY DEF WriteEnds
<1>2. /\ Flags /\ CommandTaken /\ HostTypeOK
      /\ host.op \in Registers \cup {Release, -1} /\ DPD \notin m_sreg
  BY <1>1 DEF HostInv, Flags
<1>3. m_state # "WRSR"
  <2>1. host.op \notin Reads /\ host.op \notin {102, Continuous}
    BY <1>2 DEF Registers, Reads, ReadStatus, ReadConfig, ReadID, Release, Read, FastRead, DualIO, QuadIO, Continuous
  <2>2. CASE host.n = 0
    BY <1>2, <2>1, <2>2 DEF CommandTaken, OneLaneRest, LaneIdle, Resting, QuadReads, DualReads
  <2>3. CASE host.n # 0
    <3>1. m_state \in StateOf(host.op) /\ host.op # -1
      BY <1>2, <2>1, <2>3 DEF CommandTaken, HostTypeOK, NoTransfer
    <3>2. StateOf(host.op) \subseteq {"RDSR", "RDCR", "RDID", "RELEASE"}
      BY <1>2, <3>1 DEF StateOf, Registers, WriteCommands, WriteStatus, PageProgram, QuadProgram, SectorErase,
           BulkErase, Read, FastRead, DualIO, QuadIO, ReadStatus, ReadConfig, ReadID, ClearStatus, Release,
           PowerDown, WriteEnable, WriteDisable
    <3>3. QED
      BY <3>1, <3>2
  <2>4. QED
    BY <2>2, <2>3
<1>4. WIP \notin m_sreg' /\ WEL \notin m_sreg' /\ DPD \notin m_sreg'
  BY <1>1 DEF WIP, WEL, DPD
<1>5. (DPD \in m_sreg)' = (DPD \in m_sreg) /\ (WEL \in m_sreg \/ m_state = "WRSR")' = FALSE
  BY <1>1, <1>2, <1>3, <1>4
<1>6. CASE WIP \in m_sreg
  <2>1. WEL \notin m_sreg
    BY <1>2, <1>6 DEF Flags
  <2>2. (WIP \in m_sreg)' = FALSE /\ (WEL \in m_sreg \/ m_state = "WRSR") = FALSE
    BY <1>3, <1>4, <2>1
  <2>3. Nor!Finish
    BY <1>1, <1>5, <1>6, <2>2 DEF Nor!Finish
  <2>4. QED
    BY <2>3 DEF NorStep, Nor!Next
<1>7. CASE WIP \notin m_sreg
  <2>1. (WIP \in m_sreg)' = (WIP \in m_sreg)
    BY <1>4, <1>7
  <2>2. Nor!WriteDisable
    BY <1>1, <1>2, <1>5, <2>1 DEF Nor!WriteDisable
  <2>3. QED
    BY <2>2 DEF NorStep, Nor!Next
<1>8. QED
  BY <1>6, <1>7

\* A command byte.
LEMMA NorCommand ==
    ASSUME NEW byte, ByteStep(byte), host.n = 0, host.op # Continuous
    PROVE  NorStep
<1> DEFINE op == host.op  oreg == (m_oreg * 256) % 4096
<1>1. op \in Ops /\ op \notin {-1, Continuous}
  BY ByteBasics, Headers
<1>2. byte = op
  BY <1>1, Headers DEF ByteStep, NextBytes
<1>3. OneLaneRest /\ m_state # "WRSR" /\ Flags
  BY <1>1 DEF ByteStep, HostInv, CommandTaken, OneLaneRest, Resting, QuadReads, DualReads
<1>4. Command(op, oreg)
  <2>1. Process(ByteIn(byte), 8 * (host.n + 1), oreg) /\ ByteIn(byte) % 256 = byte
    BY ByteBasics
  <2>2. m_state \notin {"QUAD_READ_IDLE", "DUAL_READ_IDLE"} /\ 8 * (host.n + 1) = 8
    BY <1>3 DEF OneLaneRest, Resting, QuadReads, DualReads
  <2>3. QED
    BY <1>2, <2>1, <2>2 DEF Process
<1> HIDE DEF op, oreg
<1>5. m_mem' = m_mem
  BY <1>4 DEF Command
<1>6. CASE DPD \in m_sreg /\ op # Release
  BY <1>3, <1>4, <1>5, <1>6, NorRests DEF Command
<1>7. CASE ~(DPD \in m_sreg /\ op # Release)
  <2>1. /\ m_state' = CommandState(op)
        /\ m_sreg' = CASE op = WriteEnable  -> m_sreg \cup {WEL} [] op = WriteDisable -> m_sreg \ {WEL}
                       [] op = Release -> m_sreg \ {DPD}
                       [] op = PowerDown -> IF WIP \in m_sreg THEN m_sreg ELSE m_sreg \cup {DPD}
                       [] OTHER -> m_sreg
    BY <1>4, <1>7 DEF Command
  <2>2. CASE op \in {WriteEnable, WriteDisable, Release, PowerDown}
    <3>1. m_state' # "WRSR"
      BY <2>1, <2>2 DEF CommandState, WriteStatus, PageProgram, QuadProgram, SectorErase, BulkErase, Read, FastRead,
           DualIO, QuadIO, ReadStatus, ReadConfig, ReadID, ClearStatus, Release, PowerDown, WriteEnable, WriteDisable
    <3>2. CASE op = Release
      <4>1. m_sreg' = m_sreg \ {DPD}
        BY <2>1, <3>2 DEF WriteEnable, WriteDisable, Release, PowerDown
      <4>2. CASE DPD \in m_sreg
        BY <1>3, <1>5, <3>1, <4>1, <4>2, NorWakes
      <4>3. CASE DPD \notin m_sreg
        BY <1>3, <1>5, <3>1, <4>1, <4>3, NorRests
      <4>4. QED
        BY <4>2, <4>3
    <3>3. CASE op \in {WriteEnable, WriteDisable, PowerDown}
      <4>1. DPD \notin m_sreg
        BY <1>7, <3>3 DEF WriteEnable, WriteDisable, Release, PowerDown
      <4>2. \/ m_sreg' = m_sreg \cup {WEL} \/ m_sreg' = m_sreg \ {WEL} \/ m_sreg' = m_sreg
            \/ WIP \notin m_sreg /\ m_sreg' = m_sreg \cup {DPD}
        BY <2>1, <3>3 DEF WriteEnable, WriteDisable, Release, PowerDown
      <4>3. QED
        BY <1>3, <1>5, <3>1, <4>1, <4>2, NorFlags, NorRests
    <3>4. QED
      BY <2>2, <3>2, <3>3
  <2>3. CASE op \notin {WriteEnable, WriteDisable, Release, PowerDown}
    <3>1. m_sreg' = m_sreg
      BY <2>1, <2>3
    <3>2. m_state' = "WRSR" => WEL \in m_sreg
      BY <1>3, <2>1 DEF CommandState, WriteAllowed
    <3>3. (WEL \in m_sreg \/ m_state = "WRSR")' = (WEL \in m_sreg \/ m_state = "WRSR")
      BY <1>3, <3>1, <3>2
    <3>4. UNCHANGED Nor!nor
      BY <1>5, <3>1, <3>3 DEF Nor!nor
    <3>5. QED
      BY <3>4 DEF NorStep
  <2>4. QED
    BY <2>2, <2>3
<1>8. QED
  BY <1>6, <1>7

\* A byte of the host.
LEMMA NorByte ==
    ASSUME NEW byte, ByteStep(byte)
    PROVE  NorStep
<1>1. host.n \in Nat /\ Flags /\ CommandTaken
  BY ByteBasics DEF ByteStep, HostInv
<1>2. CASE host.n = 0 /\ host.op # Continuous
  BY <1>2, NorCommand
<1>3. CASE host.op = Continuous /\ host.n < 3
  <2>1. LaneIdle
    <3>1. Header = 3
      BY <1>3, Headers
    <3>2. QED
      BY <1>1, <1>3, <3>1 DEF CommandTaken
  <2>2. Process(ByteIn(byte), 8 * (host.n + 1), (m_oreg * 256) % 4096)
    BY ByteBasics
  <2>3. ContinuousAddress(ByteIn(byte), 8 * (host.n + 1))
    BY <2>1, <2>2 DEF Process, LaneIdle
  <2>4. m_mem' = m_mem /\ m_sreg' = m_sreg /\ m_state # "WRSR" /\ m_state' # "WRSR"
    BY <2>1, <2>3 DEF ContinuousAddress, LaneIdle, registers
  <2>5. QED
    BY <2>4, NorRests
<1>4. CASE host.n >= 1 /\ (host.op = Continuous => host.n >= 3)
  <2>1. DataByte(ByteIn(byte), 8 * (host.n + 1), (m_oreg * 256) % 4096)
    BY <1>4, HostData1
  <2>2. m_mem' = m_mem /\ m_state' = m_state
    BY <2>1 DEF DataByte, ReadByte, ProgramByte, EraseByte, StatusByteIn, AnswerByte
  <2>3. CASE m_state # "WRSR"
    <3>1. m_sreg' = m_sreg
      BY <2>1, <2>3 DEF DataByte, ReadByte, ProgramByte, EraseByte, StatusByteIn, AnswerByte, registers
    <3>2. QED
      BY <2>2, <3>1, NorRests
  <2>4. CASE m_state = "WRSR"
    <3>1. m_sreg' = m_sreg \/ \E new : m_sreg' = (m_sreg \cap {0, 5, 6}) \cup (new \cap {2, 3, 4, 7})
      BY <2>1, <2>4 DEF DataByte, ReadByte, ProgramByte, EraseByte, StatusByteIn, AnswerByte, Reading, QuadReads, DualReads
    <3>2. DPD \notin m_sreg
      BY <1>1, <2>4 DEF Flags
    <3>3. (WIP \in m_sreg)' = (WIP \in m_sreg) /\ (DPD \in m_sreg)' = (DPD \in m_sreg)
      BY <3>1, <3>2 DEF WIP, DPD
    <3>4. (WEL \in m_sreg \/ m_state = "WRSR")' = (WEL \in m_sreg \/ m_state = "WRSR")
      BY <2>2, <2>4
    <3>5. UNCHANGED Nor!nor
      BY <2>2, <3>3, <3>4 DEF Nor!nor
    <3>6. QED
      BY <3>5 DEF NorStep
  <2>5. QED
    BY <2>3, <2>4
<1>5. QED
  BY <1>1, <1>2, <1>3, <1>4

\* Two addresses of a page or a sector, by quotient and by its first address.
LEMMA SameIsAligned ==
    ASSUME NEW a \in Nat, NEW b \in Nat, NEW size \in Nat \ {0}
    PROVE  AlignDown(a, size) = AlignDown(b, size) <=> Nor!Same(a, b, size)
<1>1. PICK p \in Nat : p = a \div size
  OBVIOUS
<1>2. PICK q \in Nat : q = b \div size
  OBVIOUS
<1>3. p * size = q * size => p = q
  <2>1. 0 \in 0 .. size - 1
    OBVIOUS
  <2>2. ASSUME p * size = q * size PROVE p * size + 0 = q * size + 0
    BY <2>2
  <2>3. QED
    BY <2>1, <2>2, RowUnique
<1>4. QED
  BY <1>1, <1>2, <1>3 DEF AlignDown, Nor!Same

\* A page program only clears bits.
LEMMA ProgramClears ==
    ASSUME FlashTypeOK, NEW a \in Address, NEW data \in Byte
    PROVE  Nor!OnlyClears(ByteOf(Bits(m_mem[a]) \cap Bits(data)), m_mem[a])
<1> DEFINE bits == Bits(m_mem[a]) \cap Bits(data)
<1>1. bits \in SUBSET (0 .. 7)
  BY DEF Bits
<1> HIDE DEF bits
<1>2. ByteOf(bits) \in Byte /\ Bits(ByteOf(bits)) = bits
  BY <1>1, ByteExists
<1>3. ByteOf(bits) \in 0 .. 255
  BY <1>2 DEF Byte
<1>4. ASSUME NEW i \in 0 .. 7, (ByteOf(bits) \div 2^i) % 2 = 1
      PROVE  (m_mem[a] \div 2^i) % 2 = 1
  <2>1. i \in Bits(ByteOf(bits))
    BY <1>4 DEF Bits
  <2>2. i \in Bits(m_mem[a])
    BY <1>2, <2>1 DEF bits
  <2>3. QED
    BY <2>2 DEF Bits
<1>5. QED
  BY <1>3, <1>4 DEF Nor!OnlyClears, bits

\* What starts a write, and where.
LEMMA WriteReady ==
    ASSUME HostInv, host # NoTransfer, host.n >= MinBytes, m_state \in Writing
    PROVE  /\ WEL \in m_sreg \/ m_state = "WRSR"
           /\ WIP \notin m_sreg /\ DPD \notin m_sreg
           /\ m_state \in {"PP", "QPP", "SECTOR_ERASE"} => m_addr \in Address
<1>1. /\ host.op \in Ops /\ host.op # -1 /\ host.n \in Nat /\ CommandTaken /\ Flags /\ AddressFollows
      /\ Header \in {1, 3, 4} /\ (Header = 3 <=> host.op = Continuous) /\ Gap \in {0, 1, 3}
  BY Headers DEF HostInv, HostTypeOK, Gap, FastRead, DualIO, QuadIO, Continuous
<1>2. host.n >= Header
  <2>1. \A h \in {1, 3, 4}, gap \in {0, 1, 3}, n \in Nat : (n >= h + 1 => n >= h) /\ (n >= h + gap => n >= h)
    OBVIOUS
  <2>2. QED
    BY <1>1, <2>1 DEF MinBytes
<1>3. DPD \notin m_sreg
  BY <1>1 DEF Flags, Writing
<1>4. host.op \notin {102, Continuous}
  <2>1. host.n # 0 /\ ~(host.n < Header)
    BY <1>1, <1>2
  <2>2. OneLaneRest => m_state \notin Writing
    BY DEF OneLaneRest, Resting, Writing, QuadReads, DualReads
  <2>3. QED
    BY <1>1, <2>1, <2>2 DEF CommandTaken, Writing
<1>5. m_state \in StateOf(host.op)
  <2>1. host.n # 0
    BY <1>1, <1>2
  <2>2. QED
    BY <1>1, <1>3, <1>4, <2>1 DEF CommandTaken
<1>6. host.op \notin Registers \cup {Release, -1}
  <2>1. host.op \in Registers \cup {Release} => StateOf(host.op) \subseteq {"RDSR", "RDCR", "RDID", "RELEASE"}
    BY DEF StateOf, Registers, WriteCommands, WriteStatus, PageProgram, QuadProgram, SectorErase,
         BulkErase, Read, FastRead, DualIO, QuadIO, ReadStatus, ReadConfig, ReadID, ClearStatus, Release,
         PowerDown, WriteEnable, WriteDisable
  <2>2. QED
    BY <1>1, <1>5, <2>1 DEF Writing
<1>7. QED
  BY <1>1, <1>2, <1>3, <1>6 DEF Flags, AddressFollows

\* The end of a transfer.
LEMMA NorEnd ==
    ASSUME HostInv, HostEnd
    PROVE  NorStep
<1>1. host # NoTransfer /\ host.n >= MinBytes /\ Deselect /\ FlashTypeOK
  BY DEF HostEnd, HostInv
<1>2. m_state \notin {"QUAD_READ_IDLE", "DUAL_READ_IDLE"}
  BY <1>1, TransferReached DEF Reached
<1>3. WIP # WEL /\ WIP # DPD /\ WEL # DPD
  BY DEF WIP, WEL, DPD
<1>4. CASE m_state \in Writing
  <2>1. /\ WEL \in m_sreg \/ m_state = "WRSR"
        /\ WIP \notin m_sreg /\ DPD \notin m_sreg
        /\ m_state \in {"PP", "QPP", "SECTOR_ERASE"} => m_addr \in Address
    BY <1>1, <1>4, WriteReady
  <2>2. m_sreg' = (m_sreg \ {WEL}) \cup {WIP} /\ m_state' = "IDLE"
    <3>1. m_state \notin QuadReads \cup DualReads \cup {"CLSR"}
      BY <1>4 DEF Writing, QuadReads, DualReads
    <3>2. m_sreg' = (m_sreg \ {WEL}) \cup {WIP}
      BY <1>1, <1>4, <3>1 DEF Deselect
    <3>3. m_state' = "IDLE"
      BY <1>1, <1>4, <3>1 DEF Deselect
    <3>4. QED
      BY <3>2, <3>3
  <2>3. (WEL \in m_sreg \/ m_state = "WRSR")' = FALSE /\ (WIP \in m_sreg)' = TRUE
    BY <1>3, <2>2
  <2>4. (DPD \in m_sreg)' = (DPD \in m_sreg)
    BY <1>3, <2>2
  <2>5. Nor!StartWrite
    BY <2>1, <2>3, <2>4 DEF Nor!StartWrite
  <2>6. CASE m_state \in {"PP", "QPP"}
    <3>1. m_mem' = [a \in Address |-> Programmed(a)]
      BY <1>1, <2>6 DEF Deselect
    <3>2. m_addr \in Address /\ Address = Nor!Address
      BY <2>1, <2>6 DEF Address, Nor!Address
    <3>3. ASSUME NEW a \in Nor!Address
          PROVE  IF Nor!Same(a, m_addr, PageBytes) THEN Nor!OnlyClears(m_mem'[a], m_mem[a]) ELSE m_mem'[a] = m_mem[a]
      <4>1. a \in Address /\ m_mem'[a] = Programmed(a)
        BY <3>1, <3>2
      <4>2. AlignDown(a, PageBytes) = AlignDown(m_addr, PageBytes) <=> Nor!Same(a, m_addr, PageBytes)
        <5>1. a \in Nat /\ m_addr \in Nat /\ PageBytes \in Nat \ {0}
          BY <3>2, <4>1, GeometryAssumption DEF Address
        <5>2. QED
          BY <5>1, SameIsAligned
      <4>3. m_pmem[a % PageBytes] \in Byte
        <5>1. a % PageBytes \in Offset
          BY <4>1, GeometryAssumption DEF Address, Offset
        <5>2. QED
          BY <1>1, <5>1 DEF FlashTypeOK
      <4>4. CASE Nor!Same(a, m_addr, PageBytes)
        <5>1. m_mem'[a] = ByteOf(Bits(m_mem[a]) \cap Bits(m_pmem[a % PageBytes]))
          BY <4>1, <4>2, <4>4 DEF Programmed
        <5>2. QED
          BY <1>1, <4>1, <4>3, <4>4, <5>1, ProgramClears
      <4>5. CASE ~Nor!Same(a, m_addr, PageBytes)
        BY <4>1, <4>2, <4>5 DEF Programmed
      <4>6. QED
        BY <4>4, <4>5
    <3>4. Nor!Program
      BY <2>5, <3>1, <3>2, <3>3 DEF Nor!Program
    <3>5. QED
      BY <3>4 DEF NorStep, Nor!Next
  <2>7. CASE m_state = "SECTOR_ERASE"
    <3>1. m_mem' = [a \in Address |-> Erased(a)]
      BY <1>1, <2>7 DEF Deselect
    <3>2. m_addr \in Address /\ Address = Nor!Address
      BY <2>1, <2>7 DEF Address, Nor!Address
    <3>3. \A a \in Address : Erased(a) = IF Nor!Same(a, m_addr, SectorBytes) THEN 255 ELSE m_mem[a]
      <4>1. TAKE a \in Address
      <4>2. a \in Nat /\ m_addr \in Nat /\ SectorBytes \in Nat \ {0}
        BY <3>2, GeometryAssumption DEF Address
      <4>3. QED
        BY <4>2, SameIsAligned DEF Erased
    <3>4. m_mem' = [a \in Nor!Address |-> IF Nor!Same(a, m_addr, SectorBytes) THEN 255 ELSE m_mem[a]]
      BY <3>1, <3>2, <3>3
    <3>5. Nor!EraseSector
      BY <2>5, <3>2, <3>4 DEF Nor!EraseSector
    <3>6. QED
      BY <3>5 DEF NorStep, Nor!Next
  <2>8. CASE m_state = "BULK_ERASE"
    <3>1. m_mem' = [a \in Nor!Address |-> 255]
      BY <1>1, <2>8 DEF Deselect, Address, Nor!Address
    <3>2. Nor!EraseChip
      BY <2>5, <3>1 DEF Nor!EraseChip
    <3>3. QED
      BY <3>2 DEF NorStep, Nor!Next
  <2>9. CASE m_state = "WRSR"
    <3>1. m_mem' = m_mem
      BY <1>1, <2>9 DEF Deselect
    <3>2. Nor!WriteStatus
      BY <2>5, <3>1 DEF Nor!WriteStatus
    <3>3. QED
      BY <3>2 DEF NorStep, Nor!Next
  <2>10. QED
    BY <1>4, <2>6, <2>7, <2>8, <2>9 DEF Writing
<1>5. CASE m_state \notin Writing
  <2>1. m_mem' = m_mem /\ m_state # "WRSR" /\ m_state' # "WRSR"
    BY <1>1, <1>5 DEF Deselect, Writing
  <2>2. m_sreg' = m_sreg \/ (m_sreg' = m_sreg \cap {0, 1, 2, 3, 4, 7} /\ m_state = "CLSR")
    <3>1. m_state = "CLSR" => m_sreg' = m_sreg \cap {0, 1, 2, 3, 4, 7}
      BY <1>1, <1>5 DEF Deselect
    <3>2. m_state # "CLSR" => m_sreg' = m_sreg
      BY <1>1, <1>5 DEF Deselect
    <3>3. QED
      BY <3>1, <3>2
  <2>3. m_state = "CLSR" => DPD \notin m_sreg
    BY DEF HostInv, Flags
  <2>4. /\ (WIP \in m_sreg)' = (WIP \in m_sreg) /\ (DPD \in m_sreg)' = (DPD \in m_sreg)
        /\ (WEL \in m_sreg)' = (WEL \in m_sreg)
    BY <2>2, <2>3 DEF WIP, WEL, DPD
  <2>5. (WEL \in m_sreg \/ m_state = "WRSR")' = (WEL \in m_sreg \/ m_state = "WRSR")
    BY <2>1, <2>4
  <2>6. UNCHANGED Nor!nor
    BY <2>1, <2>4, <2>5 DEF Nor!nor
  <2>7. QED
    BY <2>6 DEF NorStep
<1>6. QED
  BY <1>4, <1>5

\* A step of the host.
LEMMA NorHost ==
    ASSUME HostInv, HostNext
    PROVE  NorStep
<1>1. ASSUME NEW op \in Ops, NEW addr \in HostAddresses, HostStart(op, addr)
      PROVE  NorStep
  <2>1. m_mem' = m_mem /\ m_sreg' = m_sreg /\ m_state' = m_state
    BY <1>1 DEF HostStart, flash, registers
  <2>2. QED
    BY <2>1, NorRests
<1>2. CASE HostByte
  <2>1. PICK byte \in NextBytes : ByteStep(byte)
    BY <1>2 DEF HostByte, ByteStep
  <2>2. QED
    BY <2>1, NorByte
<1>3. QED
  BY <1>1, <1>2, NorEnd, NorWriteEnds DEF HostNext

\* The controller writes no status.
FetchOnlyReads == exercise = "fetch" => m_state # "WRSR"

\* A step of the bench.
LEMMA NorSteps ==
    ASSUME FlashInv, FetchOnlyReads, FetchOnlyReads', [Next]_vars
    PROVE  NorStep
<1>1. CASE FetchCycle
  <2>1. exercise = "fetch" /\ exercise' = exercise
    BY <1>1 DEF FetchCycle
  <2>2. Keeps
    BY <1>1, <2>1, FetchCycles DEF FlashInv
  <2>3. m_mem' = m_mem /\ m_sreg' = m_sreg
    BY <2>2 DEF Keeps
  <2>4. m_state # "WRSR" /\ m_state' # "WRSR"
    BY <2>1 DEF FetchOnlyReads
  <2>5. QED
    BY <2>3, <2>4, NorRests
<1>2. CASE HostCycle
  <2>1. HostInv /\ HostNext
    BY <1>2 DEF HostCycle, FlashInv
  <2>2. QED
    BY <2>1, NorHost
<1>3. CASE UNCHANGED flash
  <2>1. m_mem' = m_mem /\ m_sreg' = m_sreg /\ m_state' = m_state
    BY <1>3 DEF flash, registers
  <2>2. QED
    BY <2>1, NorRests
<1>4. QED
  <2>1. FetchCycle \/ HostCycle \/ UNCHANGED flash
    BY DEF Next, UartCycle, MicCycle, JtagStep, Ended, vars
  <2>2. QED
    BY <1>1, <1>2, <1>3, <2>1

\* To a host that keeps to the data sheet the model is a NOR flash, whatever the
\* geometry, the image and the data; the controller's reads leave it as it is.
\* flashsim.cpp:159-249,304-456.
THEOREM FlashIsNor == Spec => ImplementsNor
<1>1. Init => Nor!Init
  <2>1. SUFFICES ASSUME Init
                 PROVE  Nor!Init
    OBVIOUS
  <2>2. m_mem \in [Address -> Byte] /\ m_sreg = {2, 3, 4} /\ m_state = "IDLE"
    BY <2>1, InitTypes DEF Init, FlashInit, FlashTypeOK
  <2>3. m_mem \in [Nor!Address -> 0 .. 255]
    BY <2>2 DEF Address, Nor!Address, Byte
  <2>4. WEL \notin m_sreg /\ WIP \notin m_sreg /\ DPD \notin m_sreg
    BY <2>2 DEF WEL, WIP, DPD
  <2>5. QED
    BY <2>2, <2>3, <2>4 DEF Nor!Init
<1>2. FlashInv => FetchOnlyReads
  BY FlashShape DEF FlashInv, FetchOnlyReads, SpiReady, QuadIdle, Reads4, QuadReads
<1>3. FlashInv /\ FetchOnlyReads /\ FetchOnlyReads' /\ [Next]_vars => [Nor!Next]_(Nor!nor)
  BY NorSteps DEF NorStep
<1>4. QED
  BY <1>1, <1>2, <1>3, FlashInvariant, PTL DEF Spec, ImplementsNor, Nor!Spec
=============================================================================
