---------------------------- MODULE BenchProofs -----------------------------
(***************************************************************************)
(* Theorems about the devices that the benches attach to the design, each  *)
(* by itself: in SimBench they share nothing but the clock.                *)
(***************************************************************************)
EXTENDS FlashProofs, SequenceTheorems

-----------------------------------------------------------------------------
(* Each device by itself: in the bench they share nothing but the clock.   *)

UartVars == <<monitor, transmitter>>
UartSpec == UartInit /\ [][UartClock]_UartVars

MicVars == <<mic, receiver>>
MicSpec == MicInit /\ [][MicClock]_MicVars

BitbangSpec == BitbangInit /\ [][BitbangNext]_bitbang

LEMMA DevicesRun == Spec => UartSpec /\ MicSpec /\ BitbangSpec
<1>1. Init => UartInit /\ MicInit /\ BitbangInit
  BY DEF Init
<1>2. [Next]_vars => [UartClock]_UartVars
  BY DEF Next, FetchCycle, HostCycle, UartCycle, MicCycle, JtagStep, Ended, vars, UartVars
<1>3. [Next]_vars => [MicClock]_MicVars
  BY DEF Next, FetchCycle, HostCycle, UartCycle, MicCycle, JtagStep, Ended, vars, MicVars
<1>4. [Next]_vars => [BitbangNext]_bitbang
  BY DEF Next, FetchCycle, HostCycle, UartCycle, MicCycle, JtagStep, Ended, vars
<1>5. QED
  BY <1>1, <1>2, <1>3, <1>4, PTL DEF Spec, UartSpec, MicSpec, BitbangSpec

-----------------------------------------------------------------------------
(* The UART decoder, for any bit time and any bytes.                       *)

\* The clock of a frame in which the decoder leaves state b.
SampleTick(b) == FirstSample + (b - 1) * uart_cycles_per_bit

\* The decoder counts the clocks of the frame, and has the bits before its state.
Receiving ==
    /\ tx_tick \in 0 .. SampleTick(uart_state) - 1
    /\ uart_bit_timer = SampleTick(uart_state) - tx_tick
    /\ uart_shifter = tx_byte % 2^(uart_state - 1)
    /\ printed = <<>>

\* It is idle from the middle of the stop bit on.
Received ==
    /\ uart_shifter = 0
    /\ tx_tick = Silent \/ tx_tick >= SampleTick(UART_STOP)
    /\ printed = <<tx_byte>> \/ (printed = <<>> /\ tx_tick = Silent)

UartInv ==
    /\ bit_time \in {uart_cycles_per_bit, uart_cycles_per_bit + 1}
    /\ tx_byte \in 0 .. 255 /\ tx_tick \in Silent .. LastTxTick
    /\ uart_state \in UART_IDLE .. UART_STOP
    /\ IF uart_state = UART_IDLE THEN Received ELSE Receiving

\* A bit time of sixteen clocks: the rounding adds up to eight by the last data bit.
LongBits == uart_cycles_per_bit >= 16

\* The bits of a byte, one after the other.
LEMMA BitOf ==
    ASSUME NEW x \in 0 .. 255, NEW b \in 1 .. 8
    PROVE  /\ (x % 2^(b - 1)) + ((x \div 2^(b - 1)) % 2) * 2^(b - 1) = x % 2^b
           /\ 2^(b - 1) \in Nat \ {0}
<1> DEFINE Holds(p, q) == (x % p) + ((x \div p) % 2) * p = x % q /\ p \in Nat \ {0}
<1>1. CASE b = 1
  <2>1. b - 1 = 0 /\ 2^0 = 1 /\ 2^1 = 2
    BY <1>1
  <2>2. Holds(1, 2)
    OBVIOUS
  <2> HIDE DEF Holds
  <2>3. Holds(2^(b - 1), 2^b)
    BY <1>1, <2>1, <2>2
  <2>4. QED
    BY <2>3 DEF Holds
<1>2. CASE b = 2
  <2>1. b - 1 = 1 /\ 2^1 = 2 /\ 2^2 = 4
    BY <1>2
  <2>2. Holds(2, 4)
    OBVIOUS
  <2> HIDE DEF Holds
  <2>3. Holds(2^(b - 1), 2^b)
    BY <1>2, <2>1, <2>2
  <2>4. QED
    BY <2>3 DEF Holds
<1>3. CASE b = 3
  <2>1. b - 1 = 2 /\ 2^2 = 4 /\ 2^3 = 8
    BY <1>3
  <2>2. Holds(4, 8)
    OBVIOUS
  <2> HIDE DEF Holds
  <2>3. Holds(2^(b - 1), 2^b)
    BY <1>3, <2>1, <2>2
  <2>4. QED
    BY <2>3 DEF Holds
<1>4. CASE b = 4
  <2>1. b - 1 = 3 /\ 2^3 = 8 /\ 2^4 = 16
    BY <1>4
  <2>2. Holds(8, 16)
    OBVIOUS
  <2> HIDE DEF Holds
  <2>3. Holds(2^(b - 1), 2^b)
    BY <1>4, <2>1, <2>2
  <2>4. QED
    BY <2>3 DEF Holds
<1>5. CASE b = 5
  <2>1. b - 1 = 4 /\ 2^4 = 16 /\ 2^5 = 32
    BY <1>5
  <2>2. Holds(16, 32)
    OBVIOUS
  <2> HIDE DEF Holds
  <2>3. Holds(2^(b - 1), 2^b)
    BY <1>5, <2>1, <2>2
  <2>4. QED
    BY <2>3 DEF Holds
<1>6. CASE b = 6
  <2>1. b - 1 = 5 /\ 2^5 = 32 /\ 2^6 = 64
    BY <1>6
  <2>2. Holds(32, 64)
    OBVIOUS
  <2> HIDE DEF Holds
  <2>3. Holds(2^(b - 1), 2^b)
    BY <1>6, <2>1, <2>2
  <2>4. QED
    BY <2>3 DEF Holds
<1>7. CASE b = 7
  <2>1. b - 1 = 6 /\ 2^6 = 64 /\ 2^7 = 128
    BY <1>7
  <2>2. Holds(64, 128)
    OBVIOUS
  <2> HIDE DEF Holds
  <2>3. Holds(2^(b - 1), 2^b)
    BY <1>7, <2>1, <2>2
  <2>4. QED
    BY <2>3 DEF Holds
<1>8. CASE b = 8
  <2>1. b - 1 = 7 /\ 2^7 = 128 /\ 2^8 = 256
    BY <1>8
  <2>2. Holds(128, 256)
    OBVIOUS
  <2> HIDE DEF Holds
  <2>3. Holds(2^(b - 1), 2^b)
    BY <1>8, <2>1, <2>2
  <2>4. QED
    BY <2>3 DEF Holds
<1>9. QED
  BY <1>1, <1>2, <1>3, <1>4, <1>5, <1>6, <1>7, <1>8
\* The bit on the line in a clock of a frame.
LEMMA BitAt ==
    ASSUME NEW n \in Nat \ {0}, NEW b \in Nat, NEW t \in Nat, b * n <= t, t < (b + 1) * n
    PROVE  t \div n = b
<1> DEFINE q == t \div n
           r == t % n
           s == t - b * n
<1>1. q \in Int /\ r \in 0 .. n - 1 /\ t = n * q + r
  BY DivMod
<1>2. s \in 0 .. n - 1 /\ t = b * n + s
  OBVIOUS
<1> HIDE DEF q, r, s
<1>3. q * n + r = b * n + s
  BY <1>1, <1>2
<1>4. q = b
  BY <1>1, <1>2, <1>3, RowUnique
<1>5. QED
  BY <1>4 DEF q

\* Where the samples are, for both bit times of the transmitter.
LEMMA SampleIsInBit ==
    ASSUME LongBits, NEW n \in {uart_cycles_per_bit, uart_cycles_per_bit + 1}, NEW b \in 1 .. UART_STOP
    PROVE  /\ SampleTick(b) \in Nat /\ n \in Nat \ {0}
           /\ b < UART_STOP => b * n <= SampleTick(b) /\ SampleTick(b) < (b + 1) * n
           /\ b = UART_STOP => b * n <= SampleTick(b) + 1 /\ SampleTick(b) < (b + 1) * n
           /\ SampleTick(b + 1) = SampleTick(b) + uart_cycles_per_bit
           /\ SampleTick(1) = FirstSample /\ FirstSample > uart_cycles_per_bit
<1> DEFINE c == uart_cycles_per_bit
           h == c \div 2
           m == b * c
<1>1. c \in Nat /\ c >= 16 /\ h \in Nat /\ h >= 8 /\ h < c /\ b \in 1 .. 9
  BY UartAssumption DEF LongBits, UART_STOP
<1>2. m \in Nat /\ m >= b /\ (b - 1) * c = m - c /\ ((b + 1) - 1) * c = m /\ (1 - 1) * c = 0
  BY <1>1
<1>3. n = c => b * n = m /\ (b + 1) * n = m + c
  BY <1>1
<1>4. n = c + 1 => b * n = m + b /\ (b + 1) * n = m + c + b + 1
  BY <1>1
<1> HIDE DEF m, h
<1>5. SampleTick(b) = m + h /\ SampleTick(b + 1) = m + h + c /\ SampleTick(1) = FirstSample
  BY <1>1, <1>2 DEF SampleTick, FirstSample, h
<1>6. FirstSample = c + h
  BY DEF FirstSample, h
<1>7. n = c \/ n = c + 1
  OBVIOUS
<1> HIDE DEF c
<1>8. QED
  BY <1>1, <1>2, <1>3, <1>4, <1>5, <1>6, <1>7 DEF UART_STOP, c

LEMMA UartInitInv == UartInit => UartInv
BY UartAssumption DEF UartInit, UartInv, Received, Silent, UART_IDLE, UART_STOP, LastTxTick

\* What the line shows while a frame is sent.
LEMMA LineIs ==
    ASSUME LongBits, UartInv, UartClock
    PROVE  /\ bit_time' = bit_time /\ bit_time' \in {uart_cycles_per_bit, uart_cycles_per_bit + 1}
           /\ tx_tick' = Silent => uart_tx' = 1
           /\ tx_tick' = 0 => uart_tx' = 0
           /\ \A b \in 1 .. 8 : tx_tick' = SampleTick(b) => uart_tx' = (tx_byte' \div 2^(b - 1)) % 2
           /\ tx_tick' > SampleTick(UART_STOP) /\ tx_tick' <= LastTxTick' => uart_tx' = 1
<1>1. bit_time' = bit_time /\ bit_time' \in {uart_cycles_per_bit, uart_cycles_per_bit + 1}
  BY DEF UartClock, Transmit, UartInv
<1>2. PICK n \in {uart_cycles_per_bit, uart_cycles_per_bit + 1} : n = bit_time'
  BY <1>1
<1>3. n \in Nat \ {0}
  BY SampleIsInBit DEF UART_STOP
<1>4. tx_tick' = Silent => uart_tx' = 1
  BY DEF uart_tx
<1>5. ASSUME tx_tick' = 0 PROVE uart_tx' = 0
  <2>1. 0 \div n = 0
    BY <1>3, BitAt
  <2>2. QED
    BY <1>2, <1>5, <2>1 DEF uart_tx, Silent
<1>6. ASSUME NEW b \in 1 .. 8, tx_tick' = SampleTick(b)
      PROVE  uart_tx' = (tx_byte' \div 2^(b - 1)) % 2
  <2>1. SampleTick(b) \in Nat /\ b * n <= SampleTick(b) /\ SampleTick(b) < (b + 1) * n
    BY SampleIsInBit DEF UART_STOP
  <2>2. SampleTick(b) \div n = b
    BY <1>3, <2>1, BitAt
  <2>3. QED
    BY <1>2, <1>6, <2>1, <2>2 DEF uart_tx, Silent
<1>7. ASSUME tx_tick' > SampleTick(UART_STOP), tx_tick' <= LastTxTick', tx_tick' \in Int PROVE uart_tx' = 1
  <2>1. PICK t \in Int : t = tx_tick'
    BY <1>7
  <2>2. SampleTick(9) \in Nat /\ 9 * n <= SampleTick(9) + 1
    BY SampleIsInBit DEF UART_STOP
  <2>3. t \in Nat /\ 9 * n <= t /\ t < (9 + 1) * n
    <3>1. LastTxTick' = 10 * n - 1 /\ SampleTick(UART_STOP) = SampleTick(9)
      BY <1>2 DEF LastTxTick, UART_STOP
    <3>2. t <= 10 * n - 1 /\ t > SampleTick(9)
      BY <1>7, <2>1, <3>1
    <3>3. QED
      BY <1>3, <2>2, <3>2
  <2>4. t \div n = 9
    BY <1>3, <2>3, BitAt
  <2>5. QED
    BY <1>2, <2>1, <2>3, <2>4 DEF uart_tx, Silent
<1>8. tx_tick' \in Int
  BY <1>1, SampleIsInBit DEF UartInv, UartClock, Transmit, StartByte, Silent
<1>9. QED
  BY <1>1, <1>4, <1>5, <1>6, <1>7, <1>8

LEMMA UartStep ==
    ASSUME LongBits, UartInv, UartClock
    PROVE  UartInv'
<1> DEFINE c == uart_cycles_per_bit
<1>1. /\ bit_time \in {c, c + 1} /\ bit_time' = bit_time /\ LastTxTick' = LastTxTick
      /\ LastTxTick \in Nat /\ c \in Nat /\ c >= 16
  BY LineIs, UartAssumption DEF UartInv, UartClock, Transmit, LastTxTick, LongBits
<1>2. PICK b \in 0 .. 9, t \in Int : b = uart_state /\ t = tx_tick /\ t \in -1 .. LastTxTick
  BY DEF UartInv, UART_IDLE, UART_STOP, Silent
<1>3. /\ SampleTick(UART_STOP) <= LastTxTick /\ SampleTick(1) = FirstSample /\ FirstSample > c
      /\ \A k \in 1 .. UART_STOP : /\ SampleTick(k) \in Nat
                                  /\ SampleTick(k + 1) = SampleTick(k) + c
  <2>1. PICK n \in {c, c + 1} : n = bit_time
    BY <1>1
  <2>2. SampleTick(9) < (9 + 1) * n /\ n \in Nat /\ SampleTick(9) \in Nat
    BY SampleIsInBit DEF UART_STOP
  <2>3. LastTxTick = 10 * n - 1
    BY <2>1 DEF LastTxTick
  <2>4. SampleTick(9) <= LastTxTick
    BY <2>2, <2>3
  <2>5. QED
    BY <2>4, SampleIsInBit DEF UART_STOP
<1>4. CASE b = 0
  <2>1. uart_state = UART_IDLE /\ Received
    BY <1>2, <1>4 DEF UartInv, UART_IDLE
  <2>2. ~Prints
    BY <2>1 DEF Prints, UART_IDLE, UART_STOP
  <2>3. CASE StartByte /\ t \in {-1, LastTxTick}
    <3>1. tx_byte' \in UartBytes /\ tx_tick' = 0 /\ tx_byte' \in 0 .. 255
      BY <2>3, UartAssumption DEF StartByte
    <3>2. uart_tx' = 0
      BY <3>1, LineIs
    <3>3. /\ uart_state' = UART_START /\ uart_bit_timer' = FirstSample /\ uart_shifter' = uart_shifter
          /\ printed' = <<>>
      BY <2>1, <2>2, <3>1, <3>2 DEF UartClock, Decode
    <3>4. tx_byte' % 2^(1 - 1) = 0
      <4>1. PICK x \in 0 .. 255 : x = tx_byte'
        BY <3>1
      <4>2. x % 1 = 0 /\ 1 - 1 = 0 /\ 2^0 = 1
        OBVIOUS
      <4>3. x % 2^(1 - 1) = 0
        BY <4>2
      <4>4. QED
        BY <4>1, <4>3
    <3>5. Receiving'
      <4>1. uart_shifter' = tx_byte' % 2^(uart_state' - 1)
        <5>1. uart_state' = 1 /\ uart_shifter' = 0
          BY <2>1, <3>3 DEF Received, UART_START
        <5>2. QED
          BY <3>4, <5>1
      <4>2. SampleTick(uart_state)' = FirstSample /\ FirstSample \in Nat
        <5>1. SampleTick(uart_state)' = FirstSample + (uart_state' - 1) * c
          BY DEF SampleTick, FirstSample
        <5>2. uart_state' - 1 = 0 /\ FirstSample \in Nat
          BY <1>1, <1>3, <3>3 DEF UART_START, FirstSample
        <5>3. QED
          BY <1>1, <5>1, <5>2
      <4>3. /\ tx_tick' \in 0 .. SampleTick(uart_state)' - 1
            /\ uart_bit_timer' = SampleTick(uart_state)' - tx_tick'
        BY <1>1, <1>3, <3>1, <3>3, <4>2
      <4>4. QED
        BY <3>3, <4>1, <4>3 DEF Receiving
    <3>6. QED
      BY <1>1, <3>1, <3>3, <3>5 DEF UartInv, UART_START, UART_IDLE, UART_STOP, Silent
  <2>4. CASE tx_tick' = Silent /\ tx_byte' = tx_byte /\ t \in {-1, LastTxTick}
    <3>1. uart_tx' = 1
      BY <2>4, LineIs
    <3>2. /\ uart_state' = UART_IDLE /\ uart_shifter' = uart_shifter /\ printed' = printed
      BY <2>1, <2>2, <2>4, <3>1 DEF UartClock, Decode, Silent
    <3>3. Received'
      BY <2>1, <2>4, <3>2 DEF Received
    <3>4. QED
      BY <1>1, <2>4, <3>2, <3>3 DEF UartInv, UART_START, UART_IDLE, UART_STOP, Silent
  <2>5. CASE t \notin {-1, LastTxTick}
    <3>1. tx_tick' = t + 1 /\ tx_byte' = tx_byte /\ t >= SampleTick(UART_STOP) /\ tx_tick # Silent
      BY <1>2, <2>1, <2>5 DEF UartClock, Transmit, Silent, Received
    <3>2. t + 1 > SampleTick(UART_STOP) /\ t + 1 <= LastTxTick /\ t + 1 # 0
      BY <1>1, <1>2, <1>3, <2>5, <3>1 DEF UART_STOP
    <3>3. uart_tx' = 1
      BY <1>1, <3>1, <3>2, LineIs
    <3>4. /\ uart_state' = UART_IDLE /\ uart_shifter' = uart_shifter /\ printed' = printed
      BY <2>1, <2>2, <3>1, <3>2, <3>3 DEF UartClock, Decode
    <3>5. Received'
      <4>1. SampleTick(UART_STOP)' = SampleTick(UART_STOP)
        BY DEF SampleTick, FirstSample, UART_STOP
      <4>2. tx_tick' > SampleTick(UART_STOP) /\ printed' = <<tx_byte'>>
        BY <2>1, <3>1, <3>2, <3>4 DEF Received
      <4>3. tx_tick' >= SampleTick(UART_STOP)' /\ uart_shifter' = 0
        BY <1>1, <1>3, <2>1, <3>1, <3>4, <4>1, <4>2 DEF Received, UART_STOP
      <4>4. QED
        BY <4>2, <4>3 DEF Received
    <3>6. QED
      BY <1>1, <1>2, <3>1, <3>2, <3>4, <3>5 DEF UartInv, UART_START, UART_IDLE, UART_STOP, Silent
  <2>6. QED
    BY <1>2, <2>3, <2>4, <2>5 DEF UartClock, Transmit, Silent
<1>5. CASE b # 0
  <2>1. Receiving /\ b \in 1 .. 9 /\ uart_state # UART_IDLE /\ tx_byte \in 0 .. 255
    BY <1>2, <1>5 DEF UartInv, UART_IDLE
  <2>2. PICK s \in Nat : s = SampleTick(b)
    BY <1>3, <2>1 DEF UART_STOP
  <2>3. t \in 0 .. s - 1 /\ uart_bit_timer = s - t /\ s <= LastTxTick
    <3>1. s <= SampleTick(9)
      <4>1. (b - 1) * c <= (9 - 1) * c
        BY <1>1, <2>1
      <4>2. QED
        BY <1>1, <2>2, <4>1 DEF SampleTick, FirstSample
    <3>2. tx_tick \in 0 .. s - 1 /\ uart_bit_timer = s - tx_tick
      <4>1. SampleTick(uart_state) = s
        BY <1>2, <2>2
      <4>2. QED
        BY <2>1, <4>1 DEF Receiving
    <3>3. SampleTick(9) <= LastTxTick /\ SampleTick(9) \in Nat
      BY <1>3 DEF UART_STOP
    <3>4. QED
      BY <1>1, <1>2, <2>2, <3>1, <3>2, <3>3
  <2>4. tx_tick' = t + 1 /\ tx_byte' = tx_byte /\ t + 1 # 0 /\ t + 1 <= LastTxTick
    BY <1>1, <1>2, <2>3 DEF UartClock, Transmit, Silent
  <2>5. CASE t + 1 < s
    <3>1. uart_bit_timer > 1 /\ ~Prints
      BY <2>3, <2>5 DEF Prints
    <3>2. /\ uart_bit_timer' = uart_bit_timer - 1 /\ uart_state' = uart_state
          /\ uart_shifter' = uart_shifter /\ printed' = printed
      BY <2>1, <2>4, <3>1 DEF UartClock, Decode
    <3>3. Receiving'
      BY <1>1, <1>2, <2>1, <2>2, <2>3, <2>4, <2>5, <3>2 DEF Receiving
    <3>4. QED
      BY <1>1, <1>2, <2>1, <2>3, <2>4, <3>2, <3>3 DEF UartInv, UART_IDLE, UART_STOP, Silent
  <2>6. CASE t + 1 = s
    <3>1. uart_bit_timer = 1
      BY <2>3, <2>6
    <3>2. CASE b < 9
      <4>1. /\ uart_shifter' = uart_shifter + uart_tx' * 2^(uart_state - 1)
            /\ uart_bit_timer' = c /\ uart_state' = b + 1 /\ printed' = printed
        BY <1>2, <2>1, <2>4, <3>1, <3>2 DEF UartClock, Decode, Prints, UART_STOP
      <4>2. uart_tx' = (tx_byte \div 2^(b - 1)) % 2
        <5>1. tx_tick' = SampleTick(b) /\ b \in 1 .. 8 /\ tx_byte' = tx_byte
          BY <2>1, <2>2, <2>4, <2>6, <3>2
        <5>2. uart_tx' = (tx_byte' \div 2^(b - 1)) % 2
          BY <5>1, LineIs
        <5>3. QED
          BY <5>1, <5>2
      <4>3. uart_shifter' = tx_byte % 2^b
        <5>1. PICK x \in 0 .. 255 : x = tx_byte
          BY <2>1
        <5>2. uart_shifter' = (x % 2^(b - 1)) + ((x \div 2^(b - 1)) % 2) * 2^(b - 1)
          BY <1>2, <2>1, <4>1, <4>2, <5>1 DEF Receiving
        <5>3. b \in 1 .. 8
          BY <2>1, <3>2
        <5>4. (x % 2^(b - 1)) + ((x \div 2^(b - 1)) % 2) * 2^(b - 1) = x % 2^b
          BY <5>3, BitOf
        <5>5. QED
          BY <5>1, <5>2, <5>4
      <4>4. SampleTick(b + 1) = s + c /\ (b + 1) - 1 = b
        BY <1>3, <2>1, <2>2 DEF UART_STOP
      <4>5. Receiving'
        <5>1. SampleTick(uart_state)' = SampleTick(b + 1)
          <6>1. SampleTick(uart_state)' = FirstSample + (uart_state' - 1) * c
            BY DEF SampleTick, FirstSample
          <6>2. QED
            BY <4>1, <6>1 DEF SampleTick
        <5>2. uart_state' - 1 = b
          BY <4>1, <4>4
        <5>3. uart_shifter' = tx_byte' % 2^(uart_state' - 1)
          BY <2>4, <4>3, <5>2
        <5>4. /\ tx_tick' \in 0 .. SampleTick(uart_state)' - 1
              /\ uart_bit_timer' = SampleTick(uart_state)' - tx_tick'
          BY <1>1, <2>2, <2>3, <2>4, <2>6, <4>1, <4>4, <5>1
        <5>5. printed' = <<>>
          BY <2>1, <4>1 DEF Receiving
        <5>6. QED
          BY <5>3, <5>4, <5>5 DEF Receiving
      <4>6. /\ tx_byte' \in 0 .. 255 /\ tx_tick' \in Silent .. LastTxTick'
            /\ uart_state' \in UART_IDLE .. UART_STOP /\ uart_state' # UART_IDLE
        <5>1. b + 1 \in 0 .. 9 /\ b + 1 # 0
          BY <2>1, <3>2
        <5>2. tx_tick' \in -1 .. LastTxTick
          BY <1>1, <1>2, <2>3, <2>4
        <5>3. QED
          BY <1>1, <2>1, <2>4, <4>1, <5>1, <5>2 DEF UART_IDLE, UART_STOP, Silent
      <4>7. QED
        BY <1>1, <4>5, <4>6 DEF UartInv
    <3>3. CASE b = 9
      <4>1. /\ uart_shifter' = 0 /\ uart_state' = UART_IDLE
            /\ printed' = Append(printed, uart_shifter)
        BY <1>2, <2>1, <2>4, <3>1, <3>3 DEF UartClock, Decode, Prints, UART_STOP
      <4>2. uart_shifter = tx_byte
        <5>1. b - 1 = 8 /\ 2^8 = 256
          BY <3>3
        <5>2. uart_shifter = tx_byte % 256
          BY <1>2, <2>1, <5>1 DEF Receiving
        <5>3. QED
          BY <2>1, <5>2
      <4>3. printed' = <<tx_byte'>>
        BY <2>1, <2>4, <4>1, <4>2 DEF Receiving
      <4>4. Received'
        BY <1>1, <2>2, <2>4, <2>6, <3>3, <4>1, <4>3 DEF Received, SampleTick, FirstSample, UART_STOP
      <4>5. QED
        BY <1>1, <2>1, <2>3, <2>4, <4>1, <4>4 DEF UartInv, UART_IDLE, UART_STOP, Silent
    <3>4. QED
      BY <2>1, <3>2, <3>3
  <2>7. QED
    BY <2>3, <2>5, <2>6
<1>6. QED
  BY <1>4, <1>5

\* Each byte is printed once, as itself and within its frame, if a bit has sixteen clocks
\* or more, although the decoder's bit may be a clock short. kws_soc_tb.cpp:331.
THEOREM UartPrints == LongBits => (Spec => []PrintedIsSent)
<1> SUFFICES ASSUME LongBits PROVE Spec => []PrintedIsSent
  OBVIOUS
<1>1. UartInv /\ [UartClock]_UartVars => UartInv'
  <2> SUFFICES ASSUME UartInv, [UartClock]_UartVars PROVE UartInv'
    OBVIOUS
  <2>1. CASE UartClock
    BY <2>1, UartStep
  <2>2. CASE UNCHANGED UartVars
    BY <2>2 DEF UartVars, monitor, transmitter, UartInv, Receiving, Received, LastTxTick
  <2>3. QED
    BY <2>1, <2>2
<1>2. ASSUME UartInv PROVE PrintedIsSent
  <2>1. PICK n \in {uart_cycles_per_bit, uart_cycles_per_bit + 1} : n = bit_time
    BY <1>2 DEF UartInv
  <2>2. \A b \in 1 .. 9 : SampleTick(b) \in Nat
    BY SampleIsInBit DEF UART_STOP
  <2>3. SampleTick(9) < (9 + 1) * n /\ n \in Nat \ {0}
    BY SampleIsInBit DEF UART_STOP
  <2>4. CASE uart_state = UART_IDLE
    BY <1>2, <2>1, <2>3, <2>4 DEF UartInv, Received, PrintedIsSent, LastTxTick, Silent
  <2>5. CASE uart_state # UART_IDLE
    <3>1. /\ printed = <<>> /\ tx_tick < SampleTick(uart_state) /\ uart_state \in 1 .. 9
          /\ SampleTick(uart_state) \in Nat
      <4>1. uart_state \in 1 .. 9 /\ Receiving
        BY <1>2, <2>5 DEF UartInv, UART_IDLE, UART_STOP
      <4>2. PICK k \in Nat : k = SampleTick(uart_state)
        BY <2>2, <4>1
      <4>3. printed = <<>> /\ tx_tick \in 0 .. k - 1
        BY <4>1, <4>2 DEF Receiving
      <4>4. QED
        BY <4>1, <4>2, <4>3
    <3>2. SampleTick(uart_state) <= SampleTick(9)
      <4>1. PICK b \in 1 .. 9 : b = uart_state
        BY <3>1
      <4>2. (b - 1) * uart_cycles_per_bit <= (9 - 1) * uart_cycles_per_bit
        BY UartAssumption
      <4>3. QED
        BY <4>1, <4>2, UartAssumption DEF SampleTick, FirstSample
    <3>3. tx_tick \in Int
      BY <1>2, <2>1, <2>3 DEF UartInv, LastTxTick, Silent
    <3>4. tx_tick # LastTxTick
      <4>1. LastTxTick = 10 * n - 1
        BY <2>1 DEF LastTxTick
      <4>2. SampleTick(9) \in Nat
        BY <2>2
      <4>3. PICK t \in Int : t = tx_tick
        BY <3>3
      <4>4. PICK x \in Nat : x = SampleTick(uart_state)
        BY <3>1
      <4>5. PICK y \in Nat : y = SampleTick(9)
        BY <4>2
      <4>6. t < x /\ x <= y
        BY <3>1, <3>2, <4>3, <4>4, <4>5
      <4>7. y < 10 * n /\ n \in Nat
        BY <2>3, <4>5
      <4>8. t # 10 * n - 1
        BY <4>6, <4>7
      <4>9. QED
        BY <4>1, <4>3, <4>8
    <3>5. QED
      BY <3>1, <3>4 DEF PrintedIsSent
  <2>6. QED
    BY <2>4, <2>5
<1>3. QED
  BY UartInitInv, <1>1, <1>2, DevicesRun, PTL DEF UartSpec

-----------------------------------------------------------------------------
(* The microphone, for a file of any length.                               *)

\* The word of a slot, and the words that have been fetched in it.
WordOf(slot) == IF slot \in 1 .. AudioWords THEN slot ELSE Default
FetchedIn(slot) == IF slot <= AudioWords THEN slot ELSE AudioWords

\* The microphone has seen the receiver's clock and word select, or the receiver has
\* not used them.
InStep ==
    \/ m_ws_delayed = i2s_ws /\ m_mic_last_sck = i2s_sck
    \/ m_ws_delayed = 0 /\ m_mic_last_sck = 1 /\ rx_slot = 0 /\ rx_pos = 0

MicInv ==
    /\ i2s_sck \in {0, 1} /\ i2s_ws \in {0, 1} /\ rx_pos \in Nat
    /\ rx_slot \in 0 .. AudioWords + 3 /\ m_bit_idx \in 0 .. SlotBits - 1
    /\ InStep
    /\ m_current_word_idx = FetchedIn(rx_slot) /\ m_current_word = WordOf(rx_slot)
    /\ m_sd_out = <<m_current_word, m_bit_idx>>
    /\ rx_slot > 0 => m_bit_idx = IF rx_pos < SlotBits THEN SlotBits - 1 - rx_pos ELSE 0
    /\ MicSendsAudio

LEMMA MicInitInv == MicInit => MicInv
BY AudioAssumption
   DEF MicInit, MicInv, InStep, FetchedIn, WordOf, MicSendsAudio, SlotBits, Default

LEMMA MicStepInv == MicInv /\ MicClock => MicInv'
<1> SUFFICES ASSUME MicInv, MicClock PROVE MicInv'
  OBVIOUS
<1> USE AudioAssumption DEF SlotBits, Default
<1>1. CASE ~(i2s_sck = 1 /\ i2s_sck' = 0)
  <2>1. i2s_sck' \in {0, 1} /\ UNCHANGED <<i2s_ws, rx_slot, rx_pos, rx_bit>>
    BY <1>1 DEF MicClock, ReceiverStep
  <2>2. CASE i2s_sck' = 0 /\ m_mic_last_sck = 1
    <3>1. m_ws_delayed = 0 /\ rx_slot = 0 /\ rx_pos = 0
      BY <1>1, <2>1, <2>2 DEF MicInv, InStep
    <3>2. UNCHANGED <<m_current_word, m_current_word_idx>>
      BY <2>1, <2>2, <3>1 DEF MicClock, MicStep, FetchWord, Fetches, MicInv
    <3>3. m_bit_idx' \in 0 .. SlotBits - 1 /\ m_ws_delayed' = i2s_ws' /\ m_mic_last_sck' = i2s_sck'
          /\ m_sd_out' = <<m_current_word', m_bit_idx'>>
      BY <2>2 DEF MicClock, MicStep, NextBit, MicInv
    <3>4. QED
      BY <2>1, <3>1, <3>2, <3>3 DEF MicInv, InStep, FetchedIn, WordOf, MicSendsAudio
  <2>3. CASE ~(i2s_sck' = 0 /\ m_mic_last_sck = 1)
    <3>1. /\ UNCHANGED <<m_bit_idx, m_ws_delayed, m_current_word, m_current_word_idx, m_sd_out>>
          /\ m_mic_last_sck' = i2s_sck'
      BY <2>3 DEF MicClock, MicStep
    <3>2. InStep'
      BY <2>1, <2>3, <3>1 DEF MicInv, InStep
    <3>3. QED
      BY <2>1, <3>1, <3>2 DEF MicInv, FetchedIn, WordOf, MicSendsAudio
  <2>4. QED
    BY <2>2, <2>3
<1>2. CASE i2s_sck = 1 /\ i2s_sck' = 0
  <2>1. m_mic_last_sck = 1 /\ m_mic_last_sck' = i2s_sck' /\ m_ws_delayed' = i2s_ws'
        /\ m_sd_out' = <<m_current_word', m_bit_idx'>> /\ rx_bit' = m_sd_out
    BY <1>2 DEF MicInv, InStep, MicClock, MicStep, ReceiverStep
  <2>2. InStep'
    BY <2>1 DEF InStep
  <2>3. CASE i2s_ws' = i2s_ws
    <3>1. rx_pos' = rx_pos + 1 /\ rx_slot' = rx_slot
      BY <1>2, <2>3 DEF MicInv, MicClock, ReceiverStep
    <3>2. UNCHANGED <<m_current_word, m_current_word_idx>>
      BY <1>2, <2>1, <2>3 DEF MicInv, InStep, MicClock, MicStep, FetchWord, Fetches
    <3>3. m_bit_idx' \in 0 .. SlotBits - 1
      BY <1>2, <2>1 DEF MicInv, MicClock, MicStep, NextBit
    <3>4. ASSUME rx_slot > 0
          PROVE  m_bit_idx' = IF rx_pos' < SlotBits THEN SlotBits - 1 - rx_pos' ELSE 0
      <4>1. m_ws_delayed = i2s_ws
        BY <3>4 DEF MicInv, InStep
      <4>2. m_bit_idx' = IF m_bit_idx > 0 THEN m_bit_idx - 1 ELSE 0
        BY <1>2, <2>1, <2>3, <4>1 DEF MicClock, MicStep, NextBit
      <4>3. QED
        BY <3>1, <3>4, <4>2 DEF MicInv
    <3>5. ASSUME i2s_ws' = 0, rx_slot' \in 1 .. AudioWords + 2, rx_pos' \in 1 .. SlotBits
          PROVE  rx_bit' = <<IF rx_slot' <= AudioWords THEN rx_slot' ELSE Default, SlotBits - rx_pos'>>
      <4>1. m_bit_idx = SlotBits - rx_pos' /\ rx_slot \in 1 .. AudioWords + 2
        BY <3>1, <3>5 DEF MicInv
      <4>2. m_sd_out = <<WordOf(rx_slot), m_bit_idx>>
        BY DEF MicInv
      <4>3. QED
        BY <2>1, <3>1, <4>1, <4>2 DEF WordOf
    <3>6. QED
      BY <1>2, <2>1, <2>2, <2>3, <3>1, <3>2, <3>3, <3>4, <3>5 DEF MicInv, FetchedIn, WordOf, MicSendsAudio
  <2>4. CASE i2s_ws' # i2s_ws
    <3>1. rx_pos >= SlotBits /\ i2s_ws' = 1 - i2s_ws /\ rx_pos' = 0
      BY <1>2, <2>4 DEF MicInv, MicClock, ReceiverStep
    <3>2. m_ws_delayed = i2s_ws
      BY <3>1 DEF MicInv, InStep
    <3>3. m_bit_idx' = SlotBits - 1 /\ FetchWord(i2s_ws')
      BY <1>2, <2>1, <2>4, <3>2 DEF MicClock, MicStep
    <3>4. rx_slot' = IF i2s_ws' = 0 /\ rx_slot < AudioWords + 3 THEN rx_slot + 1 ELSE rx_slot
      BY <1>2, <3>1 DEF MicInv, MicClock, ReceiverStep
    <3>5. m_current_word_idx' = FetchedIn(rx_slot)' /\ m_current_word' = WordOf(rx_slot)'
      BY <3>3, <3>4 DEF MicInv, FetchWord, Fetches, FetchedIn, WordOf
    <3>6. rx_slot' \in 0 .. AudioWords + 3 /\ i2s_ws' \in {0, 1}
      BY <3>1, <3>4 DEF MicInv
    <3>7. QED
      BY <1>2, <2>1, <2>2, <3>1, <3>3, <3>5, <3>6 DEF MicInv, MicSendsAudio
  <2>5. QED
    BY <2>3, <2>4
<1>3. QED
  BY <1>1, <1>2

\* The receiver is given the words of the file one by one, whatever the length of the
\* file, the phase in which the clocks start and the length of the slots. i2s_mic_sim.cpp:26-55.
THEOREM MicSends == Spec => []MicSendsAudio
<1>1. MicInv /\ UNCHANGED MicVars => MicInv'
  BY DEF MicVars, mic, receiver, MicInv, InStep, FetchedIn, WordOf, MicSendsAudio
<1>2. MicInv /\ [MicClock]_MicVars => MicInv'
  BY <1>1, MicStepInv
<1>3. MicInv => MicSendsAudio
  BY DEF MicInv
<1>4. QED
  BY MicInitInv, <1>2, <1>3, DevicesRun, PTL DEF MicSpec

-----------------------------------------------------------------------------
(* The JTAG pins, for any commands, buffers and number of cycles.          *)

\* Before a command is taken from the buffer no edge waits for a clock cycle.
EdgesInv ==
    /\ unseen \in [tck : 0 .. 1, trst_n : Nat]
    /\ bench = "verilator" => unseen.trst_n <= 1
    /\ pc \in {"jtag", "bytes", "accept"} => unseen.tck = 0
    /\ pc \in {"jtag", "bytes", "accept"} /\ bench = "verilator" => unseen.trst_n = 0

LEMMA EdgesInit == BitbangInit => EdgesInv
BY DEF BitbangInit, EdgesInv, FirstPc

LEMMA EdgesStep == EdgesInv /\ BitbangNext => EdgesInv'
<1> SUFFICES ASSUME EdgesInv, BitbangNext PROVE EdgesInv'
  OBVIOUS
<1>1. ASSUME UNCHANGED <<bench, unseen, pc>> PROVE EdgesInv'
  BY <1>1 DEF EdgesInv
<1>2. ASSUME UNCHANGED <<bench, unseen>>, pc \in {"jtag", "bytes", "accept"} \/ pc' \in {"clock", "exit", "killed"}
      PROVE  EdgesInv'
  BY <1>2 DEF EdgesInv
<1>3. ASSUME NEW q, NEW tx, EndCycle(q, tx) PROVE pc' \in {"clock", "exit", "killed"}
  BY <1>3 DEF EndCycle
<1>4. CASE BitbangClock
  BY <1>4 DEF BitbangClock, EdgesInv
<1>5. CASE CxxrtlRefill
  BY <1>2, <1>5 DEF CxxrtlRefill, pins
<1>6. CASE VerilatorRefill
  BY <1>2, <1>6 DEF VerilatorRefill, pins
<1>7. CASE Drained
  BY <1>2, <1>7 DEF Drained, pins
<1>8. ASSUME NEW c, PinWrite(c) PROVE EdgesInv'
  <2>1. /\ pc \in {"jtag", "bytes"} /\ UNCHANGED bench
        /\ IsPinWrite(c)
        /\ mask' = IF IsMask(c) THEN c - 48 ELSE mask
        /\ trst_n' = IF c \in TrstHigh THEN 1 ELSE IF c \in TrstLow THEN 0 ELSE trst_n
        /\ unseen' = [tck    |-> IF tck(mask') # tck(mask) THEN unseen.tck + 1 ELSE unseen.tck,
                      trst_n |-> IF trst_n' # trst_n THEN unseen.trst_n + 1 ELSE unseen.trst_n]
    BY <1>8 DEF PinWrite, TakeByte
  <2>2. unseen' \in [tck : 0 .. 1, trst_n : Nat] /\ (bench = "verilator" => unseen'.trst_n <= 1)
    <3>1. /\ unseen.tck = 0 /\ unseen.trst_n \in Nat
          /\ bench = "verilator" => unseen.trst_n = 0
      <4>1. pc \in {"jtag", "bytes", "accept"}
        BY <2>1
      <4>2. unseen \in [tck : 0 .. 1, trst_n : Nat]
        BY DEF EdgesInv
      <4>3. QED
        BY <4>1, <4>2 DEF EdgesInv
    <3>2. PICK x \in {unseen.tck, unseen.tck + 1}, y \in {unseen.trst_n, unseen.trst_n + 1} :
             unseen' = [tck |-> x, trst_n |-> y]
      BY <2>1
    <3>3. QED
      BY <3>1, <3>2
  <2>3. CASE EndsCycle(c)
    <3>1. pc' \in {"clock", "exit", "killed"}
      BY <1>3, <1>8, <2>3 DEF PinWrite
    <3>2. QED
      BY <2>1, <2>2, <3>1 DEF EdgesInv
  <2>4. CASE ~EndsCycle(c)
    <3>1. mask' = mask /\ (bench = "verilator" => trst_n' = trst_n)
      BY <2>1, <2>4 DEF EndsCycle, IsPinWrite
    <3>2. QED
      BY <2>1, <2>2, <3>1 DEF EdgesInv
  <2>5. QED
    BY <2>3, <2>4
<1>9. ASSUME NEW c, SampleTdo(c) \/ Quit(c) \/ Ignore(c) PROVE EdgesInv'
  BY <1>2, <1>9 DEF SampleTdo, Quit, Ignore, TakeByte, pins
<1>10. CASE ClientStep
  BY <1>1, <1>10 DEF ClientStep, ClientSend, ClientReceive, ClientClose, pins
<1>11. CASE Accept
  <2>1. UNCHANGED <<bench, unseen>>
    BY <1>11 DEF Accept, pins
  <2>2. pc = "accept" \/ pc' \in {"clock", "exit", "killed"}
    BY <1>11 DEF Accept, Continue
  <2>3. QED
    BY <1>2, <2>1, <2>2
<1>12. CASE Interrupt
  BY <1>1, <1>2, <1>12 DEF Interrupt, pins
<1>13. QED
  BY <1>4, <1>5, <1>6, <1>7, <1>8, <1>9, <1>10, <1>11, <1>12 DEF BitbangNext, BenchStep, DrainJtag

\* No edge of TCK is lost between clock cycles, nor one of TRST in the verilator bench,
\* whatever the client or the file sends, and across reconnects.
\* kws_soc_vpi.cpp:331-341, kws_soc_tb.cpp:410-425.
THEOREM EdgesSeen == Spec => []NoEdgeMissed
<1>1. EdgesInv /\ UNCHANGED bitbang => EdgesInv'
  BY DEF bitbang, pins, EdgesInv
<1>2. EdgesInv /\ [BitbangNext]_bitbang => EdgesInv'
  BY <1>1, EdgesStep
<1>3. EdgesInv => NoEdgeMissed
  BY DEF EdgesInv, NoEdgeMissed
<1>4. QED
  BY EdgesInit, <1>2, <1>3, DevicesRun, PTL DEF BitbangSpec

-----------------------------------------------------------------------------
(* The answers of the JTAG side.                                          *)

\* The bytes s are on their way to the bench, and ans on their way back. reads counts the
\* requests for TDO, masks follows the pin writes from m on; the client expects exp.
Follows(reads, masks, s, ans, exp, m, last) ==
    /\ reads \in [0 .. Len(s) -> Nat] /\ masks \in [0 .. Len(s) -> Int]
    /\ reads[0] = 0 /\ masks[0] = m /\ masks[Len(s)] = last
    /\ \A i \in 1 .. Len(s) :
          /\ reads[i] = reads[i - 1] + (IF s[i] = ReadTdo THEN 1 ELSE 0)
          /\ masks[i] = IF IsMask(s[i]) THEN s[i] - 48 ELSE masks[i - 1]
          /\ s[i] = ReadTdo => exp[Len(ans) + reads[i]] = masks[i]
    /\ \A i \in 0 .. Len(s) : \A j \in i .. Len(s) : reads[i] <= reads[j]
    /\ Len(exp) = Len(ans) + reads[Len(s)]
    /\ \A i \in 1 .. Len(ans) : exp[i] = ans[i]

InTransit(s, ans, exp, m, last) ==
    \E reads \in [0 .. Len(s) -> Nat], masks \in [0 .. Len(s) -> Int] :
        Follows(reads, masks, s, ans, exp, m, last)

LEMMA TransitStarts == ASSUME NEW m \in Int PROVE InTransit(<<>>, <<>>, <<>>, m, m)
<1> DEFINE reads == [i \in 0 .. 0 |-> 0]
           masks == [i \in 0 .. 0 |-> m]
<1>1. Len(<<>>) = 0
  OBVIOUS
<1>2. reads \in [0 .. 0 -> Nat] /\ masks \in [0 .. 0 -> Int]
  OBVIOUS
<1>3. Follows(reads, masks, <<>>, <<>>, <<>>, m, m)
  BY <1>1 DEF Follows
<1>4. QED
  BY <1>1, <1>2, <1>3 DEF InTransit

\* The bench takes a byte, and answers if it is a request.
LEMMA TransitTake ==
    ASSUME NEW s \in Seq(Int), NEW ans \in Seq(Int), NEW exp \in Seq(Int), NEW m \in Int, NEW last \in Int,
           InTransit(s, ans, exp, m, last), s # <<>>
    PROVE  LET c == Head(s)
           IN  InTransit(Tail(s), IF c = ReadTdo THEN Append(ans, m) ELSE ans, exp,
                         IF IsMask(c) THEN c - 48 ELSE m, last)
<1> DEFINE c == Head(s)
           t == Tail(s)
           a == IF c = ReadTdo THEN Append(ans, m) ELSE ans
           n == Len(s)
<1>1. PICK r \in [0 .. n -> Nat], k \in [0 .. n -> Int] : Follows(r, k, s, ans, exp, m, last)
  BY DEF InTransit
<1>2. n \in Nat \ {0} /\ Len(t) = n - 1 /\ c = s[1] /\ \A i \in 1 .. n - 1 : t[i] = s[i + 1]
  BY HeadTailProperties, EmptySeq
<1> DEFINE d == IF c = ReadTdo THEN 1 ELSE 0
<1>3. r[1] = d /\ k[1] = IF IsMask(c) THEN c - 48 ELSE m
  BY <1>1, <1>2 DEF Follows
<1>4. Len(a) = Len(ans) + d /\ \A i \in 1 .. Len(ans) : a[i] = ans[i]
  BY AppendProperties, LenProperties
<1>5. c = ReadTdo => a[Len(ans) + 1] = m /\ k[1] = m /\ exp[Len(ans) + 1] = k[1]
  <2>1. ReadTdo = 82 /\ ~IsMask(82)
    BY DEF ReadTdo, IsMask
  <2>2. 1 \in 1 .. n /\ Len(ans) \in Nat
    BY <1>2, LenProperties
  <2>3. c = ReadTdo => a[Len(ans) + 1] = m
    BY AppendProperties
  <2>4. c = ReadTdo => exp[Len(ans) + r[1]] = k[1]
    BY <1>1, <1>2, <2>2 DEF Follows
  <2>5. c = ReadTdo => r[1] = 1 /\ k[1] = m
    BY <1>3, <2>1
  <2>6. QED
    BY <2>3, <2>4, <2>5
<1> DEFINE r2 == [i \in 0 .. n - 1 |-> r[i + 1] - d]
           k2 == [i \in 0 .. n - 1 |-> k[i + 1]]
<1>6. \A i \in 1 .. n : r[i] \in Nat /\ r[i] - d \in Nat
  <2>1. \A i \in 1 .. n : 1 \in 0 .. n /\ i \in 1 .. n /\ i \in 0 .. n
    BY <1>2
  <2>2. \A i \in 0 .. n : \A j \in i .. n : r[i] <= r[j]
    BY <1>1 DEF Follows
  <2>3. \A i \in 1 .. n : r[1] <= r[i] /\ r[i] \in Nat
    BY <2>1, <2>2
  <2>4. d \in Nat
    OBVIOUS
  <2> HIDE DEF d
  <2>5. QED
    BY <1>3, <2>3, <2>4
<1>7. r2 \in [0 .. n - 1 -> Nat] /\ k2 \in [0 .. n - 1 -> Int]
  <2>1. \A i \in 0 .. n - 1 : i + 1 \in 1 .. n /\ i + 1 \in 0 .. n
    BY <1>2
  <2>2. \A i \in 0 .. n - 1 : r[i + 1] - d \in Nat /\ k[i + 1] \in Int
    BY <1>6, <2>1
  <2>3. QED
    BY <2>2
<1>8. /\ \A i \in 0 .. n - 1 : r2[i] = r[i + 1] - d /\ k2[i] = k[i + 1]
  OBVIOUS
<1> HIDE DEF r2, k2, d, a, t, n
<1>9. r2[0] = 0 /\ k2[0] = (IF IsMask(c) THEN c - 48 ELSE m) /\ k2[n - 1] = last
  <2>1. 0 \in 0 .. n - 1 /\ n - 1 \in 0 .. n - 1 /\ 0 + 1 = 1 /\ (n - 1) + 1 = n
    BY <1>2
  <2>2. r2[0] = r[1] - d /\ k2[0] = k[1] /\ k2[n - 1] = k[n]
    BY <1>8, <2>1
  <2>3. d - d = 0 /\ k[n] = last
    BY <1>1 DEF Follows, d, n
  <2>4. QED
    BY <1>3, <2>2, <2>3
<1>10. ASSUME NEW i \in 1 .. n - 1
       PROVE  /\ r2[i] = r2[i - 1] + (IF t[i] = ReadTdo THEN 1 ELSE 0)
              /\ k2[i] = IF IsMask(t[i]) THEN t[i] - 48 ELSE k2[i - 1]
              /\ t[i] = ReadTdo => exp[Len(a) + r2[i]] = k2[i]
  <2>1. i + 1 \in 1 .. n /\ (i + 1) - 1 = i /\ i \in 1 .. n /\ i \in 0 .. n - 1 /\ i - 1 \in 0 .. n - 1 /\ (i - 1) + 1 = i
    BY <1>2
  <2>2. /\ r[i + 1] = r[i] + (IF s[i + 1] = ReadTdo THEN 1 ELSE 0)
        /\ k[i + 1] = IF IsMask(s[i + 1]) THEN s[i + 1] - 48 ELSE k[i]
        /\ s[i + 1] = ReadTdo => exp[Len(ans) + r[i + 1]] = k[i + 1]
    BY <1>1, <2>1 DEF Follows, n
  <2>3. t[i] = s[i + 1] /\ r2[i] = r[i + 1] - d /\ k2[i] = k[i + 1] /\ r2[i - 1] = r[i] - d /\ k2[i - 1] = k[i]
    BY <1>2, <1>8, <2>1
  <2>4. r[i + 1] \in Nat /\ r[i] \in Nat /\ d \in Nat /\ Len(ans) \in Nat
    BY <1>6, <2>1, LenProperties DEF d
  <2>5. Len(a) + r2[i] = Len(ans) + r[i + 1]
    BY <1>4, <2>3, <2>4
  <2>6. r2[i] = r2[i - 1] + (IF t[i] = ReadTdo THEN 1 ELSE 0)
    BY <2>2, <2>3, <2>4
  <2>7. QED
    BY <2>2, <2>3, <2>5, <2>6
<1>11. ASSUME NEW i \in 0 .. n - 1, NEW j \in i .. n - 1 PROVE r2[i] <= r2[j]
  <2>1. i + 1 \in 0 .. n /\ j + 1 \in (i + 1) .. n /\ j \in 0 .. n - 1 /\ i + 1 \in 1 .. n /\ j + 1 \in 1 .. n
    BY <1>2
  <2>2. r[i + 1] <= r[j + 1] /\ r[i + 1] \in Nat /\ r[j + 1] \in Nat /\ d \in Nat
    BY <1>1, <1>6, <2>1 DEF Follows, d, n
  <2>3. QED
    BY <1>8, <2>1, <2>2
<1>12. Len(exp) = Len(a) + r2[n - 1]
  <2>1. n - 1 \in 0 .. n - 1 /\ (n - 1) + 1 = n /\ r[n] \in Nat /\ d \in Nat /\ Len(ans) \in Nat
    BY <1>2, <1>6, LenProperties DEF d
  <2>2. Len(exp) = Len(ans) + r[n] /\ r2[n - 1] = r[n] - d
    BY <1>1, <1>8, <2>1 DEF Follows, n
  <2>3. QED
    BY <1>4, <2>1, <2>2
<1>13. \A i \in 1 .. Len(a) : exp[i] = a[i]
  <2>1. \A i \in 1 .. Len(ans) : exp[i] = a[i]
    BY <1>1, <1>4 DEF Follows
  <2>2. Len(ans) \in Nat
    BY LenProperties
  <2>3. QED
    BY <1>4, <1>5, <2>1, <2>2 DEF d
<1>14. Follows(r2, k2, t, a, exp, IF IsMask(c) THEN c - 48 ELSE m, last)
  BY <1>2, <1>7, <1>9, <1>10, <1>11, <1>12, <1>13 DEF Follows
<1>15. InTransit(t, a, exp, IF IsMask(c) THEN c - 48 ELSE m, last)
  BY <1>2, <1>7, <1>14 DEF InTransit
<1>16. QED
  BY <1>15 DEF t, a

\* The client sends a byte, and expects the pins it has written last if it is a request.
LEMMA TransitSend ==
    ASSUME NEW s \in Seq(Int), NEW ans \in Seq(Int), NEW exp \in Seq(Int), NEW m \in Int, NEW last \in Int,
           InTransit(s, ans, exp, m, last), NEW c \in Int
    PROVE  InTransit(Append(s, c), ans, IF c = ReadTdo THEN Append(exp, last) ELSE exp, m,
                     IF IsMask(c) THEN c - 48 ELSE last)
<1> DEFINE t == Append(s, c)
           e == IF c = ReadTdo THEN Append(exp, last) ELSE exp
           n == Len(s)
           l == IF IsMask(c) THEN c - 48 ELSE last
<1>1. PICK r \in [0 .. n -> Nat], k \in [0 .. n -> Int] : Follows(r, k, s, ans, exp, m, last)
  BY DEF InTransit
<1>2. n \in Nat /\ Len(t) = n + 1 /\ t[n + 1] = c /\ \A i \in 1 .. n : t[i] = s[i]
  BY AppendProperties, LenProperties
<1> DEFINE d == IF c = ReadTdo THEN 1 ELSE 0
<1>3. Len(exp) = Len(ans) + r[n] /\ Len(exp) \in Nat /\ Len(ans) \in Nat /\ l \in Int
      /\ \A i \in 0 .. n : r[i] \in Nat /\ r[i] <= r[n] /\ k[i] \in Int
  <2>1. Len(exp) = Len(ans) + r[n] /\ \A i \in 0 .. n : r[i] <= r[n]
    BY <1>1, <1>2 DEF Follows
  <2>2. Len(exp) \in Nat /\ Len(ans) \in Nat /\ l \in Int
    BY LenProperties
  <2>3. \A i \in 0 .. n : r[i] \in Nat /\ k[i] \in Int
    BY <1>1
  <2> HIDE DEF l, n
  <2>4. QED
    BY <2>1, <2>2, <2>3
<1>4. Len(e) = Len(exp) + d /\ (\A i \in 1 .. Len(exp) : e[i] = exp[i])
      /\ (c = ReadTdo => e[Len(exp) + 1] = last /\ l = last)
  <2>1. ReadTdo = 82 /\ ~IsMask(82)
    BY DEF ReadTdo, IsMask
  <2>2. CASE c = ReadTdo
    <3>1. e = Append(exp, last) /\ l = last
      BY <2>1, <2>2
    <3>2. QED
      BY <2>2, <3>1, AppendProperties
  <2>3. CASE c # ReadTdo
    BY <1>3, <2>3
  <2>4. QED
    BY <2>2, <2>3
<1> DEFINE r2 == [i \in 0 .. n + 1 |-> IF i = n + 1 THEN r[n] + d ELSE r[i]]
           k2 == [i \in 0 .. n + 1 |-> IF i = n + 1 THEN l ELSE k[i]]
<1>5. r2 \in [0 .. n + 1 -> Nat] /\ k2 \in [0 .. n + 1 -> Int]
  <2>1. n \in 0 .. n /\ \A i \in 0 .. n + 1 : i # n + 1 => i \in 0 .. n
    BY <1>2
  <2>2. r[n] + d \in Nat
    <3>1. r[n] \in Nat /\ d \in Nat
      BY <1>3, <2>1
    <3>2. QED
      BY <3>1
  <2>3. \A i \in 0 .. n + 1 : (IF i = n + 1 THEN r[n] + d ELSE r[i]) \in Nat
    BY <1>3, <2>1, <2>2
  <2>4. \A i \in 0 .. n + 1 : (IF i = n + 1 THEN l ELSE k[i]) \in Int
    BY <1>3, <2>1
  <2>5. QED
    BY <2>3, <2>4
<1>6. /\ \A i \in 0 .. n : r2[i] = r[i] /\ k2[i] = k[i]
      /\ r2[n + 1] = r[n] + d /\ k2[n + 1] = l
  BY <1>2
<1>7. d \in 0 .. 1 /\ (d = 1 <=> c = ReadTdo)
  OBVIOUS
<1> HIDE DEF r2, k2, d, e, t, n, l
<1>8. r2[0] = 0 /\ k2[0] = m /\ k2[n + 1] = l
  BY <1>1, <1>2, <1>6 DEF Follows, n
<1>9. ASSUME NEW i \in 1 .. n + 1
      PROVE  /\ r2[i] = r2[i - 1] + (IF t[i] = ReadTdo THEN 1 ELSE 0)
             /\ k2[i] = IF IsMask(t[i]) THEN t[i] - 48 ELSE k2[i - 1]
             /\ t[i] = ReadTdo => e[Len(ans) + r2[i]] = k2[i]
  <2>1. CASE i = n + 1
    <3>1. (n + 1) - 1 = n /\ n \in 0 .. n
      BY <1>2
    <3>2. r2[n] = r[n] /\ k2[n] = k[n] /\ k[n] = last
      BY <1>1, <1>6, <3>1 DEF Follows, n
    <3>3. r[n] \in Nat /\ (c = ReadTdo => Len(ans) + r2[n + 1] = Len(exp) + 1)
      BY <1>3, <1>6, <1>7, <3>1
    <3>4. r2[n + 1] = r2[n] + (IF c = ReadTdo THEN 1 ELSE 0)
      BY <1>6, <1>7, <3>2, <3>3
    <3>5. k2[n + 1] = IF IsMask(c) THEN c - 48 ELSE k2[n]
      BY <1>6, <3>2 DEF l
    <3>6. c = ReadTdo => e[Len(ans) + r2[n + 1]] = k2[n + 1]
      BY <1>4, <1>6, <3>3
    <3>7. QED
      BY <1>2, <2>1, <3>1, <3>4, <3>5, <3>6
  <2>2. CASE i # n + 1
    <3>1. i \in 1 .. n /\ i \in 0 .. n /\ i - 1 \in 0 .. n
      BY <1>2, <2>2
    <3>2. /\ r[i] = r[i - 1] + (IF s[i] = ReadTdo THEN 1 ELSE 0)
          /\ k[i] = IF IsMask(s[i]) THEN s[i] - 48 ELSE k[i - 1]
          /\ s[i] = ReadTdo => exp[Len(ans) + r[i]] = k[i]
      BY <1>1, <3>1 DEF Follows, n
    <3>3. s[i] = ReadTdo => Len(ans) + r[i] \in 1 .. Len(exp)
      <4>1. r[i] \in Nat /\ r[i - 1] \in Nat /\ r[i] <= r[n] /\ r[n] \in Nat
        BY <1>2, <1>3, <3>1
      <4>2. s[i] = ReadTdo => r[i] >= 1
        BY <3>2, <4>1
      <4>3. PICK x \in Nat, y \in Nat, z \in Nat : x = r[i] /\ y = r[n] /\ z = Len(ans)
        BY <1>3, <4>1
      <4>4. x <= y /\ Len(exp) = z + y
        BY <1>3, <4>1, <4>3
      <4>5. ASSUME s[i] = ReadTdo PROVE z + x \in 1 .. z + y
        <5>1. x >= 1
          BY <4>2, <4>3, <4>5
        <5>2. x <= y
          BY <4>4
        <5>3. QED
          BY <4>3, <5>1, <5>2
      <4>6. QED
        BY <4>3, <4>4, <4>5
    <3>4. s[i] = ReadTdo => e[Len(ans) + r[i]] = k[i]
      BY <1>4, <3>2, <3>3
    <3>5. QED
      BY <1>2, <1>6, <3>1, <3>2, <3>4
  <2>3. QED
    BY <2>1, <2>2
<1>10. ASSUME NEW i \in 0 .. n + 1, NEW j \in i .. n + 1 PROVE r2[i] <= r2[j]
  <2>1. CASE j = n + 1 /\ i = n + 1
    BY <1>2, <1>5, <2>1
  <2>2. CASE j = n + 1 /\ i # n + 1
    <3>1. i \in 0 .. n /\ n \in 0 .. n
      BY <1>2, <2>2
    <3>2. r[i] <= r[n] /\ r[i] \in Nat /\ r[n] \in Nat
      BY <1>3, <3>1
    <3>3. r2[i] = r[i] /\ r2[j] = r[n] + d
      BY <1>6, <2>2, <3>1
    <3>4. QED
      BY <1>7, <3>2, <3>3
  <2>3. CASE j # n + 1
    <3>1. i \in 0 .. n /\ j \in i .. n /\ j \in 0 .. n
      BY <1>2, <2>3
    <3>2. r[i] <= r[j]
      BY <1>1, <3>1 DEF Follows, n
    <3>3. QED
      BY <1>6, <3>1, <3>2
  <2>4. QED
    BY <2>1, <2>2, <2>3
<1>11. Len(e) = Len(ans) + r2[n + 1]
  <2>1. n \in 0 .. n
    BY <1>2
  <2>2. QED
    BY <1>3, <1>4, <1>6, <1>7, <2>1
<1>12. \A i \in 1 .. Len(ans) : e[i] = ans[i]
  <2>1. n \in 0 .. n
    BY <1>2
  <2>2. \A i \in 1 .. Len(ans) : i \in 1 .. Len(exp)
    BY <1>3, <2>1
  <2>3. \A i \in 1 .. Len(ans) : exp[i] = ans[i]
    BY <1>1 DEF Follows
  <2>4. QED
    BY <1>4, <2>2, <2>3
<1>13. Follows(r2, k2, t, ans, e, m, l)
  BY <1>2, <1>5, <1>8, <1>9, <1>10, <1>11, <1>12 DEF Follows
<1>14. InTransit(t, ans, e, m, l)
  BY <1>2, <1>5, <1>13 DEF InTransit
<1>15. QED
  BY <1>14 DEF t, e, l

\* The client is given an answer.
LEMMA TransitReceive ==
    ASSUME NEW s \in Seq(Int), NEW ans \in Seq(Int), NEW exp \in Seq(Int), NEW m \in Int, NEW last \in Int,
           InTransit(s, ans, exp, m, last), ans # <<>>
    PROVE  InTransit(s, Tail(ans), SubSeq(exp, 2, Len(exp)), m, last)
<1> DEFINE n == Len(s)
           a == Tail(ans)
           e == SubSeq(exp, 2, Len(exp))
<1>1. PICK r \in [0 .. n -> Nat], k \in [0 .. n -> Int] : Follows(r, k, s, ans, exp, m, last)
  BY DEF InTransit
<1>2. /\ Len(ans) \in Nat \ {0} /\ Len(a) = Len(ans) - 1 /\ n \in Nat /\ Len(exp) \in Nat
      /\ \A i \in 1 .. Len(ans) - 1 : a[i] = ans[i + 1]
  BY HeadTailProperties, EmptySeq, LenProperties
<1>3. Len(exp) = Len(ans) + r[n] /\ r[n] \in Nat /\ \A i \in 0 .. n : r[i] \in Nat /\ r[i] <= r[n]
  <2>1. Len(exp) = Len(ans) + r[n] /\ \A i \in 0 .. n : r[i] <= r[n]
    BY <1>1, <1>2 DEF Follows
  <2>2. n \in 0 .. n
    BY <1>2
  <2>3. \A i \in 0 .. n : r[i] \in Nat
    BY <1>1
  <2> HIDE DEF n
  <2>4. QED
    BY <2>1, <2>2, <2>3
<1>4. Len(e) = Len(exp) - 1 /\ \A i \in 1 .. Len(exp) - 1 : e[i] = exp[i + 1]
  BY <1>2, <1>3
<1> HIDE DEF a, e, n
<1>5. ASSUME NEW i \in 1 .. n, s[i] = ReadTdo PROVE e[Len(a) + r[i]] = k[i]
  <2>1. /\ r[i] = r[i - 1] + 1 /\ exp[Len(ans) + r[i]] = k[i]
    BY <1>1, <1>5 DEF Follows, n
  <2>2. i \in 0 .. n /\ i - 1 \in 0 .. n
    BY <1>2
  <2>3. r[i] \in Nat \ {0} /\ r[i] <= r[n]
    <3>1. r[i] \in Nat /\ r[i - 1] \in Nat /\ r[i] <= r[n]
      BY <1>3, <2>2
    <3>2. QED
      BY <2>1, <3>1
  <2>4. Len(a) + r[i] \in 1 .. Len(exp) - 1 /\ (Len(a) + r[i]) + 1 = Len(ans) + r[i]
    <3>1. PICK x \in Nat, y \in Nat, z \in Nat \ {0} : x = r[i] /\ y = r[n] /\ z = Len(ans)
      BY <1>2, <1>3, <2>3
    <3>2. Len(a) = z - 1 /\ Len(exp) = z + y /\ x <= y /\ x >= 1
      BY <1>2, <1>3, <2>3, <3>1
    <3>3. (z - 1) + x \in 1 .. (z + y) - 1 /\ ((z - 1) + x) + 1 = z + x
      <4>1. x <= y /\ x >= 1
        BY <3>2
      <4>2. QED
        BY <4>1
    <3>4. QED
      BY <3>1, <3>2, <3>3
  <2>5. PICK x \in 1 .. Len(exp) - 1 : x = Len(a) + r[i]
    BY <2>4
  <2>6. e[x] = exp[x + 1]
    BY <1>4
  <2>7. QED
    BY <2>1, <2>4, <2>5, <2>6
<1>6. \A i \in 1 .. Len(a) : e[i] = a[i]
  <2>1. \A i \in 1 .. Len(ans) : exp[i] = ans[i]
    BY <1>1 DEF Follows
  <2>2. \A i \in 1 .. Len(a) : i \in 1 .. Len(exp) - 1 /\ i + 1 \in 1 .. Len(ans) /\ i \in 1 .. Len(ans) - 1
    BY <1>2, <1>3
  <2>3. QED
    BY <1>2, <1>4, <2>1, <2>2
<1>7. Len(e) = Len(a) + r[n]
  BY <1>2, <1>3, <1>4
<1>8. Follows(r, k, s, a, e, m, last)
  BY <1>1, <1>5, <1>6, <1>7 DEF Follows, n
<1>9. QED
  BY <1>1, <1>8 DEF InTransit, n, a, e

\* The answers on their way are the next ones.
LEMMA TransitAnswers ==
    ASSUME NEW s \in Seq(Int), NEW ans \in Seq(Int), NEW exp \in Seq(Int), NEW m, NEW last,
           InTransit(s, ans, exp, m, last)
    PROVE  IsPrefix(ans, exp)
<1>1. Len(ans) <= Len(exp) /\ \A i \in 1 .. Len(ans) : exp[i] = ans[i]
  <2>1. PICK r \in [0 .. Len(s) -> Nat], k \in [0 .. Len(s) -> Int] : Follows(r, k, s, ans, exp, m, last)
    BY DEF InTransit
  <2>2. Len(s) \in Nat /\ Len(ans) \in Nat
    BY LenProperties
  <2>3. r[Len(s)] \in Nat /\ Len(exp) = Len(ans) + r[Len(s)]
    BY <2>1, <2>2 DEF Follows
  <2>4. \A i \in 1 .. Len(ans) : exp[i] = ans[i]
    BY <2>1 DEF Follows
  <2>5. QED
    BY <2>2, <2>3, <2>4
<1>2. Len(ans) \in Nat /\ Len(exp) \in Nat
  BY LenProperties
<1>3. SubSeq(ans, 1, Len(ans)) = SubSeq(exp, 1, Len(ans))
  BY <1>1, <1>2
<1>4. QED
  BY <1>1, <1>3 DEF IsPrefix

\* Bytes move from the head of one buffer to the end of another.
LEMMA TakenFromBuffer ==
    ASSUME NEW q \in Seq(Int), NEW t \in Seq(Int), q # <<>>
    PROVE  q \o t \in Seq(Int) /\ q \o t # <<>> /\ Head(q \o t) = Head(q) /\ Tail(q \o t) = Tail(q) \o t
<1>1. /\ q \o t \in Seq(Int) /\ Len(q \o t) = Len(q) + Len(t)
      /\ \A i \in 1 .. Len(q) + Len(t) : (q \o t)[i] = IF i <= Len(q) THEN q[i] ELSE t[i - Len(q)]
  BY ConcatProperties
<1>2. Len(q) \in Nat \ {0} /\ Len(t) \in Nat
  BY EmptySeq, LenProperties
<1>3. q \o t # <<>>
  BY <1>1, <1>2
<1>4. Head(q \o t) = (q \o t)[1] /\ Head(q) = q[1]
  OBVIOUS
<1>5. Head(q \o t) = Head(q)
  BY <1>1, <1>2, <1>4
<1>6. /\ Tail(q) \in Seq(Int) /\ Len(Tail(q)) = Len(q) - 1
      /\ \A i \in 1 .. Len(q) - 1 : Tail(q)[i] = q[i + 1]
  BY HeadTailProperties
<1>7. /\ Tail(q \o t) \in Seq(Int) /\ Len(Tail(q \o t)) = Len(q \o t) - 1
      /\ \A i \in 1 .. Len(q \o t) - 1 : Tail(q \o t)[i] = (q \o t)[i + 1]
  BY <1>1, <1>3, HeadTailProperties
<1>8. /\ Tail(q) \o t \in Seq(Int) /\ Len(Tail(q) \o t) = (Len(q) - 1) + Len(t)
      /\ \A i \in 1 .. (Len(q) - 1) + Len(t) :
            (Tail(q) \o t)[i] = IF i <= Len(q) - 1 THEN Tail(q)[i] ELSE t[i - (Len(q) - 1)]
  BY <1>6, ConcatProperties
<1>9. Len(Tail(q \o t)) = Len(Tail(q) \o t)
  BY <1>1, <1>2, <1>7, <1>8
<1>10. ASSUME NEW i \in 1 .. Len(Tail(q \o t)) PROVE Tail(q \o t)[i] = (Tail(q) \o t)[i]
  <2>1. i \in 1 .. (Len(q) + Len(t)) - 1 /\ i + 1 \in 1 .. Len(q) + Len(t)
    BY <1>1, <1>2, <1>7
  <2>2. Tail(q \o t)[i] = (q \o t)[i + 1]
    BY <1>1, <1>7, <2>1
  <2>3. CASE i <= Len(q) - 1
    <3>1. i + 1 <= Len(q) /\ i \in 1 .. Len(q) - 1 /\ i \in 1 .. (Len(q) - 1) + Len(t)
      BY <1>2, <2>1, <2>3
    <3>2. QED
      BY <1>1, <1>6, <1>8, <2>1, <2>2, <2>3, <3>1
  <2>4. CASE ~(i <= Len(q) - 1)
    <3>1. ~(i + 1 <= Len(q)) /\ i \in 1 .. (Len(q) - 1) + Len(t) /\ (i + 1) - Len(q) = i - (Len(q) - 1)
      BY <1>2, <2>1, <2>4
    <3>2. QED
      BY <1>1, <1>8, <2>1, <2>2, <2>4, <3>1
  <2>5. QED
    BY <2>3, <2>4
<1>11. Tail(q \o t) = Tail(q) \o t
  BY <1>7, <1>8, <1>9, <1>10, SeqEqual
<1>12. QED
  BY <1>1, <1>3, <1>5, <1>11

LEMMA AddedToBuffer ==
    ASSUME NEW q \in Seq(Int), NEW t \in Seq(Int), NEW c \in Int
    PROVE  q \o Append(t, c) = Append(q \o t, c) /\ Append(t, c) \in Seq(Int)
<1>1. Append(t, c) = t \o <<c>> /\ <<c>> \in Seq(Int)
  BY AppendIsConcat
<1>2. q \o t \in Seq(Int)
  BY ConcatProperties
<1>3. Append(q \o t, c) = (q \o t) \o <<c>>
  BY <1>2, AppendIsConcat
<1>4. QED
  BY <1>1, <1>3, ConcatAssociative, AppendProperties

LEMMA Refilled ==
    ASSUME NEW t \in Seq(Int), NEW n \in 0 .. Len(t)
    PROVE  /\ SubSeq(t, 1, n) \o SubSeq(t, n + 1, Len(t)) = t
           /\ SubSeq(t, 1, n) \in Seq(Int) /\ SubSeq(t, n + 1, Len(t)) \in Seq(Int)
           /\ n = 0 => SubSeq(t, 1, n) = <<>>
<1>1. Len(t) \in Nat
  BY LenProperties
<1>2. 1 \in 1 .. Len(t) + 1 /\ n \in 1 - 1 .. Len(t) /\ Len(t) \in n .. Len(t)
  BY <1>1
<1>3. SubSeq(t, 1, n) \o SubSeq(t, n + 1, Len(t)) = SubSeq(t, 1, Len(t))
  BY <1>2, ConcatAdjacentSubSeq
<1>4. SubSeq(t, 1, Len(t)) = t
  BY SubSeqFull
<1>5. SubSeq(t, 1, n) \in Seq(Int) /\ SubSeq(t, n + 1, Len(t)) \in Seq(Int)
  BY <1>1
<1>6. n = 0 => SubSeq(t, 1, n) = <<>>
  BY SubSeqEmpty
<1>7. QED
  BY <1>3, <1>4, <1>5, <1>6

-----------------------------------------------------------------------------
AnswerTypes ==
    /\ mask \in Int /\ tdo_mask \in Int /\ last_mask \in Int
    /\ rxbuf \in Seq(Int) /\ to_bench \in Seq(Int)
    /\ replies \in Seq(Int) /\ txbuf \in Seq(Int) /\ expect \in Seq(Int)

\* TDO answers the pins as they are whenever a command can be taken.
TdoFollows == pc \in {"jtag", "bytes", "accept"} => tdo_mask = mask

\* Nothing of a client is left for the next one.
NothingLeft ==
    /\ pc \in {"start", "accept"} => rxbuf = <<>> /\ txbuf = <<>> /\ conn # "open"
    /\ bench = "verilator" /\ pc \in {"clock", "jtag"} => txbuf = <<>>
    /\ conn # "open" => replies = <<>> /\ expect = <<>>

OnTheWay ==
    conn = "open" => InTransit(rxbuf \o to_bench, replies \o txbuf, expect, mask, last_mask)

AnswersInv == AnswerTypes /\ TdoFollows /\ NothingLeft /\ OnTheWay

LEMMA AnswersInit == BitbangInit => AnswersInv
<1> SUFFICES ASSUME BitbangInit PROVE AnswersInv
  OBVIOUS
<1>1. to_bench \in Seq(Int)
  <2>1. CASE source = "replay"
    <3>1. to_bench \in UNION {[1 .. n -> FileBytes] : n \in 0 .. SocketSize}
      BY <2>1 DEF BitbangInit, BoundedSeq, SeqOf
    <3>2. PICK n \in 0 .. SocketSize : to_bench \in [1 .. n -> FileBytes]
      BY <3>1
    <3>3. n \in Nat /\ FileBytes \subseteq Int
      BY BitbangAssumption
    <3>4. to_bench \in [1 .. n -> Int]
      BY <3>2, <3>3
    <3>5. QED
      BY <3>3, <3>4
  <2>2. CASE source # "replay"
    BY <2>2 DEF BitbangInit
  <2>3. QED
    BY <2>1, <2>2
<1>2. QED
  BY <1>1 DEF BitbangInit, AnswersInv, AnswerTypes, TdoFollows, NothingLeft, OnTheWay, FirstPc

\* What is sent, or kept to be sent.
LEMMA AnswerSent ==
    ASSUME AnswersInv, NEW tx \in Seq(Int), Flush(tx) \/ Keep(tx)
    PROVE  /\ replies' \in Seq(Int) /\ txbuf' \in Seq(Int)
           /\ conn' = "open" <=> conn = "open"
           /\ conn = "open" => replies' \o txbuf' = replies \o tx
           /\ conn # "open" => replies' = replies
           /\ tx = <<>> => txbuf' = <<>>
<1>1. replies \in Seq(Int) /\ txbuf \in Seq(Int) /\ <<>> \in Seq(Int)
  BY EmptySeq DEF AnswersInv, AnswerTypes
<1>2. replies \o tx \in Seq(Int)
  BY <1>1, ConcatProperties
<1>3. (replies \o tx) \o <<>> = replies \o tx
  BY <1>2, ConcatEmptySeq
<1>4. CASE Keep(tx)
  BY <1>1, <1>4 DEF Keep
<1>5. CASE Flush(tx)
  BY <1>1, <1>2, <1>3, <1>5 DEF Flush
<1>6. QED
  BY <1>4, <1>5

\* A byte is taken from the buffer.
LEMMA Taken ==
    ASSUME AnswersInv, NEW c, TakeByte(c),
           LET tx == IF c = ReadTdo THEN Append(txbuf, mask) ELSE txbuf IN Flush(tx) \/ Keep(tx),
           mask' = (IF IsMask(c) THEN c - 48 ELSE mask), tdo_mask' \in {tdo_mask, mask'}
    PROVE  /\ AnswerTypes' /\ OnTheWay'
           /\ conn' # "open" <=> conn # "open"
           /\ conn' # "open" => replies' = <<>> /\ expect' = <<>>
<1> DEFINE tx == IF c = ReadTdo THEN Append(txbuf, mask) ELSE txbuf
<1>1. /\ rxbuf \in Seq(Int) /\ to_bench \in Seq(Int) /\ replies \in Seq(Int) /\ txbuf \in Seq(Int)
      /\ expect \in Seq(Int) /\ mask \in Int /\ last_mask \in Int /\ tdo_mask \in Int
  BY DEF AnswersInv, AnswerTypes
<1>2. /\ rxbuf # <<>> /\ c = Head(rxbuf) /\ rxbuf' = Tail(rxbuf)
      /\ UNCHANGED <<to_bench, last_mask, expect>>
  BY DEF TakeByte, client
<1>3. c \in Int /\ rxbuf' \in Seq(Int) /\ mask' \in Int /\ tdo_mask' \in Int
  <2>1. c \in Int /\ rxbuf' \in Seq(Int)
    BY <1>1, <1>2, HeadTailProperties
  <2>2. QED
    BY <1>1, <2>1
<1>4. tx \in Seq(Int)
  BY <1>1, AppendProperties
<1>5. /\ replies' \in Seq(Int) /\ txbuf' \in Seq(Int)
      /\ conn' = "open" <=> conn = "open"
      /\ conn = "open" => replies' \o txbuf' = replies \o tx
      /\ conn # "open" => replies' = replies
  BY <1>4, AnswerSent
<1>6. ASSUME conn = "open"
      PROVE  InTransit(rxbuf' \o to_bench', replies' \o txbuf', expect', mask', last_mask')
  <2>1. PICK s \in Seq(Int), ans \in Seq(Int) : s = rxbuf \o to_bench /\ ans = replies \o txbuf
    BY <1>1, ConcatProperties
  <2>2. InTransit(s, ans, expect, mask, last_mask)
    BY <1>6, <2>1 DEF AnswersInv, OnTheWay
  <2>3. s # <<>> /\ Head(s) = c /\ Tail(s) = rxbuf' \o to_bench'
    BY <1>1, <1>2, <2>1, TakenFromBuffer
  <2>4. InTransit(Tail(s), IF c = ReadTdo THEN Append(ans, mask) ELSE ans, expect,
                  IF IsMask(c) THEN c - 48 ELSE mask, last_mask)
    BY <1>1, <2>2, <2>3, TransitTake
  <2>5. (IF c = ReadTdo THEN Append(ans, mask) ELSE ans) = replies' \o txbuf'
    <3>1. replies \o Append(txbuf, mask) = Append(ans, mask)
      <4>1. replies \o Append(txbuf, mask) = Append(replies \o txbuf, mask)
        BY <1>1, AddedToBuffer
      <4>2. QED
        BY <2>1, <4>1
    <3>2. QED
      BY <1>5, <1>6, <2>1, <3>1
  <2>6. QED
    BY <1>2, <2>3, <2>4, <2>5
<1>7. OnTheWay'
  BY <1>5, <1>6 DEF OnTheWay
<1>8. AnswerTypes'
  BY <1>1, <1>2, <1>3, <1>5 DEF AnswerTypes
<1>9. /\ conn' # "open" <=> conn # "open"
      /\ conn' # "open" => replies' = <<>> /\ expect' = <<>>
  BY <1>2, <1>5 DEF AnswersInv, NothingLeft
<1>10. QED
  BY <1>7, <1>8, <1>9

\* A step of the bench that takes no byte.
LEMMA NotTaken ==
    ASSUME AnswersInv, Flush(txbuf) \/ Keep(txbuf), rxbuf' \o to_bench' = rxbuf \o to_bench,
           rxbuf' \in Seq(Int), to_bench' \in Seq(Int),
           UNCHANGED <<mask, last_mask, expect>>, tdo_mask' \in {tdo_mask, mask}
    PROVE  /\ AnswerTypes' /\ OnTheWay'
           /\ conn' # "open" <=> conn # "open"
           /\ conn' # "open" => replies' = <<>> /\ expect' = <<>>
<1>1. txbuf \in Seq(Int) /\ AnswerTypes /\ NothingLeft /\ OnTheWay
  BY DEF AnswersInv, AnswerTypes
<1>2. /\ replies' \in Seq(Int) /\ txbuf' \in Seq(Int)
      /\ conn' = "open" <=> conn = "open"
      /\ conn = "open" => replies' \o txbuf' = replies \o txbuf
      /\ conn # "open" => replies' = replies
  BY <1>1, AnswerSent
<1>3. AnswerTypes'
  BY <1>1, <1>2 DEF AnswerTypes
<1>4. OnTheWay'
  BY <1>1, <1>2 DEF OnTheWay
<1>5. QED
  BY <1>1, <1>2, <1>3, <1>4 DEF NothingLeft

LEMMA RefillStep == AnswersInv /\ (CxxrtlRefill \/ VerilatorRefill) => AnswersInv'
<1> SUFFICES ASSUME AnswersInv, CxxrtlRefill \/ VerilatorRefill PROVE AnswersInv'
  OBVIOUS
<1> DEFINE n == IF Len(to_bench) < RxSize THEN Len(to_bench) ELSE RxSize
<1>1. AnswerTypes /\ TdoFollows /\ NothingLeft /\ to_bench \in Seq(Int) /\ txbuf \in Seq(Int)
  BY DEF AnswersInv, AnswerTypes
<1>2. n \in 0 .. Len(to_bench)
  <2>1. Len(to_bench) \in Nat /\ RxSize \in Nat
    BY <1>1, LenProperties, BitbangAssumption
  <2>2. QED
    BY <2>1
<1>3. /\ rxbuf = <<>> /\ pc = "jtag"
      /\ rxbuf' = SubSeq(to_bench, 1, n) /\ to_bench' = SubSeq(to_bench, n + 1, Len(to_bench))
      /\ UNCHANGED <<bench, mask, tdo_mask, last_mask, expect>>
  BY DEF CxxrtlRefill, VerilatorRefill, pins, client
<1> HIDE DEF n
<1>4. /\ rxbuf' \o to_bench' = rxbuf \o to_bench /\ rxbuf' \in Seq(Int) /\ to_bench' \in Seq(Int)
      /\ n = 0 => rxbuf' = <<>>
  <2>1. <<>> \o to_bench = to_bench
    BY <1>1, ConcatEmptySeq
  <2>2. QED
    BY <1>1, <1>2, <1>3, <2>1, Refilled
<1>5. CASE CxxrtlRefill
  <2>1. Flush(txbuf) /\ txbuf' = <<>> /\ bench = "cxxrtl"
    BY <1>5 DEF CxxrtlRefill, AtRefill, Flush
  <2>2. /\ AnswerTypes' /\ OnTheWay'
        /\ conn' # "open" <=> conn # "open"
        /\ conn' # "open" => replies' = <<>> /\ expect' = <<>>
    BY <1>3, <1>4, <2>1, NotTaken
  <2>3. TdoFollows'
    BY <1>1, <1>3 DEF TdoFollows
  <2>4. pc' \in {"jtag", "clock", "exit", "killed"} \/ (pc' = "accept" /\ n = 0 /\ conn # "open")
    BY <1>2, <1>5 DEF CxxrtlRefill, Continue, EndCycle, n
  <2>5. NothingLeft'
    BY <1>3, <1>4, <2>1, <2>2, <2>4 DEF NothingLeft
  <2>6. QED
    BY <2>2, <2>3, <2>5 DEF AnswersInv
<1>6. CASE VerilatorRefill
  <2>1. /\ bench = "verilator" /\ UNCHANGED <<replies, txbuf>>
        /\ conn' = IF n = 0 /\ conn = "reset" THEN "broken" ELSE conn
    BY <1>6 DEF VerilatorRefill, n
  <2>2. txbuf = <<>>
    BY <1>1, <1>3, <2>1 DEF NothingLeft
  <2>3. AnswerTypes'
    BY <1>1, <1>3, <1>4, <2>1 DEF AnswerTypes
  <2>4. OnTheWay'
    BY <1>3, <1>4, <2>1 DEF AnswersInv, OnTheWay
  <2>5. TdoFollows'
    BY <1>1, <1>3 DEF TdoFollows
  <2>6. pc' \in {"bytes", "clock", "exit", "killed"} \/ (pc' = "accept" /\ n = 0 /\ conn # "open")
    BY <1>2, <1>6 DEF VerilatorRefill, Continue, EndCycle, n
  <2>7. NothingLeft'
    BY <1>1, <1>3, <1>4, <2>1, <2>2, <2>6 DEF NothingLeft
  <2>8. QED
    BY <2>3, <2>4, <2>5, <2>7 DEF AnswersInv
<1>7. QED
  BY <1>5, <1>6

LEMMA CommandStep ==
    ASSUME AnswersInv, NEW c, PinWrite(c) \/ SampleTdo(c) \/ Quit(c) \/ Ignore(c)
    PROVE  AnswersInv'
<1>1. /\ TakeByte(c) /\ pc \in {"jtag", "bytes"} /\ UNCHANGED bench /\ tdo_mask = mask
      /\ AnswerTypes /\ TdoFollows /\ NothingLeft
  BY DEF PinWrite, SampleTdo, Quit, Ignore, TakeByte, AnswersInv, TdoFollows
<1>2. ReadTdo = 82 /\ ~IsMask(82) /\ QuitCommand = 81 /\ ~IsMask(81) /\ ~IsPinWrite(82)
  BY DEF ReadTdo, QuitCommand, IsMask, IsPinWrite, TrstHigh, TrstLow
<1>3. /\ LET tx == IF c = ReadTdo THEN Append(txbuf, mask) ELSE txbuf IN Flush(tx) \/ Keep(tx)
      /\ mask' = (IF IsMask(c) THEN c - 48 ELSE mask) /\ tdo_mask' \in {tdo_mask, mask'}
  <2>1. CASE PinWrite(c)
    BY <1>2, <2>1 DEF PinWrite
  <2>2. CASE SampleTdo(c)
    BY <1>1, <1>2, <2>2 DEF SampleTdo, pins
  <2>3. CASE Quit(c)
    <3>1. c = 81 /\ ~IsMask(c) /\ c # ReadTdo
      BY <1>2, <2>3 DEF Quit
    <3>2. (Flush(txbuf) \/ Keep(txbuf)) /\ mask' = mask /\ tdo_mask' = tdo_mask
      BY <2>3 DEF Quit, pins
    <3>3. QED
      BY <3>1, <3>2
  <2>4. CASE Ignore(c)
    BY <1>1, <1>2, <2>4 DEF Ignore, pins, IsPinWrite
  <2>5. QED
    BY <2>1, <2>2, <2>3, <2>4
<1>4. AnswerTypes' /\ OnTheWay' /\ (conn' # "open" => replies' = <<>> /\ expect' = <<>>)
  BY <1>1, <1>3, Taken
<1>5. /\ pc' \in {Bytes, "clock", "exit", "killed"}
      /\ pc' = Bytes => tdo_mask' = mask'
      /\ bench = "verilator" => pc' = "bytes" \/ txbuf' = <<>>
  <2>1. CASE PinWrite(c)
    <3>1. EndsCycle(c) => pc' \in {"clock", "exit", "killed"}
      BY <2>1 DEF PinWrite, EndCycle
    <3>2. ~EndsCycle(c) => pc' \in {Bytes, "killed"} /\ ~IsMask(c)
      BY <2>1 DEF PinWrite, Continue, EndsCycle
    <3>3. ~EndsCycle(c) => mask' = mask /\ tdo_mask' = mask
      BY <1>1, <1>3, <3>2
    <3>4. bench = "verilator" => txbuf' = <<>>
      BY <2>1 DEF PinWrite, Flush
    <3>5. Bytes \in {"bytes", "jtag"}
      BY DEF Bytes
    <3>6. QED
      BY <3>1, <3>2, <3>3, <3>4, <3>5
  <2>2. CASE SampleTdo(c)
    <3>1. pc' \in {Bytes, "killed"} /\ tdo_mask' = mask' /\ mask' = mask
      BY <1>1, <2>2 DEF SampleTdo, Continue, pins
    <3>2. bench = "verilator" => pc' = "bytes" \/ txbuf' = <<>>
      BY <2>2 DEF SampleTdo, Continue, Keep, Flush, Dies, Bytes
    <3>3. QED
      BY <3>1, <3>2
  <2>3. CASE Quit(c)
    <3>1. pc' \in {"clock", "exit", "killed"} /\ (bench = "verilator" => txbuf' = <<>>)
      BY <2>3 DEF Quit, EndCycle, Flush
    <3>2. tdo_mask' = mask'
      BY <1>1, <2>3 DEF Quit, pins
    <3>3. QED
      BY <3>1, <3>2
  <2>4. CASE Ignore(c)
    <3>1. pc' \in {Bytes, "killed"} /\ tdo_mask' = mask' /\ (pc' = Bytes \/ txbuf' = <<>>)
      BY <1>1, <2>4 DEF Ignore, Continue, Dies, pins
    <3>2. bench = "verilator" => Bytes = "bytes"
      BY DEF Bytes
    <3>3. QED
      BY <3>1, <3>2
  <2>5. QED
    BY <2>1, <2>2, <2>3, <2>4
<1>6. Bytes \in {"bytes", "jtag"} /\ (bench = "verilator" => Bytes = "bytes")
  BY DEF Bytes
<1>7. TdoFollows'
  BY <1>5, <1>6 DEF TdoFollows
<1>8. NothingLeft'
  BY <1>1, <1>4, <1>5, <1>6 DEF NothingLeft
<1>9. QED
  BY <1>4, <1>7, <1>8 DEF AnswersInv

LEMMA ClientStepInv == AnswersInv /\ ClientStep => AnswersInv'
<1> SUFFICES ASSUME AnswersInv, ClientStep PROVE AnswersInv'
  OBVIOUS
<1>1. /\ rxbuf \in Seq(Int) /\ to_bench \in Seq(Int) /\ replies \in Seq(Int) /\ txbuf \in Seq(Int)
      /\ expect \in Seq(Int) /\ mask \in Int /\ last_mask \in Int /\ tdo_mask \in Int
      /\ TdoFollows /\ NothingLeft /\ OnTheWay /\ AnswerTypes
  BY DEF AnswersInv, AnswerTypes
<1>2. /\ conn = "open" /\ UNCHANGED <<bench, pc, rxbuf, txbuf, mask, tdo_mask>>
      /\ pc \notin {"start", "accept"}
  BY <1>1 DEF ClientStep, ClientSend, ClientReceive, ClientClose, NothingLeft, pins
<1>3. TdoFollows'
  BY <1>1, <1>2 DEF TdoFollows
<1>4. PICK s \in Seq(Int), ans \in Seq(Int) : s = rxbuf \o to_bench /\ ans = replies \o txbuf
  BY <1>1, ConcatProperties
<1>5. InTransit(s, ans, expect, mask, last_mask)
  BY <1>1, <1>2, <1>4 DEF OnTheWay
<1>6. ASSUME NEW c \in ClientBytes, ClientSend(c) PROVE AnswersInv'
  <2>1. /\ to_bench' = Append(to_bench, c) /\ conn' = conn /\ replies' = replies
        /\ expect' = IF c = ReadTdo THEN Append(expect, last_mask) ELSE expect
        /\ last_mask' = IF IsMask(c) THEN c - 48 ELSE last_mask
    BY <1>6 DEF ClientSend
  <2>2. c \in Int
    <3>1. c \in 0 .. 255
      BY BitbangAssumption
    <3>2. QED
      BY <3>1
  <2>3. to_bench' \in Seq(Int) /\ expect' \in Seq(Int) /\ last_mask' \in Int
    BY <1>1, <2>1, <2>2, AppendProperties
  <2>4. rxbuf' \o to_bench' = Append(s, c)
    BY <1>1, <1>2, <1>4, <2>1, <2>2, AddedToBuffer
  <2>5. InTransit(Append(s, c), ans, expect', mask, last_mask')
    BY <1>1, <1>4, <1>5, <2>1, <2>2, TransitSend
  <2>6. InTransit(rxbuf' \o to_bench', replies' \o txbuf', expect', mask', last_mask')
    BY <1>2, <1>4, <2>1, <2>4, <2>5
  <2>7. OnTheWay' /\ AnswerTypes'
    BY <1>1, <1>2, <2>1, <2>3, <2>6 DEF OnTheWay, AnswerTypes
  <2>8. NothingLeft'
    BY <1>1, <1>2, <2>1 DEF NothingLeft
  <2>9. QED
    BY <1>3, <2>7, <2>8 DEF AnswersInv
<1>7. CASE ClientReceive
  <2>1. /\ replies # <<>> /\ conn' = conn /\ UNCHANGED <<to_bench, last_mask>>
        /\ replies' = Tail(replies) /\ expect' = SubSeq(expect, 2, Len(expect))
    BY <1>7 DEF ClientReceive
  <2>2. replies' \in Seq(Int) /\ expect' \in Seq(Int)
    <3>1. Len(expect) \in Nat
      BY <1>1, LenProperties
    <3>2. SubSeq(expect, 2, Len(expect)) \in Seq(Int)
      BY <1>1, <3>1
    <3>3. QED
      BY <1>1, <2>1, <3>2, HeadTailProperties
  <2>3. ans # <<>> /\ replies' \o txbuf' = Tail(ans)
    BY <1>1, <1>2, <1>4, <2>1, TakenFromBuffer
  <2>4. InTransit(s, Tail(ans), expect', mask, last_mask)
    BY <1>1, <1>4, <1>5, <2>1, <2>3, TransitReceive
  <2>5. InTransit(rxbuf' \o to_bench', replies' \o txbuf', expect', mask', last_mask')
    BY <1>2, <1>4, <2>1, <2>3, <2>4
  <2>6. OnTheWay' /\ AnswerTypes'
    BY <1>1, <1>2, <2>1, <2>2, <2>5 DEF OnTheWay, AnswerTypes
  <2>7. NothingLeft'
    BY <1>1, <1>2, <2>1 DEF NothingLeft
  <2>8. QED
    BY <1>3, <2>6, <2>7 DEF AnswersInv
<1>8. CASE ClientClose
  <2>1. /\ conn' # "open" /\ replies' = <<>> /\ expect' = <<>>
        /\ UNCHANGED <<to_bench, last_mask>>
    BY <1>8 DEF ClientClose
  <2>2. OnTheWay' /\ AnswerTypes'
    BY <1>1, <1>2, <2>1, EmptySeq DEF OnTheWay, AnswerTypes
  <2>3. NothingLeft'
    BY <1>1, <1>2, <2>1 DEF NothingLeft
  <2>4. QED
    BY <1>3, <2>2, <2>3 DEF AnswersInv
<1>9. QED
  BY <1>6, <1>7, <1>8 DEF ClientStep

LEMMA AcceptStep == AnswersInv /\ Accept => AnswersInv'
<1> SUFFICES ASSUME AnswersInv, Accept PROVE AnswersInv'
  OBVIOUS
<1>1. AnswerTypes /\ TdoFollows /\ NothingLeft /\ mask \in Int
  BY DEF AnswersInv, AnswerTypes
<1>2. /\ pc \in {"start", "accept"} /\ conn' = "open" /\ to_bench' = <<>> /\ last_mask' = mask
      /\ UNCHANGED <<bench, replies, rxbuf, txbuf, mask, tdo_mask, expect>>
  BY DEF Accept, pins
<1>3. rxbuf = <<>> /\ txbuf = <<>> /\ replies = <<>> /\ expect = <<>>
  BY <1>1, <1>2 DEF NothingLeft
<1>4. pc' \in {"clock", "exit", "killed"} \/ (pc = "accept" /\ pc' = "jtag")
  BY <1>2 DEF Accept, Continue, EndCycle
<1>5. InTransit(rxbuf' \o to_bench', replies' \o txbuf', expect', mask', last_mask')
  <2>1. InTransit(<<>>, <<>>, <<>>, mask, mask)
    BY <1>1, TransitStarts
  <2>2. <<>> \o <<>> = <<>>
    BY EmptySeq, ConcatEmptySeq
  <2>3. QED
    BY <1>2, <1>3, <2>1, <2>2
<1>6. AnswerTypes' /\ OnTheWay'
  BY <1>1, <1>2, <1>5, EmptySeq DEF AnswerTypes, OnTheWay
<1>7. TdoFollows'
  BY <1>1, <1>2, <1>4 DEF TdoFollows
<1>8. NothingLeft'
  BY <1>2, <1>3, <1>4 DEF NothingLeft
<1>9. QED
  BY <1>6, <1>7, <1>8 DEF AnswersInv

LEMMA AnswersStep == AnswersInv /\ BitbangNext => AnswersInv'
<1> SUFFICES ASSUME AnswersInv, BitbangNext PROVE AnswersInv'
  OBVIOUS
<1>1. AnswerTypes /\ TdoFollows /\ NothingLeft /\ OnTheWay
  BY DEF AnswersInv
<1>2. CASE BitbangClock
  <2>1. /\ pc = "clock" /\ tdo_mask' = mask /\ pc' \in {"jtag", "clock", "exit", "killed"}
        /\ UNCHANGED <<bench, conn, to_bench, replies, rxbuf, txbuf, mask, last_mask, expect>>
    BY <1>2 DEF BitbangClock, EndCycle, Continue, socket, client
  <2>2. QED
    BY <1>1, <2>1 DEF AnswersInv, AnswerTypes, TdoFollows, NothingLeft, OnTheWay
<1>3. CASE Drained
  <2>1. /\ pc = "bytes" /\ Flush(txbuf) /\ txbuf' = <<>> /\ pc' \in {"clock", "exit", "killed"}
        /\ UNCHANGED <<bench, to_bench, rxbuf, mask, tdo_mask, last_mask, expect>>
    BY <1>3 DEF Drained, EndCycle, Flush, pins, client
  <2>2. /\ AnswerTypes' /\ OnTheWay'
        /\ conn' # "open" <=> conn # "open"
        /\ conn' # "open" => replies' = <<>> /\ expect' = <<>>
    BY <1>1, <2>1, NotTaken DEF AnswerTypes
  <2>3. TdoFollows' /\ NothingLeft'
    BY <2>1, <2>2 DEF TdoFollows, NothingLeft
  <2>4. QED
    BY <2>2, <2>3 DEF AnswersInv
<1>4. CASE Interrupt
  <2>1. /\ pc' \in {pc, "killed"}
        /\ UNCHANGED <<bench, conn, to_bench, replies, rxbuf, txbuf, mask, tdo_mask, last_mask, expect>>
    BY <1>4 DEF Interrupt, socket, pins, client
  <2>2. QED
    BY <1>1, <2>1 DEF AnswersInv, AnswerTypes, TdoFollows, NothingLeft, OnTheWay
<1>5. QED
  BY <1>2, <1>3, <1>4, RefillStep, CommandStep, ClientStepInv, AcceptStep DEF BitbangNext, BenchStep, DrainJtag

\* The client is given the answers it asked for, in order, each for the pins it had written,
\* for any commands, buffers, reconnects and interrupts. kws_soc_tb.cpp:407-440, kws_soc_vpi.cpp:349-431.
THEOREM AnswersOrdered == Spec => []AnswersInOrder
<1>1. AnswersInv /\ UNCHANGED bitbang => AnswersInv'
  BY DEF bitbang, socket, pins, client, AnswersInv, AnswerTypes, TdoFollows, NothingLeft, OnTheWay
<1>2. AnswersInv /\ [BitbangNext]_bitbang => AnswersInv'
  BY <1>1, AnswersStep
<1>3. ASSUME AnswersInv PROVE AnswersInOrder
  <2>1. ASSUME conn = "open" PROVE IsPrefix(replies \o txbuf, expect)
    <3>1. /\ rxbuf \o to_bench \in Seq(Int) /\ replies \o txbuf \in Seq(Int) /\ expect \in Seq(Int)
      BY <1>3, ConcatProperties DEF AnswersInv, AnswerTypes
    <3>2. QED
      BY <1>3, <2>1, <3>1, TransitAnswers DEF AnswersInv, OnTheWay
  <2>2. QED
    BY <2>1 DEF AnswersInOrder
<1>4. QED
  BY AnswersInit, <1>2, <1>3, DevicesRun, PTL DEF BitbangSpec

-----------------------------------------------------------------------------
(* Types, of all devices together.                                         *)

\* The received bits are those below the decoder's state, whatever the bit time.
UartTypes ==
    /\ UartTypeOK
    /\ bit_time \in {uart_cycles_per_bit, uart_cycles_per_bit + 1}
    /\ tx_byte \in 0 .. 255 /\ tx_tick \in Silent .. LastTxTick
    /\ uart_shifter \in 0 .. Pow(2, IF uart_state = 0 THEN 0 ELSE uart_state - 1) - 1

LEMMA Doubles ==
    ASSUME NEW b \in 1 .. 8
    PROVE  Pow(2, b) = 2 * Pow(2, b - 1) /\ Pow(2, b - 1) \in 1 .. 128
<1>1. b = 1 \/ b = 2 \/ b = 3 \/ b = 4 \/ b = 5 \/ b = 6 \/ b = 7 \/ b = 8
  OBVIOUS
<1>2. /\ 1 - 1 = 0 /\ 2 - 1 = 1 /\ 3 - 1 = 2 /\ 4 - 1 = 3 /\ 5 - 1 = 4 /\ 6 - 1 = 5 /\ 7 - 1 = 6 /\ 8 - 1 = 7
  OBVIOUS
<1>3. QED
  BY <1>1, <1>2, PowValues

\* The transmitter stays in its frame, and the line is a bit.
LEMMA LineIsBit ==
    ASSUME UartTypes, Transmit
    PROVE  /\ bit_time' \in {uart_cycles_per_bit, uart_cycles_per_bit + 1} /\ tx_byte' \in 0 .. 255
           /\ tx_tick' \in Silent .. LastTxTick' /\ uart_tx' \in {0, 1}
<1>1. PICK n \in Nat \ {0} : n = bit_time /\ n = bit_time' /\ n \in {uart_cycles_per_bit, uart_cycles_per_bit + 1}
  BY UartAssumption DEF UartTypes, Transmit
<1>2. tx_tick \in -1 .. 10 * n - 1 /\ LastTxTick = 10 * n - 1 /\ LastTxTick' = 10 * n - 1
  BY <1>1 DEF UartTypes, LastTxTick, Silent
<1>3. tx_tick' \in -1 .. 10 * n - 1 /\ tx_byte' \in 0 .. 255
  <2>1. CASE tx_tick \in {Silent, LastTxTick}
    <3>1. tx_tick' \in {0, -1}
      BY <2>1 DEF Transmit, StartByte, Silent
    <3>2. tx_byte' \in 0 .. 255
      BY <2>1, UartAssumption DEF Transmit, StartByte, UartTypes
    <3>3. 0 \in -1 .. 10 * n - 1 /\ -1 \in -1 .. 10 * n - 1
      OBVIOUS
    <3>4. QED
      BY <3>1, <3>2, <3>3
  <2>2. CASE tx_tick \notin {Silent, LastTxTick}
    BY <1>2, <2>2 DEF Transmit, UartTypes
  <2>3. QED
    BY <2>1, <2>2
<1>4. PICK t \in -1 .. 10 * n - 1, x \in 0 .. 255 : t = tx_tick' /\ x = tx_byte'
  BY <1>3
<1>5. CASE t = -1
  BY <1>1, <1>2, <1>3, <1>4, <1>5 DEF uart_tx, Silent
<1>6. CASE t # -1
  <2>1. PICK q \in Int : q = t \div n
    OBVIOUS
  <2>2. PICK r \in 0 .. n - 1 : t = n * q + r
    <3>1. t % n \in 0 .. n - 1 /\ t = (n * (t \div n)) + (t % n)
      BY DivMod
    <3>2. QED
      BY <2>1, <3>1
  <2>3. q \in 0 .. 9
    <3>1. ~(-q >= 1)
      <4>1. SUFFICES ASSUME -q >= 1 PROVE FALSE
        OBVIOUS
      <4>2. n * (-q) >= n
        BY <4>1, MultipleIsLarge
      <4>3. n * (-q) = -(n * q)
        OBVIOUS
      <4>4. PICK m \in Int : m = n * q
        OBVIOUS
      <4>5. QED
        BY <1>6, <2>2, <4>2, <4>3, <4>4
    <3>2. ~(q - 9 >= 1)
      <4>1. SUFFICES ASSUME q - 9 >= 1 PROVE FALSE
        OBVIOUS
      <4>2. n * (q - 9) >= n
        BY <4>1, MultipleIsLarge
      <4>3. n * (q - 9) = n * q - 9 * n
        OBVIOUS
      <4>4. PICK m \in Int : m = n * q
        OBVIOUS
      <4>5. QED
        BY <2>2, <4>2, <4>3, <4>4
    <3>3. QED
      BY <3>1, <3>2
  <2>4. \A b \in 1 .. 8 : (x \div 2^(b - 1)) % 2 \in {0, 1}
    <3>1. TAKE b \in 1 .. 8
    <3>2. PICK p \in 1 .. 128 : p = 2^(b - 1)
      BY Doubles, PowIs
    <3>3. (x \div p) % 2 \in {0, 1}
      OBVIOUS
    <3>4. QED
      BY <3>2, <3>3
  <2>5. tx_tick' \div bit_time' = q /\ tx_tick' # Silent
    BY <1>1, <1>4, <1>6, <2>1 DEF Silent
  <2>6. uart_tx' \in {0, 1}
    <3>1. q = 0 => uart_tx' = 0
      BY <2>5 DEF uart_tx
    <3>2. q = 9 => uart_tx' = 1
      BY <2>5 DEF uart_tx
    <3>3. q \in 1 .. 8 => uart_tx' = (tx_byte' \div 2^(q - 1)) % 2
      BY <2>5 DEF uart_tx
    <3>4. q \in 1 .. 8 => uart_tx' = (x \div 2^(q - 1)) % 2
      BY <1>4, <3>3
    <3>5. q \in 1 .. 8 => uart_tx' \in {0, 1}
      BY <2>4, <3>4, Zenon
    <3>6. q = 0 \/ q = 9 \/ q \in 1 .. 8
      BY <2>3
    <3>7. QED
      BY <3>1, <3>2, <3>5, <3>6
  <2>7. QED
    BY <1>1, <1>2, <1>3, <2>6 DEF Silent
<1>7. QED
  BY <1>5, <1>6

LEMMA UartTypesBegin == UartInit => UartTypes
<1>1. <<>> \in Seq(0 .. 255)
  OBVIOUS
<1>2. 0 \in 0 .. Pow(2, 0) - 1
  BY PowValues
<1>3. QED
  BY <1>1, <1>2, UartAssumption DEF UartInit, UartTypes, UartTypeOK, UART_IDLE, UART_STOP, Silent, LastTxTick

LEMMA UartTypesStep == UartTypes /\ UartClock => UartTypes'
<1> SUFFICES ASSUME UartTypes, UartClock PROVE UartTypes'
  OBVIOUS
<1>1. /\ bit_time' \in {uart_cycles_per_bit, uart_cycles_per_bit + 1} /\ tx_byte' \in 0 .. 255
      /\ tx_tick' \in Silent .. LastTxTick' /\ uart_tx' \in {0, 1}
  BY LineIsBit DEF UartClock
<1>2. PICK line \in {0, 1} : line = uart_tx' /\ Decode(line)
  BY <1>1 DEF UartClock
<1>3. PICK b \in 0 .. 9 : b = uart_state
  BY DEF UartTypes, UartTypeOK, UART_IDLE, UART_STOP
<1>4. PICK s \in Nat : s = uart_shifter /\ s < Pow(2, IF b = 0 THEN 0 ELSE b - 1)
  <2>1. PICK k \in 0 .. 8 : k = IF b = 0 THEN 0 ELSE b - 1
    OBVIOUS
  <2>2. PICK p \in 1 .. 256 : p = Pow(2, k)
    BY <2>1, PowValues
  <2>3. uart_shifter \in 0 .. Pow(2, IF b = 0 THEN 0 ELSE b - 1) - 1
    BY <1>3 DEF UartTypes
  <2>4. uart_shifter \in 0 .. p - 1
    BY <2>1, <2>2, <2>3
  <2>5. uart_shifter \in Nat /\ uart_shifter < p
    BY <2>4
  <2>6. QED
    BY <2>1, <2>2, <2>5
<1>5. s \in 0 .. 255
  BY <1>4 DEF UartTypes, UartTypeOK
<1>6. PICK c \in Nat \ {0} : c = uart_cycles_per_bit
  BY UartAssumption
<1>7. uart_bit_timer \in 0 .. 2 * c
  BY <1>6 DEF UartTypes, UartTypeOK
<1>8. printed' \in Seq(0 .. 255)
  <2>1. printed \in Seq(0 .. 255) /\ Append(printed, s) \in Seq(0 .. 255) /\ <<>> \in Seq(0 .. 255)
    BY <1>5, AppendProperties DEF UartTypes, UartTypeOK
  <2>2. QED
    BY <1>4, <2>1 DEF UartClock
<1>9. /\ uart_state' \in 0 .. 9 /\ uart_bit_timer' \in 0 .. 2 * c
      /\ uart_shifter' \in 0 .. Pow(2, IF uart_state' = 0 THEN 0 ELSE uart_state' - 1) - 1
  <2>1. CASE b = 0
    <3>1. s = 0 /\ uart_shifter' = 0
      BY <1>2, <1>3, <1>4, <2>1, PowValues DEF Decode, UART_IDLE
    <3>2. uart_state' \in {0, 1} /\ uart_bit_timer' \in {c + (c \div 2), uart_bit_timer}
      BY <1>2, <1>3, <1>6, <2>1 DEF Decode, UART_IDLE, UART_START, FirstSample
    <3>3. c + (c \div 2) \in 0 .. 2 * c
      OBVIOUS
    <3>4. Pow(2, IF uart_state' = 0 THEN 0 ELSE uart_state' - 1) = 1
      BY <3>2, PowValues
    <3>5. QED
      BY <1>7, <3>1, <3>2, <3>3, <3>4
  <2>2. CASE b # 0 /\ uart_bit_timer > 1
    <3>1. uart_state' = b /\ uart_shifter' = s /\ uart_bit_timer' = uart_bit_timer - 1
      BY <1>2, <1>3, <1>4, <2>2 DEF Decode, UART_IDLE
    <3>2. b - 1 \in 0 .. 8 /\ \A k \in 0 .. 8 : Pow(2, k) \in 1 .. 256
      BY <2>2, PowValues
    <3>3. s \in 0 .. Pow(2, b - 1) - 1
      BY <1>4, <2>2, <3>2
    <3>4. QED
      BY <1>7, <2>2, <3>1, <3>3
  <2>3. CASE b \in 1 .. 8 /\ ~(uart_bit_timer > 1)
    <3>1. uart_state' = b + 1 /\ uart_shifter' = s + line * 2^(b - 1) /\ uart_bit_timer' = c
      BY <1>2, <1>3, <1>4, <1>6, <2>3 DEF Decode, UART_IDLE, UART_STOP
    <3>2. PICK p \in 1 .. 128 : p = Pow(2, b - 1) /\ Pow(2, b) = 2 * p
      BY <2>3, Doubles
    <3>3. s < p /\ uart_shifter' = s + line * p
      BY <1>4, <2>3, <3>1, <3>2, PowIs
    <3>4. uart_shifter' \in 0 .. 2 * p - 1
      <4>1. line = 0 \/ line = 1
        BY <1>2
      <4>2. line * p = 0 \/ line * p = p
        BY <4>1
      <4>3. QED
        BY <1>4, <3>3, <4>2
    <3>5. uart_state' # 0 /\ uart_state' - 1 = b
      BY <2>3, <3>1
    <3>6. QED
      BY <2>3, <3>1, <3>2, <3>4, <3>5
  <2>4. CASE b = 9 /\ ~(uart_bit_timer > 1)
    <3>1. uart_state' = 0 /\ uart_shifter' = 0 /\ uart_bit_timer' = 0
      BY <1>2, <1>3, <2>4 DEF Decode, UART_IDLE, UART_STOP
    <3>2. QED
      BY <3>1, PowValues
  <2>5. QED
    BY <2>1, <2>2, <2>3, <2>4
<1>10. uart_shifter' \in 0 .. 255
  <2>1. PICK k \in 0 .. 8 : k = IF uart_state' = 0 THEN 0 ELSE uart_state' - 1
    BY <1>9
  <2>2. \A j \in 0 .. 8 : Pow(2, j) \in 1 .. 256
    BY PowValues
  <2>3. uart_shifter' \in 0 .. Pow(2, k) - 1
    BY <1>9, <2>1
  <2>4. QED
    BY <2>1, <2>2, <2>3
<1>11. QED
  BY <1>1, <1>6, <1>8, <1>9, <1>10 DEF UartTypes, UartTypeOK, UART_IDLE, UART_STOP

\* What the microphone's invariant says of its registers.
LEMMA MicTypes == MicInv => MicTypeOK
<1>1. ASSUME MicInv PROVE FetchedIn(rx_slot) \in 0 .. AudioWords /\ WordOf(rx_slot) \in 0 .. AudioWords
  BY <1>1, AudioAssumption DEF MicInv, FetchedIn, WordOf, Default
<1>2. QED
  BY <1>1 DEF MicInv, MicTypeOK, InStep

\* A buffer is sent before it is full, and the bench stops before it has counted too far.
BitbangTypes ==
    /\ BitbangTypeOK /\ Len(txbuf) < TxSize
    /\ MaxCycles # 0 /\ ~Stopped => cycle < MaxCycles

LEMMA BitbangTypesBegin == BitbangInit => BitbangTypes
<1> SUFFICES ASSUME BitbangInit PROVE BitbangTypes
  OBVIOUS
<1>1. Len(to_bench) <= SocketSize
  <2>1. CASE source = "replay"
    <3>1. to_bench \in UNION {[1 .. n -> FileBytes] : n \in 0 .. SocketSize}
      BY <2>1 DEF BitbangInit, BoundedSeq, SeqOf
    <3>2. PICK n \in 0 .. SocketSize : to_bench \in [1 .. n -> FileBytes]
      BY <3>1
    <3>3. n \in Nat /\ SocketSize \in Nat
      BY BitbangAssumption
    <3>4. Len(to_bench) = n
      <4>1. to_bench \in Seq(FileBytes) /\ DOMAIN to_bench = 1 .. n
        BY <3>2, <3>3
      <4>2. Len(to_bench) \in Nat /\ 1 .. Len(to_bench) = 1 .. n
        BY <4>1, LenProperties
      <4>3. QED
        BY <3>3, <4>2
    <3>5. QED
      BY <3>3, <3>4
  <2>2. CASE source # "replay"
    BY <2>2, EmptySeq, BitbangAssumption DEF BitbangInit
  <2>3. QED
    BY <2>1, <2>2
<1>2. pc \in {"start", "clock"} /\ cycle = 0
  BY DEF BitbangInit, FirstPc
<1>3. rxbuf = <<>> /\ txbuf = <<>> /\ expect = <<>> /\ Len(<<>>) = 0
  BY EmptySeq DEF BitbangInit
<1>4. RxSize \in Nat \ {0} /\ TxSize \in Nat \ {0} /\ MaxReads \in Nat /\ MaxCycles \in Nat
  BY BitbangAssumption
<1>5. Len(rxbuf) <= RxSize /\ Len(txbuf) < TxSize /\ Len(txbuf) <= TxSize /\ Len(expect) <= MaxReads
  BY <1>3, <1>4
<1>6. conn = "none" /\ mask = 0 /\ trst_n = 1 /\ tdo_mask = 0
  BY DEF BitbangInit
<1>7. cycle \in 0 .. MaxCycles /\ (MaxCycles # 0 => cycle < MaxCycles)
  BY <1>2, <1>4
<1>8. QED
  BY <1>1, <1>2, <1>5, <1>6, <1>7 DEF BitbangTypes, BitbangTypeOK

\* What a step that ends a cycle, or goes on in it, makes of the loop's own variables.
LoopTypes ==
    /\ pc \in {"start", "clock", "jtag", "bytes", "accept", "exit", "killed"}
    /\ cycle \in 0 .. MaxCycles
    /\ MaxCycles # 0 /\ ~Stopped => cycle < MaxCycles

LEMMA LoopKeeps ==
    ASSUME LoopTypes, ~Stopped, NEW quit, NEW tx, NEW p \in {"clock", "jtag", "bytes", "accept"},
           EndCycle(quit, tx) \/ Continue(p, tx)
    PROVE  LoopTypes'
<1>0. PICK m \in Nat : m = MaxCycles
  BY BitbangAssumption
<1>1. PICK k \in 0 .. m : m = MaxCycles /\ k = cycle /\ (m # 0 => k < m)
  BY <1>0 DEF LoopTypes
<1>2. CASE EndCycle(quit, tx)
  <2>1. /\ cycle' = (IF m = 0 THEN 0 ELSE k + 1)
        /\ pc' \in {"killed", "exit", "clock"}
        /\ m # 0 /\ k + 1 = m => pc' \in {"killed", "exit"}
    BY <1>1, <1>2 DEF EndCycle
  <2>2. cycle' \in 0 .. m
    BY <1>1, <2>1
  <2>3. ASSUME m # 0, ~(cycle' < m) PROVE k + 1 = m
    BY <1>1, <2>1, <2>3
  <2>4. m # 0 /\ ~Stopped' => cycle' < m
    BY <2>1, <2>3 DEF Stopped
  <2>5. QED
    BY <1>1, <2>1, <2>2, <2>4 DEF LoopTypes
<1>3. CASE Continue(p, tx)
  BY <1>3 DEF Continue, LoopTypes, Stopped
<1>4. QED
  BY <1>2, <1>3

\* What is sent, or kept.
LEMMA FlushTypes ==
    ASSUME conn \in {"none", "open", "closed", "reset", "broken"},
           NEW tx \in Seq(Int), Len(tx) <= TxSize, Flush(tx) \/ (Keep(tx) /\ Len(tx) < TxSize)
    PROVE  Len(txbuf') < TxSize /\ conn' \in {"none", "open", "closed", "reset", "broken"}
<1>1. Len(<<>>) = 0 /\ TxSize \in Nat \ {0}
  BY EmptySeq, BitbangAssumption
<1>2. QED
  BY <1>1 DEF Flush, Keep

\* The first n bytes are read, and the rest stays.
LEMMA RefillTypes ==
    ASSUME NEW t \in Seq(Int), NEW n, n = IF Len(t) < RxSize THEN Len(t) ELSE RxSize
    PROVE  /\ Len(SubSeq(t, 1, n)) <= RxSize
           /\ Len(SubSeq(t, n + 1, Len(t))) <= Len(t)
<1>1. PICK l \in Nat, r \in Nat : l = Len(t) /\ r = RxSize
  BY BitbangAssumption, LenProperties
<1>2. n \in 0 .. l /\ n <= r
  BY <1>1
<1>3. Len(SubSeq(t, 1, n)) = n
  <2>1. n \in Int /\ \A i \in 1 .. n : t[i] \in Int
    BY <1>1, <1>2, ElementOfSeq
  <2>2. Len(SubSeq(t, 1, n)) = IF 1 <= n THEN n - 1 + 1 ELSE 0
    BY <2>1, SubSeqProperties
  <2>3. QED
    BY <1>2, <2>2
<1>4. Len(SubSeq(t, n + 1, l)) = l - n
  <2>1. n + 1 \in Int /\ \A i \in n + 1 .. l : t[i] \in Int
    BY <1>1, <1>2, ElementOfSeq
  <2>2. Len(SubSeq(t, n + 1, l)) = IF n + 1 <= l THEN l - (n + 1) + 1 ELSE 0
    BY <2>1, SubSeqProperties
  <2>3. QED
    BY <1>2, <2>2
<1>5. QED
  BY <1>1, <1>2, <1>3, <1>4

LEMMA BitbangTypesStep == BitbangTypes /\ AnswersInv /\ BitbangNext => BitbangTypes'
<1> SUFFICES ASSUME BitbangTypes, AnswersInv, BitbangNext PROVE BitbangTypes'
  OBVIOUS
<1>1. LoopTypes
  BY DEF BitbangTypes, BitbangTypeOK, LoopTypes
<1>2. /\ rxbuf \in Seq(Int) /\ to_bench \in Seq(Int) /\ txbuf \in Seq(Int) /\ expect \in Seq(Int)
  BY DEF AnswersInv, AnswerTypes
<1>3. /\ RxSize \in Nat \ {0} /\ TxSize \in Nat \ {0} /\ SocketSize \in Nat /\ MaxReads \in Nat
  BY BitbangAssumption
<1>4. /\ Len(to_bench) \in Nat /\ Len(rxbuf) \in Nat /\ Len(txbuf) \in Nat /\ Len(expect) \in Nat
  BY <1>2, LenProperties
<1>5. /\ conn \in {"none", "open", "closed", "reset", "broken"}
      /\ Len(to_bench) <= SocketSize /\ Len(rxbuf) <= RxSize /\ Len(txbuf) < TxSize
      /\ mask \in 0 .. 7 /\ trst_n \in {0, 1} /\ tdo_mask \in 0 .. 7 /\ Len(expect) <= MaxReads
  BY DEF BitbangTypes, BitbangTypeOK
<1>6. ASSUME LoopTypes',
             conn' \in {"none", "open", "closed", "reset", "broken"},
             Len(to_bench') <= SocketSize, Len(rxbuf') <= RxSize, Len(txbuf') < TxSize,
             mask' \in 0 .. 7, trst_n' \in {0, 1}, tdo_mask' \in 0 .. 7, Len(expect') <= MaxReads,
             Len(txbuf') \in Nat
      PROVE  BitbangTypes'
  <2>1. Len(txbuf') <= TxSize
    BY <1>3, <1>6
  <2>2. QED
    BY <1>6, <2>1 DEF BitbangTypes, BitbangTypeOK, LoopTypes
<1>7. Len(<<>>) = 0
  BY EmptySeq
<1>8. ASSUME NEW p \in {"clock", "jtag", "bytes", "accept"}, NEW quit, NEW tx, ~Stopped,
             EndCycle(quit, tx) \/ Continue(p, tx)
      PROVE  LoopTypes'
  BY <1>1, <1>8, LoopKeeps
<1>9. UNCHANGED <<pc, cycle>> => LoopTypes'
  BY <1>1 DEF LoopTypes, Stopped
<1>10. CASE BitbangClock
  <2>1. ~Stopped
    BY <1>10 DEF BitbangClock, Stopped
  <2>2. EndCycle(FALSE, <<>>) \/ Continue("jtag", <<>>)
    BY <1>10 DEF BitbangClock
  <2>3. LoopTypes'
    BY <1>8, <2>1, <2>2
  <2>4. /\ UNCHANGED <<conn, to_bench, rxbuf, txbuf, mask, trst_n, expect>> /\ tdo_mask' = mask
    BY <1>10 DEF BitbangClock, socket, client
  <2>5. QED
    BY <1>4, <1>5, <1>6, <2>3, <2>4
<1>11. CASE CxxrtlRefill
  <2>0. PICK n : /\ n = IF Len(to_bench) < RxSize THEN Len(to_bench) ELSE RxSize
                 /\ rxbuf' = SubSeq(to_bench, 1, n) /\ to_bench' = SubSeq(to_bench, n + 1, Len(to_bench))
                 /\ Flush(txbuf)
                 /\ \/ Continue("jtag", txbuf) \/ EndCycle(FALSE, txbuf)
                    \/ EndCycle(TRUE, <<>>) \/ Continue("accept", txbuf)
    BY <1>11 DEF CxxrtlRefill, AtRefill
  <2>1. ~Stopped
    BY <1>11 DEF CxxrtlRefill, Stopped
  <2>2. LoopTypes'
    BY <1>8, <2>0, <2>1
  <2>3. Len(rxbuf') <= RxSize /\ Len(to_bench') <= SocketSize
    <3>1. Len(rxbuf') <= RxSize /\ Len(to_bench') <= Len(to_bench)
      BY <1>2, <2>0, RefillTypes
    <3>2. Len(to_bench') \in Nat
      <4>1. PICK l \in Nat : l = Len(to_bench)
        BY <1>4
      <4>2. n \in Nat /\ \A i \in n + 1 .. l : to_bench[i] \in Int
        BY <1>2, <1>3, <1>4, <2>0, <4>1, ElementOfSeq
      <4>3. to_bench' \in Seq(Int)
        BY <1>2, <2>0, <4>1, <4>2, SubSeqProperties
      <4>4. QED
        BY <4>3, LenProperties
    <3>3. QED
      BY <1>3, <1>4, <1>5, <3>1, <3>2
  <2>4. Len(txbuf') < TxSize /\ conn' \in {"none", "open", "closed", "reset", "broken"} /\ txbuf' = <<>>
    BY <1>3, <1>5, <1>7, <2>0 DEF Flush
  <2>5. UNCHANGED <<mask, trst_n, tdo_mask, expect>>
    BY <1>11 DEF CxxrtlRefill, pins, client
  <2>6. QED
    BY <1>5, <1>6, <1>7, <2>2, <2>3, <2>4, <2>5
<1>12. CASE VerilatorRefill
  <2>0. PICK n : /\ n = IF Len(to_bench) < RxSize THEN Len(to_bench) ELSE RxSize
                 /\ rxbuf' = SubSeq(to_bench, 1, n) /\ to_bench' = SubSeq(to_bench, n + 1, Len(to_bench))
                 /\ conn' = IF n = 0 /\ conn = "reset" THEN "broken" ELSE conn
                 /\ \/ Continue("bytes", <<>>) \/ EndCycle(FALSE, <<>>)
                    \/ EndCycle(TRUE, <<>>) \/ Continue("accept", <<>>)
    BY <1>12 DEF VerilatorRefill
  <2>1. ~Stopped
    BY <1>12 DEF VerilatorRefill, Stopped
  <2>2. LoopTypes'
    BY <1>8, <2>0, <2>1
  <2>3. Len(rxbuf') <= RxSize /\ Len(to_bench') <= SocketSize
    <3>1. Len(rxbuf') <= RxSize /\ Len(to_bench') <= Len(to_bench)
      BY <1>2, <2>0, RefillTypes
    <3>2. Len(to_bench') \in Nat
      <4>1. PICK l \in Nat : l = Len(to_bench)
        BY <1>4
      <4>2. n \in Nat /\ \A i \in n + 1 .. l : to_bench[i] \in Int
        BY <1>2, <1>3, <1>4, <2>0, <4>1, ElementOfSeq
      <4>3. to_bench' \in Seq(Int)
        BY <1>2, <2>0, <4>1, <4>2, SubSeqProperties
      <4>4. QED
        BY <4>3, LenProperties
    <3>3. QED
      BY <1>3, <1>4, <1>5, <3>1, <3>2
  <2>4. UNCHANGED <<txbuf, mask, trst_n, tdo_mask, expect>>
    BY <1>12 DEF VerilatorRefill, pins, client
  <2>5. conn' \in {"none", "open", "closed", "reset", "broken"}
    BY <1>5, <2>0
  <2>6. QED
    BY <1>4, <1>5, <1>6, <2>2, <2>3, <2>4, <2>5
<1>13. CASE Drained
  <2>1. ~Stopped
    BY <1>13 DEF Drained, Stopped
  <2>2. LoopTypes'
    BY <1>8, <1>13, <2>1 DEF Drained
  <2>3. txbuf' = <<>> /\ conn' \in {"none", "open", "closed", "reset", "broken"}
    BY <1>5, <1>13 DEF Drained, Flush
  <2>4. UNCHANGED <<to_bench, rxbuf, mask, trst_n, tdo_mask, expect>>
    BY <1>13 DEF Drained, pins, client
  <2>5. QED
    BY <1>3, <1>5, <1>6, <1>7, <2>2, <2>3, <2>4
<1>14. ASSUME NEW c \in ClientBytes \cup FileBytes, PinWrite(c) \/ SampleTdo(c) \/ Quit(c) \/ Ignore(c)
       PROVE  BitbangTypes'
  <2>1. TakeByte(c)
    BY <1>14 DEF PinWrite, SampleTdo, Quit, Ignore
  <2>2. ~Stopped /\ Bytes \in {"clock", "jtag", "bytes", "accept"}
    BY <2>1 DEF TakeByte, Stopped, Bytes
  <2>3. rxbuf # <<>> /\ rxbuf' = Tail(rxbuf) /\ UNCHANGED <<to_bench, expect>>
    BY <2>1 DEF TakeByte, client
  <2>4. Len(rxbuf') <= RxSize
    <3>1. Len(Tail(rxbuf)) = Len(rxbuf) - 1
      BY <1>2, <2>3, HeadTailProperties
    <3>2. QED
      BY <1>3, <1>4, <1>5, <2>3, <3>1
  <2>5. c \in Int
    BY BitbangAssumption
  <2>6. LoopTypes'
    BY <1>8, <1>14, <2>2 DEF PinWrite, SampleTdo, Quit, Ignore
  <2>7. Flush(txbuf) \/ Keep(txbuf)
        => txbuf' \in {txbuf, <<>>} /\ conn' \in {"none", "open", "closed", "reset", "broken"}
    BY <1>5 DEF Flush, Keep
  <2>8. CASE PinWrite(c)
    <3>1. mask' \in 0 .. 7 /\ trst_n' \in {0, 1}
      BY <1>5, <2>5, <2>8 DEF PinWrite, IsMask
    <3>2. tdo_mask' \in 0 .. 7
      BY <1>5, <2>8, <3>1 DEF PinWrite
    <3>3. txbuf' \in {txbuf, <<>>} /\ conn' \in {"none", "open", "closed", "reset", "broken"}
      BY <2>7, <2>8 DEF PinWrite
    <3>4. Len(txbuf') < TxSize /\ Len(txbuf') \in Nat
      BY <1>3, <1>4, <1>5, <1>7, <3>3
    <3>5. QED
      BY <1>5, <1>6, <2>3, <2>4, <2>6, <3>1, <3>2, <3>3, <3>4
  <2>9. CASE SampleTdo(c)
    <3>1. PICK tx : /\ tx = Append(txbuf, tdo_mask)
                    /\ Flush(tx) \/ (Keep(tx) /\ Len(tx) # TxSize)
      BY <2>9 DEF SampleTdo
    <3>2. tx \in Seq(Int) /\ Len(tx) = Len(txbuf) + 1
      BY <1>2, <1>5, <3>1, AppendProperties
    <3>3. Len(tx) <= TxSize /\ (Len(tx) # TxSize => Len(tx) < TxSize) /\ Len(tx) \in Nat
      BY <1>3, <1>4, <1>5, <3>2
    <3>4. txbuf' = <<>> \/ (txbuf' = tx /\ Len(tx) # TxSize)
      BY <3>1 DEF Flush, Keep
    <3>5. Len(txbuf') < TxSize /\ Len(txbuf') \in Nat
      BY <1>3, <1>7, <3>3, <3>4
    <3>6. conn' \in {"none", "open", "closed", "reset", "broken"}
      BY <1>5, <3>1 DEF Flush, Keep
    <3>7. UNCHANGED <<mask, trst_n, tdo_mask>>
      BY <2>9 DEF SampleTdo, pins
    <3>8. QED
      BY <1>5, <1>6, <2>3, <2>4, <2>6, <3>5, <3>6, <3>7
  <2>10. CASE Quit(c) \/ Ignore(c)
    <3>1. UNCHANGED <<mask, trst_n, tdo_mask>>
      BY <2>10 DEF Quit, Ignore, pins
    <3>2. txbuf' \in {txbuf, <<>>} /\ conn' \in {"none", "open", "closed", "reset", "broken"}
      BY <2>7, <2>10 DEF Quit, Ignore
    <3>3. Len(txbuf') < TxSize /\ Len(txbuf') \in Nat
      BY <1>3, <1>4, <1>5, <1>7, <3>2
    <3>4. QED
      BY <1>5, <1>6, <2>3, <2>4, <2>6, <3>1, <3>2, <3>3
  <2>11. QED
    BY <1>14, <2>8, <2>9, <2>10
<1>15. CASE ClientStep
  <2>1. LoopTypes'
    BY <1>9, <1>15 DEF ClientStep, ClientSend, ClientReceive, ClientClose
  <2>2. UNCHANGED <<rxbuf, txbuf, mask, trst_n, tdo_mask>>
    BY <1>15 DEF ClientStep, ClientSend, ClientReceive, ClientClose, pins
  <2>3. conn' \in {"none", "open", "closed", "reset", "broken"}
    BY <1>5, <1>15 DEF ClientStep, ClientSend, ClientReceive, ClientClose
  <2>4. Len(to_bench') <= SocketSize
    <3>1. \/ to_bench' = to_bench
          \/ \E c \in ClientBytes : to_bench' = Append(to_bench, c) /\ Len(to_bench) < SocketSize
      BY <1>15 DEF ClientStep, ClientSend, ClientReceive, ClientClose
    <3>2. ASSUME NEW c \in ClientBytes PROVE Len(Append(to_bench, c)) = Len(to_bench) + 1
      <4>1. c \in Int
        BY <3>2, BitbangAssumption
      <4>2. QED
        BY <1>2, <4>1, AppendProperties
    <3>3. QED
      BY <1>3, <1>4, <1>5, <3>1, <3>2
  <2>5. Len(expect') <= MaxReads
    <3>1. \/ expect' = expect
          \/ expect' = Append(expect, last_mask) /\ Len(expect) < MaxReads
          \/ expect' = <<>>
          \/ ClientReceive
      BY <1>15 DEF ClientStep, ClientSend, ClientClose
    <3>2. Len(Append(expect, last_mask)) = Len(expect) + 1
      BY <1>2, AppendProperties DEF AnswersInv, AnswerTypes
    <3>3. ASSUME ClientReceive PROVE Len(expect') <= MaxReads
      <4>1. expect' = SubSeq(expect, 2, Len(expect))
        BY <3>3 DEF ClientReceive
      <4>2. \A i \in 2 .. Len(expect) : expect[i] \in Int
        BY <1>2, <1>4, ElementOfSeq
      <4>3. Len(expect') = IF 2 <= Len(expect) THEN Len(expect) - 2 + 1 ELSE 0
        BY <1>4, <4>1, <4>2, SubSeqProperties
      <4>4. QED
        BY <1>3, <1>4, <1>5, <4>3
    <3>4. QED
      BY <1>3, <1>4, <1>5, <1>7, <3>1, <3>2, <3>3
  <2>6. QED
    BY <1>4, <1>5, <1>6, <2>1, <2>2, <2>3, <2>4, <2>5
<1>16. CASE Accept
  <2>1. ~Stopped
    BY <1>16 DEF Accept, Stopped
  <2>2. Continue("clock", <<>>) \/ Continue("jtag", <<>>) \/ EndCycle(FALSE, <<>>)
    BY <1>16 DEF Accept
  <2>3. LoopTypes'
    BY <1>8, <2>1, <2>2
  <2>4. conn' = "open" /\ to_bench' = <<>> /\ UNCHANGED <<rxbuf, txbuf, mask, trst_n, tdo_mask, expect>>
    BY <1>16 DEF Accept, pins
  <2>5. QED
    BY <1>3, <1>4, <1>5, <1>6, <1>7, <2>3, <2>4
<1>17. CASE Interrupt
  <2>1. ~Stopped /\ cycle' = cycle /\ (pc' = pc \/ pc' = "killed")
    BY <1>17 DEF Interrupt
  <2>2. LoopTypes'
    BY <1>1, <2>1 DEF LoopTypes, Stopped
  <2>3. UNCHANGED <<conn, to_bench, rxbuf, txbuf, mask, trst_n, tdo_mask, expect>>
    BY <1>17 DEF Interrupt, socket, pins, client
  <2>4. QED
    BY <1>4, <1>5, <1>6, <2>2, <2>3
<1>18. QED
  BY <1>10, <1>11, <1>12, <1>13, <1>14, <1>15, <1>16, <1>17
     DEF BitbangNext, BenchStep, DrainJtag

\* The types of the loop and of all devices, for any sizes: no answer is stored past the
\* end of txbuf, a client keeps within its reads, what the UART decoder collects stays a
\* byte, the words of the microphone are those of its file, and the loop does not outlast
\* its cycles. kws_soc_tb.cpp:330-366,405-489, kws_soc_vpi.cpp:341-432,737-757,
\* flashsim.cpp:155-652, i2s_mic_sim.cpp:26-55, flash_ctrl_eb.v:123-175.
THEOREM TypeCorrect == Spec => []TypeOK
<1>1. Spec => []UartTypes
  <2>1. UartTypes /\ UNCHANGED UartVars => UartTypes'
    BY DEF UartTypes, UartTypeOK, UartVars, monitor, transmitter, LastTxTick
  <2>2. UartTypes /\ [UartClock]_UartVars => UartTypes'
    BY <2>1, UartTypesStep
  <2>3. QED
    BY UartTypesBegin, <2>2, DevicesRun, PTL DEF UartSpec
<1>2. Spec => []MicInv
  <2>1. MicInv /\ UNCHANGED MicVars => MicInv'
    BY DEF MicVars, mic, receiver, MicInv, InStep, FetchedIn, WordOf, MicSendsAudio
  <2>2. MicInv /\ [MicClock]_MicVars => MicInv'
    BY <2>1, MicStepInv
  <2>3. QED
    BY MicInitInv, <2>2, DevicesRun, PTL DEF MicSpec
<1>3. Spec => [](AnswersInv /\ BitbangTypes)
  <2>1. BitbangTypes /\ UNCHANGED bitbang => BitbangTypes'
    BY DEF BitbangTypes, BitbangTypeOK, bitbang, socket, pins, Stopped, client
  <2>2. AnswersInv /\ [BitbangNext]_bitbang => AnswersInv'
    <3>1. AnswersInv /\ UNCHANGED bitbang => AnswersInv'
      BY DEF AnswersInv, AnswerTypes, TdoFollows, NothingLeft, OnTheWay, bitbang, socket, pins, client
    <3>2. QED
      BY <3>1, AnswersStep
  <2>3. AnswersInv /\ BitbangTypes /\ [BitbangNext]_bitbang => AnswersInv' /\ BitbangTypes'
    BY <2>1, <2>2, BitbangTypesStep
  <2>4. QED
    BY AnswersInit, BitbangTypesBegin, <2>3, DevicesRun, PTL DEF BitbangSpec
<1>4. /\ UartTypes => UartTypeOK
      /\ BitbangTypes => BitbangTypeOK
      /\ FlashSideTypeOK => FlashTypeOK /\ CtrlTypeOK
  BY DEF UartTypes, BitbangTypes, FlashSideTypeOK
<1>5. UartTypeOK /\ MicTypeOK /\ BitbangTypeOK /\ FlashTypeOK /\ CtrlTypeOK => TypeOK
  BY DEF TypeOK
<1>6. QED
  BY FlashSideTypes, MicTypes, <1>1, <1>2, <1>3, <1>4, <1>5, PTL
=============================================================================
