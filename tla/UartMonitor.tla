---------------------------- MODULE UartMonitor -----------------------------
(***************************************************************************)
(* The decoder both benches run on the SoC's uart_tx, once per clock, and  *)
(* prints characters with. The transmitter is the external UART: ten bits  *)
(* of bit_time clocks, least significant data bit first. The benches round *)
(* the bit time down to a whole number of clocks, so the transmitter's is  *)
(* that or one more.                                                       *)
(***************************************************************************)
EXTENDS Integers, Sequences

CONSTANTS uart_cycles_per_bit,
          UartBytes  \* the bytes that are sent

ASSUME UartAssumption == uart_cycles_per_bit \in Nat \ {0} /\ UartBytes \subseteq 0 .. 255

VARIABLES uart_state, uart_bit_timer, uart_shifter,
          printed,   \* what has been printed since the last start bit
          bit_time,  \* transmitter: clocks per bit
          tx_byte,   \* transmitter: the byte that is or was sent last
          tx_tick    \* transmitter: the clock in its frame

monitor == <<uart_state, uart_bit_timer, uart_shifter, printed>>
transmitter == <<bit_time, tx_byte, tx_tick>>

UART_IDLE == 0
UART_START == 1
UART_STOP == 9
Silent == -1

UartTypeOK ==
    /\ uart_state \in UART_IDLE .. UART_STOP
    /\ uart_bit_timer \in 0 .. 2 * uart_cycles_per_bit
    /\ uart_shifter \in 0 .. 255 /\ printed \in Seq(0 .. 255)

UartInit ==
    /\ uart_state = UART_IDLE /\ uart_bit_timer = 0 /\ uart_shifter = 0
    /\ printed = <<>>
    /\ bit_time \in {uart_cycles_per_bit, uart_cycles_per_bit + 1}
    /\ tx_byte = 0 /\ tx_tick = Silent

LastTxTick == 10 * bit_time - 1

StartByte == tx_byte' \in UartBytes /\ tx_tick' = 0

\* The next byte may follow its predecessor at once.
Transmit ==
    /\ UNCHANGED bit_time
    /\ IF tx_tick \in {Silent, LastTxTick}
       THEN StartByte \/ (tx_tick' = Silent /\ UNCHANGED tx_byte)
       ELSE tx_tick' = tx_tick + 1 /\ UNCHANGED tx_byte

uart_tx ==
    LET bit == tx_tick \div bit_time
    IN  CASE tx_tick = Silent -> 1
          [] tx_tick # Silent /\ bit = 0 -> 0
          [] tx_tick # Silent /\ bit \in 1 .. 8 -> (tx_byte \div 2^(bit - 1)) % 2
          [] tx_tick # Silent /\ bit = 9 -> 1

\* MUTANT: the first data bit is sampled after one bit time.
FirstSample_OneBit == uart_cycles_per_bit

\* From the start bit to the middle of the first data bit.
FirstSample == uart_cycles_per_bit + (uart_cycles_per_bit \div 2)

\* One clock: line is uart_tx.
Decode(line) ==
    IF uart_state = UART_IDLE
    THEN /\ IF line = 0
            THEN uart_state' = UART_START /\ uart_bit_timer' = FirstSample
            ELSE UNCHANGED <<uart_state, uart_bit_timer>>
         /\ UNCHANGED uart_shifter
    ELSE IF uart_bit_timer > 1
    THEN uart_bit_timer' = uart_bit_timer - 1 /\ UNCHANGED <<uart_state, uart_shifter>>
    ELSE IF uart_state < UART_STOP
    THEN /\ uart_shifter' = uart_shifter + line * 2^(uart_state - 1)
         /\ uart_bit_timer' = uart_cycles_per_bit
         /\ uart_state' = uart_state + 1
    ELSE /\ uart_shifter' = 0 /\ uart_bit_timer' = 0
         /\ uart_state' = UART_IDLE

Prints == uart_state = UART_STOP /\ uart_bit_timer = 1

UartClock ==
    /\ Transmit
    /\ Decode(uart_tx')
    /\ printed' = IF Prints THEN Append(printed, uart_shifter)
                  ELSE IF tx_tick' = 0 THEN <<>> ELSE printed

-----------------------------------------------------------------------------
\* Each byte the SoC sends is printed exactly once, as itself and before its frame
\* is over: the sampling points drift by the rounded bit time and by at most a clock
\* per frame, also when bytes follow each other without a gap.
\* kws_soc_tb.cpp:343-365, kws_soc_vpi.cpp:738-757.
PrintedIsSent ==
    /\ printed # <<>> => printed = <<tx_byte>>
    /\ tx_tick = LastTxTick => printed = <<tx_byte>>
=============================================================================
