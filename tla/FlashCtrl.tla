----------------------------- MODULE FlashCtrl ------------------------------
(***************************************************************************)
(* The QSPI controller of the XIP port, flash_ctrl_eb.v, clock by clock as *)
(* the flash sees it: the reset commands and the 0xEB command of the first *)
(* fetch after a reset, continuous-mode fetches after it, and the line     *)
(* buffer that fills byte by byte. XipCache has the same controller with   *)
(* its serial phases taken as one.                                         *)
(***************************************************************************)
EXTENDS Integers

CONSTANTS LineBytes, TRST_CYCLES

ASSUME LineAssumption == LineBytes \in Nat /\ LineBytes > 0 /\ LineBytes % 4 = 0
ASSUME TrstAssumption == TRST_CYCLES \in Nat \ {0}

VARIABLES state, phase_tick, is_first,
          A,          \* the address input, held through the fetch
          dbyte, data_reg, byte_idx,
          word_done,  \* the set of words whose bit is high
          done_reg

ctrl == <<state, phase_tick, is_first, A, dbyte, data_reg, byte_idx, word_done, done_reg>>

Ticks == [CMD_66 |-> 16, WAIT_66 |-> 4, CMD_99 |-> 16, TRST_WAIT |-> TRST_CYCLES,
          CMD_EB |-> 16, ADDR |-> 12, MODE |-> 4, DUMMY |-> 8, DATA |-> 4 * LineBytes,
          DONE_WAIT |-> 4]

Successor == [CMD_66 |-> "WAIT_66", WAIT_66 |-> "CMD_99", CMD_99 |-> "TRST_WAIT",
              TRST_WAIT |-> "CMD_EB", CMD_EB |-> "ADDR", ADDR |-> "MODE", MODE |-> "DUMMY",
              DUMMY |-> "DATA", DATA |-> "DONE_WAIT", DONE_WAIT |-> "IDLE"]

CtrlTypeOK ==
    /\ state \in {"IDLE"} \cup DOMAIN Ticks
    /\ phase_tick \in Nat /\ (state # "IDLE" => phase_tick < Ticks[state])
    /\ is_first \in BOOLEAN /\ done_reg \in BOOLEAN
    /\ dbyte \in 0 .. 15 /\ data_reg \in [0 .. LineBytes - 1 -> 0 .. 255]
    /\ byte_idx \in 0 .. LineBytes - 1 /\ word_done \subseteq 0 .. (LineBytes \div 4) - 1

CtrlReset ==
    /\ state' = "IDLE" /\ phase_tick' = 0 /\ is_first' = TRUE /\ A' = A
    /\ dbyte' = 0 /\ data_reg' = [i \in 0 .. LineBytes - 1 |-> 0] /\ byte_idx' = 0
    /\ word_done' = {} /\ done_reg' = FALSE

CtrlInit ==
    /\ state = "IDLE" /\ phase_tick = 0 /\ is_first = TRUE /\ A = 0
    /\ dbyte = 0 /\ data_reg = [i \in 0 .. LineBytes - 1 |-> 0] /\ byte_idx = 0
    /\ word_done = {} /\ done_reg = FALSE

-----------------------------------------------------------------------------
(* The pins.                                                               *)

csn == state \in {"IDLE", "WAIT_66", "TRST_WAIT", "DONE_WAIT"}

sck == IF csn THEN 0 ELSE phase_tick % 2

CommandBit(byte) == (byte \div 2^(7 - (phase_tick \div 2))) % 2

spi_do == CASE state = "CMD_66" -> CommandBit(102)
            [] state = "CMD_99" -> CommandBit(153)
            [] state = "CMD_EB" -> CommandBit(235)
            [] state = "ADDR"   -> (A \div 16^(5 - (phase_tick \div 2))) % 16
            [] state = "MODE" /\ phase_tick < 2 -> 10
            [] OTHER -> 0

-----------------------------------------------------------------------------
LastTick == state # "IDLE" /\ phase_tick = Ticks[state] - 1

next_state(start) ==
    CASE state = "IDLE" /\ start -> IF is_first THEN "CMD_66" ELSE "ADDR"
      [] state # "IDLE" /\ LastTick -> Successor[state]
      [] OTHER -> state

\* The high nibble of a byte comes first, and the fourth byte completes a word.
Capture(di) ==
    IF phase_tick % 4 = 1
    THEN dbyte' = di /\ UNCHANGED <<data_reg, byte_idx, word_done>>
    ELSE /\ data_reg' = [data_reg EXCEPT ![byte_idx] = dbyte * 16 + di]
         /\ byte_idx' = (byte_idx + 1) % LineBytes
         /\ word_done' = IF byte_idx % 4 = 3 THEN word_done \cup {byte_idx \div 4} ELSE word_done
         /\ UNCHANGED dbyte

\* A clock edge. start comes only in IDLE, which the wrapper's handshake ensures.
CtrlClock(start, a, di) ==
    /\ state' = next_state(start)
    /\ phase_tick' = IF state' # state \/ state = "IDLE" THEN 0 ELSE phase_tick + 1
    /\ is_first' = (is_first /\ ~(state = "DATA" /\ LastTick))
    /\ A' = IF start THEN a ELSE A
    /\ IF start THEN byte_idx' = 0 /\ word_done' = {} /\ UNCHANGED <<dbyte, data_reg>>
       ELSE IF state = "DATA" /\ phase_tick % 2 = 1 THEN Capture(di)
       ELSE UNCHANGED <<dbyte, data_reg, byte_idx, word_done>>
    /\ done_reg' = IF start THEN FALSE ELSE done_reg \/ (state = "DONE_WAIT" /\ LastTick)
=============================================================================
