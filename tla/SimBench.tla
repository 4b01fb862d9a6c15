------------------------------ MODULE SimBench ------------------------------
(***************************************************************************)
(* The main loop of both test benches, kws_soc_tb.cpp and kws_soc_vpi.cpp: *)
(* each cycle clocks the design, calls the flash with its XIP pins, decodes*)
(* uart_tx, steps the microphone, and then runs the JTAG commands.         *)
(*                                                                         *)
(* A behaviour exercises one of the attached devices, while the lines of   *)
(* the others are idle and leave them as they are: the devices share no    *)
(* state but the clock. The flash has two exercises: the SoC's controller, *)
(* clock by clock, and a host that uses all of its commands, byte by byte. *)
(***************************************************************************)
EXTENDS FlashHost, FlashCtrl, UartMonitor, I2SMicSim, RemoteBitbang

CONSTANTS Exercises,
          Lines  \* the lines the XIP wrapper fetches

ASSUME LinesAssumption ==
    /\ Exercises \subseteq {"fetch", "host", "uart", "mic", "jtag"}
    /\ \A a \in Lines : a \in Nat /\ a % LineBytes = 0 /\ a + LineBytes <= MemBytes

VARIABLE exercise

vars == <<exercise, flash, host, ctrl, monitor, transmitter, mic, receiver, bitbang>>

TypeOK == FlashTypeOK /\ CtrlTypeOK /\ UartTypeOK /\ MicTypeOK /\ BitbangTypeOK

Init ==
    /\ exercise \in Exercises
    /\ FlashInit /\ host = NoTransfer /\ CtrlInit
    /\ UartInit /\ (exercise # "uart" => bit_time = uart_cycles_per_bit)
    /\ MicInit /\ (exercise # "mic" => i2s_sck = 0 /\ i2s_ws = 0)
    /\ BitbangInit /\ (exercise # "jtag" => source = "none" /\ bench = "verilator")

-----------------------------------------------------------------------------
\* What the design reads on its data lines: the answer of the last call.
flash_di == FlashOut(csn, spi_do)

\* The controller changes its pins with the rising edge; the call at the falling
\* edge sees the same pins again and changes nothing.
XipClock ==
    /\ \/ CtrlClock(FALSE, 0, flash_di)
       \/ \E a \in Lines : state = "IDLE" /\ CtrlClock(TRUE, a, flash_di)
    /\ FlashCall(csn', sck', spi_do')

\* The debug module resets the processor's domain at any clock; the flash has no reset pin.
WarmReset == CtrlReset /\ FlashCall(csn', sck', spi_do')

FetchCycle ==
    /\ exercise = "fetch" /\ ~aborted
    /\ XipClock \/ WarmReset
    /\ UNCHANGED <<exercise, host, monitor, transmitter, mic, receiver, bitbang>>

HostCycle ==
    /\ exercise = "host" /\ HostNext
    /\ UNCHANGED <<exercise, ctrl, monitor, transmitter, mic, receiver, bitbang>>

UartCycle ==
    /\ exercise = "uart" /\ UartClock
    /\ UNCHANGED <<exercise, flash, host, ctrl, mic, receiver, bitbang>>

MicCycle ==
    /\ exercise = "mic" /\ MicClock
    /\ UNCHANGED <<exercise, flash, host, ctrl, monitor, transmitter, bitbang>>

JtagStep(A1) ==
    /\ exercise = "jtag" /\ A1
    /\ UNCHANGED <<exercise, flash, host, ctrl, monitor, transmitter, mic, receiver>>

\* The program has ended.
Ended == exercise = "jtag" /\ Stopped /\ UNCHANGED vars

Next ==
    \/ FetchCycle \/ HostCycle \/ UartCycle \/ MicCycle
    \/ JtagStep(BitbangNext) \/ Ended

\* The bench's program never stops by itself between two steps.
Spec == Init /\ [][Next]_vars /\ WF_vars(JtagStep(BenchStep))

-----------------------------------------------------------------------------
\* Data is what the memory holds: each byte of a line the XIP controller has marked
\* as done, after a warm reset in any state of the controller and the flash as well,
\* and each byte a host reads, in every read mode.
\* flashsim.cpp:507-595, flash_ctrl_eb.v:123-175.
ReadsReturnMemory ==
    /\ \A i \in 0 .. LineBytes - 1 : i \div 4 \in word_done \/ done_reg => data_reg[i] = m_mem[A + i]
    /\ HostReadsMemory

Nor == INSTANCE NorFlash WITH
           mem    <- m_mem,
           wel    <- WEL \in m_sreg \/ m_state = "WRSR",
           busy   <- WIP \in m_sreg,
           asleep <- DPD \in m_sreg

\* To a host that keeps to the data sheet the model is a NOR flash: memory changes
\* only in a write that was enabled, once per enable, one at a time, by clearing bits
\* of one page or erasing. flashsim.cpp:159-249,304-456.
ImplementsNor == Nor!Spec
=============================================================================
