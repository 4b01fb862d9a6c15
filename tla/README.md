# A TLA+ model of the KWS-SoC

KWS-SoC is a keyword-spotting system on a chip: a Hazard3 RISC-V processor, an
AHB-Lite fabric, a cached execute-in-place (XIP) flash port, a convolution
accelerator with its own bus master, and bare-metal firmware that classifies a
sliding window of microphone audio. This directory holds TLA+ modules of its
core, TLC configurations that check them on small instances, and TLAPS proofs.

All paths below are relative to the repository's root (`src/` in
`PROJECT.json`).

## 1. The system

| part | state it keeps | operations | talks to |
|---|---|---|---|
| AHB-Lite crossbar (`busfabric/ahbl_crossbar.v`, `ahbl_splitter.v`, `ahbl_arbiter.v`, `common/onehot_*.v`) | per master: decoded slave of the data phase, error phase; per slave: master in data phase, one request buffer per master, golden ticket | decode, arbitrate, buffer, issue, answer: all in every clock cycle | masters (instruction port, data port, DMA, accelerator, sample player), slaves (sram, bridge, DMA registers, XIP) |
| APB bridge and decode (`ahbl_to_apb.v`, `apb_splitter.v`) | FSM state, registered HREADYOUT/HRESP/HRDATA, PADDR, PWDATA | one APB access per AHB transfer, wait states, errors | crossbar, peripherals |
| XIP port (`peris/xip/ro_cache.v`, `ahbl_flash_ctrl_eb_cache.v`, `flash_ctrl_eb.v`) | cache (VALID, TAG, DATA), fetch in progress, landed words, prefetch line; handshake FSM; serial FSM and line buffer | hit, demand miss, deferred miss, prefetch, early restart, reset | crossbar (slave), flash chip, prefetch registers in the accelerator |
| XIP sample player (`peris/xip/xip_sample_player.v`) | sample index, sample buffer, bit counter | fetch a word from XIP, shift it out as I2S | crossbar (master), I2S receiver, two clock domains |
| Conv1D accelerator (`peris/conv1d_accel/conv1d_accel.v`) | configuration registers, FSM, position and channel counters, two input buffers, weight buffer, accumulator, master port | start, load weights/bias/shift/inputs, multiply, write, done | crossbar (master), firmware (registers) |
| Bus snooper (`peris/snooper/bus_snooper.v`) | ring of captured bridge transfers, one pending entry | latch, commit, read, reset | bridge signals, APB |
| SoC integration (`kws_soc.v`) | resets, address map, connection matrix, interrupt wiring | wiring | everything |
| KWS firmware (`test/common/kws_bare_main.c`) | audio ring, byte counter, window position, vote sums | interrupt handler; main loop wait / guard / copy / infer / vote / step | DMA controller, accelerator through `accel_conv1d.h` and `nnom_conv1d_hw.c`, UART |
| Streaming firmware (`test/model/streaming/`) | the same ring, per-layer history | hop-by-hop inference | as above |
| Heap (`test/common/malloc.c`) | free list | malloc, free, calloc | NNoM |
| Flash model (`sim/flashsim.cpp`) | command state, lanes, status and configuration register, memory, page buffer, shift registers, write timer | one call per clock edge: commands, address, data, CSN high | both benches, the flash controller of the XIP port |
| Microphone model (`sim/i2s_mic_sim.cpp`) | word and bit index, last SCK and WS | `step()` once per clock | both benches, the I2S receiver |
| Test benches (`kws_soc_tb.cpp` on CXXRTL, `kws_soc_vpi.cpp` on Verilator) | UART decoder; socket, receive and send buffer, JTAG pins; cycle count and quit flags | clock edges, flash calls, UART decode, microphone, JTAG commands | the whole SoC, OpenOCD over TCP or a replayed file |
| External: Hazard3, DMA controller, I2S, UART | submodules that are not in the repository | | |

What is hard about it, and makes it correct:

* **Crossbar.** Address and data phases overlap, every master runs on its own,
  and a request can be accepted from its master cycles before its slave takes
  it. Correct means: each transfer reaches its slave exactly once, the answer and
  the write data are that transfer's, no request is overwritten in a buffer, no
  set of masters waits for each other, an ERROR reaches the master whose transfer it
  answers and takes two cycles, and a port starves only behind ports of higher priority.
* **Bridge.** The write data comes one cycle after the address and is registered
  again; HREADY and HRESP are registered too. Correct means: each transfer is one APB access
  with its own address and data, in the APB protocol, and an access to a hole of the
  address map is an error to the master that made it.
* **XIP port.** Three state machines exchange one-cycle pulses and levels, words
  are readable before their line is, a prefetch shares the line buffer, and the
  reset clears only some of it. Correct means: a read returns what the flash holds,
  and every read ends.
* **Accelerator.** Loads run ahead of the multiplication, writes behind it, each
  with its own wait states. Correct means: memory holds the convolution when the
  layer is over, the done bit leaves at most the last write on the bus, each output is written
  once, nothing outside the arrays.
* **Firmware.** The DMA controller and the interrupt handler run between any two
  reads of the main loop, and between its test and WFI. Correct means: the window is one
  contiguous clip, no audio is skipped silently, a lost wake-up costs one burst, inference
  goes on for ever.
* **Simulation environment.** Controller and flash count the same clocks on their own
  and only one of them has a reset; commands of OpenOCD arrive in pieces of any
  size while the design's synchronisers need a clock between two edges. Correct means: the
  SoC reads what the flash holds, the flash behaves as a NOR flash does, what the UART
  sends is printed, the microphone's file arrives bit by bit, and OpenOCD gets each
  answer once, in order, for the pins it wrote.

`PROJECT.json` lists each hazard at its line with the properties that cover it.

## 2. The modules

| module | models | extends / instantiates |
|---|---|---|
| `AhblCrossbar` | splitters and arbiters; masters and slaves as environment | |
| `AhblCrossbarProofs` | theorems about it | `AhblCrossbar`, TLAPS |
| `MCAhblCrossbar` | instances for TLC | `AhblCrossbar` |
| `ApbBridge` | the bridge as a function of its inputs, PREADY and PSLVERR included | |
| `RegisterBus` | abstract: what a bridge promises | |
| `ApbBus` | the bridge behind one pipelined master; implements `RegisterBus` | `ApbBridge`, `RegisterBus` |
| `ApbBusProofs` | theorems about it, the refinement included | `ApbBus`, TLAPS |
| `XbarBridge`, `MCXbarBridge` | the bridge in a slave position of the crossbar, with reads, writes, errors and holes of the APB map; implements the crossbar's assumption about slaves | `AhblCrossbar`, `ApbBridge` |
| `XbarBridgeProofs` | theorems about the composition | `XbarBridge`, `AhblCrossbarProofs` |
| `XipCache` | cache, wrapper and flash controller | |
| `XipCacheProofs` | theorems about it | `XipCache`, TLAPS |
| `Conv1dAccel`, `MCConv1dAccel` | accelerator, driver's start, bus and memory | |
| `Conv1dAccelProofs` | theorems about the accelerator | `Conv1dAccel`, TLAPS |
| `AudioRing` | capture ring, interrupt handler, main loop | |
| `AudioRingProofs` | theorems about it | `AudioRing`, TLAPS |
| `FlashSim` | the flash model of the benches | |
| `FlashHost` | a host that uses all its commands, byte by byte (external) | `FlashSim` |
| `NorFlash` | abstract: what a NOR flash promises | |
| `FlashCtrl` | the XIP port's flash controller, clock by clock | |
| `UartMonitor` | the benches' UART decoder, with the UART as environment | |
| `I2SMicSim` | the microphone model, with the receiver as environment | |
| `RemoteBitbang` | the JTAG loop of both benches, socket, replay and client | |
| `SimBench`, `MCSimBench` | the benches' main loop; implements `NorFlash` | the device models, `NorFlash` |
| `FlashProofs` | theorems about the flash model, its controller and its host, the refinement included | `SimBench`, TLAPS |
| `BenchProofs` | theorems about UART decoder, microphone, JTAG loop and the types of the whole bench | `FlashProofs` |

### How they correspond to the code

The hardware modules are synchronous: **one step is one clock cycle**. All
registers change in one step (`Clock`), combinational wires are state functions
with the wire's name, and the inputs of a cycle are chosen with `\E`. A register
is a variable with its own name (`slave_sel_d`, `mast_gnt_d`, `fwv`, ...); one-hot
vectors become the element they select or `NoMaster`/`NoSlave`.

* `AhblCrossbar`: the address-phase signals are the slave they decode to, what else they
  carry (`Control`: an address and a direction in `XbarBridge`, nothing that matters in the
  runs of the crossbar alone) and a one-bit tag; the tag tells a transfer from the one before it, which is as many as
  one master can have in flight. `aphase`/`dphase` are the master's own view of its
  pipeline, `op` the slave's, and the properties relate the two. `issuedA` and
  `issuedD` are history variables that count how often slaves sampled a transfer.
  `Overlapping` names the masters that drive an address phase to one slave while
  their data phase is on another (the data port of the processor and the
  accelerator do; AHB-Lite allows it). A slave answers with `ready` and `resp`, its HREADYOUT
  and HRESP: it may wait, answer OKAY, or answer ERROR in two cycles (`SlaveAnswer`). `resp`
  goes through the arbiter to the master it remembers in `mast_gnt_d` (`arb_hresp`) and through
  the splitter, where `src_hresp` joins it with the error of an unmapped address.
  A master keeps its address phase through an ERROR, as the DMA controller does, which is not
  connected to HRESP (`kws_soc.v:520`); the cancelling that AHB-Lite allows is not modelled.
* `ApbBridge`: one CASE arm per state of the `case` in the RTL. `hready` is the
  bus HREADY the bridge sees, `hready_resp` its own output. A peripheral is a
  register file whose PREADY and PSLVERR are chosen each cycle.
* `XbarBridge`: `dst_request` is the address and the direction that the arbiter's muxes pass on,
  from the buffer or from the port; `dst_hwdata` follows the data-phase grant. `SplitterAnswers` is
  `apb_splitter.v`: a hole of the map is ready with PSLVERR at once. The bridge's HREADYOUT and HRESP are
  the arbiter's `ready` and `resp` of its position.
* `XipCache`: the flash content of a word is named by the line it belongs to, and
  `Junk` is anything else, so "reads the right data" is an equation. The shift
  register's serial phases become one `tick` that may come in any cycle; while a
  word is arriving its place in the line buffer may be `Junk`. `pf_valid` and
  `pf_addr` are one variable `pf_line`.
* `Conv1dAccel`: a byte is named by array and offset, the accumulator is the set of
  pairs multiplied into it with their number, a result is accumulator, bias and
  shift. `Expected` is the formula of `accel_conv1d.h:64-66` in those terms. There is
  one action per state of the FSM with the state's name. The bus in front of it is
  `BusStep`: it keeps the AHB-Lite pipeline and chooses HREADY. `StartLayer` is the
  driver's register writes for the next layer; it waits until the last write of the layer before has
  left the bus, which those writes leave it the time for.
* `AudioRing`: the unit is one DMA burst of 32 bytes; a burst is named by the value
  of `bytes_written` when it arrives. Each read of the volatile counter is a step of
  its own, each burst of the copy too. `Wait` is the test of the counter, `Wfi` the instruction
  after it, and the handler runs between them: an interrupt that is pending at WFI does not let it
  sleep, one that was served before it does. `next_daddr`, the handler, the guard and the
  step are the C expressions.
* `FlashSim`: `FlashCall` is one call of `FLASHSIM::operator()`: CSN high is `Deselect`,
  a falling SCK is `Shift`, which goes on to `Command` at the eighth bit, to `DataByte` at
  every later multiple of eight, or to `ContinuousAddress`. Status bits are a set. Timers
  run out in any call. A failed `assert` or a call of `exit` sets `aborted`. What lies past
  `m_mem` and in the uninitialised `m_pmem` is any of `UndefinedBytes`.
* `FlashCtrl`: `state`, `phase_tick` and the receive registers of `flash_ctrl_eb.v`; the table
  of phase lengths replaces the `case`. `SimBench!XipClock` connects its pins to
  `FlashCall`, and `WarmReset` resets it in any clock, as the debug module may.
* `UartMonitor`, `I2SMicSim`: one step is one clock; sender and receiver are the environment.
  A bit of the microphone is named by its word and place.
* `RemoteBitbang`: `pc` is the place in the loop. A step is one command, one refill, one
  accept or one clock. `bench` selects the program where the two differ: which
  commands end a cycle, when answers are sent, what the end of input does. An answer
  is named by the pin write it belongs to. A client closes at any time, with a reset of the
  connection if it has not read all; a send after that kills the program (SIGPIPE).
* `SimBench`: a behaviour exercises one of five: fetches of the XIP controller, the host, the UART,
  the microphone, JTAG. In the code all run in every cycle, but they share no state.

## 3. The runs

| run | checks | shows |
|---|---|---|
| `XbarSafety` | `IssuedExactlyOnce`, `AnswerIsForTransfer`, `WriteDataIsForTransfer`, `BufferIsStalledTransfer`, `NoCircularWait`, `ErrorIsForTransfer`, `TwoCycleError` | three ports (0 instruction, 1 data, 2 DMA) on sram and the bridge with the SoC's connections, slaves that answer OKAY or ERROR, the data port overlapping slaves, a mapped but unconnected pair and an unmapped address |
| `XbarDeadlock` | `NoCircularWait` (violated) | data port and accelerator, both overlapping, lock sram and XIP |
| `ApbBus` | `BridgeServes`, `ApbProtocol`, `EveryTransferEnds` | the bridge implements `RegisterBus` |
| `XbarBridge` | `WritesItsOwnData`, `AccessHasLanded`, `HoleGivesError`, `BridgeIsCrossbarSlave`, `PriorityOnlyStarves` | crossbar and bridge together under strict priority, masters that do not overlap; reads and writes of registers, peripheral errors, holes of the map; whoever is stalled for ever is outranked again and again |
| `XbarBridgeOverlap` | `WritesItsOwnData` (violated) | an overlapping store to the bridge is written with the data of another cycle |
| `XipCache` | `TypeOK`, `ReadsAreCorrect`, `ValidLinesAreComplete`, `NoPulseLost`, `EveryReadEnds` | two flash lines that compete for one cache line of two words |
| `Accel` | `OutputsCorrect`, `DoneLeavesLastWrite`, `EachOutputOnce`, `LoadsStayInArrays`, `AhbMaster`, `LayerEnds` | six layers one after another in any order |
| `AccelStall` | `OutputsCorrect` (violated) | a write that waits long enough is overwritten by the next result |
| `AudioRing` | `TypeOK`, `WindowIsOneClip`, `NoSilentGap`, `LostWakeUpCostsOneBurst`, `InferenceRecurs` | ring of two clips and two bursts, wrapping counters, a handler that runs between test and WFI |
| `AudioTorn` | `WindowIsOneClip` (violated) | ring only slightly longer than the clip: torn windows pass the guard |
| `SimBench` | `TypeOK`, `FlashAssertions`, `ReadsReturnMemory`, `PrintedIsSent`, `MicSendsAudio`, `AnswersInOrder`, `NoEdgeMissed`, `ImplementsNor`, `EveryReadAnswered` | the device models and both benches, one device at a time |
| `ReplayHang` | `ReplayEnds` (violated) | a replayed file that ends without a quit command never ends in the CXXRTL bench |

The type invariants of the crossbar, the bridge and the accelerator are in no run: theorems prove
them, and the properties above say more.

Every property of a passing run has a mutant of the code it depends on in
`PROJECT.json`; the mutated forms stand before the definitions they replace.

### Bounds, and why they are enough

* Crossbar: two slaves and three masters are the smallest instance with a slave
  that a master does not wait for and a master that is neither winner nor holder.
  The counters stop at 2 (`Cap`): "more than once" is all a property asks.
  All runs have the SoC's strict priority; the golden ticket of the arbiter's option
  `FAIR_ARBITRATION`, which the SoC leaves off, is in the theorems only.
  The runs with the bridge have two masters, for the winner and the one that waits, one register and
  one hole; a second register adds nothing, since a transfer's data names its transfer. The upper
  master reads the register, the lower one, whose requests wait longer, writes it and runs into the hole.
  The theorems below hold for any number of all of them and for either arbitration.
* Bridge: two registers of one bit distinguish address and data of consecutive
  transfers; one transfer in data phase and one in address phase are all there are.
* XIP: two tags on one index are a conflict, and a prefetch of the one while the other is in
  the cache is a hit under the fetch of another line; a second index adds lines that never meet.
  Two words make an early restart different from a complete line; a line of eight words is
  the same FSM with a longer count.
* Accelerator: `W_IDX = 2`, so buffers have four words; patches of 3, 4, 6, 8 and
  12 bytes at aligned and unaligned addresses take the word and the byte path and
  a partial last word; one to four positions take `S_MAC` and `S_MAC_OVLP`, the
  first, a middle and the last position; two channels take the outer loop.
  `MaxStall` bounds the wait states of writes: 2 in `Accel`, the most that `ShortWrites` below
  allows for the patch of one word; 3 in `AccelStall`, one more. The fabric promises no
  such bound: ports of higher priority may keep sram for longer, and `AccelStall` shows what
  happens then. Two is already enough for the done bit to come before the last output is in
  memory. Loads wait any time.
* Audio: `Clip` = 3, `Ring` = 8, `Wrap` = 32 bursts (250, 512 and 2^27 in the
  8 kHz build); `Wrap` is a multiple of `Ring`, as 2^32 is of 16384. `MaxLag` = 8 lets the
  DMA run further ahead than the guard allows and than the ring holds.
  `CopyBursts` = 1: one burst may start during the copy (the source states about
  ten bytes for it). At most one burst may start between the test and WFI, which are a few
  instructions. `AudioTorn` keeps the ratio of the 16 kHz build, a ring longer
  than the clip by less than a clip.
* Simulation environment: a flash of 16 bytes in two sectors of 8 and four pages of 4 (16 MB, 64 KB
  and 256 bytes). Its code only masks addresses with these sizes. A line of 8 bytes (32) has two
  words, so that a word that is marked early or late shows; `TRST_CYCLES` = 2 is a count that
  only waits. The host starts at the last byte of a page and programs two bytes, which
  wraps in the page, and reads on into the next. `EraseLimit` = 8 is the limit the model asserts
  (4 MB), scaled. Twenty clocks per bit let the decoder, whose bit may be one clock short, drift by
  eight of the ten clocks it may; with more clocks per bit the same rounding costs less. The
  bytes are all zeros, all ones, alternating and mixed. Two words of audio and
  two more slots cover the start, the change of words and the end of the file. Buffers and the
  socket hold two bytes, so that they fill, empty and split the stream everywhere, and the
  client has at most two reads in flight. `ClientBytes` and `FileBytes` have a command of each kind
  with TCK low and high. `MaxCycles` is 0 (no limit) in `SimBench` and 3 in `ReplayHang`.

### Fairness

* `MCXbarBridge!ClockedLiveSpec`: the clock runs, a peripheral in its access phase is not kept
  waiting for ever, and slaves other than the bridge are ready again and again. Nothing is assumed of
  the bridge's own HREADYOUT: that it answers follows from its FSM. XIP answers by
  `EveryReadEnds`. Nothing is assumed of the arbiter or of how long a master goes on with requests.
  `clk` changes in every clock, so that a fabric in which no register changes any more is a behaviour
  with steps, which the property refutes, and not one that merely stops.
* `ApbBus!LiveSpec`: the clock runs, the peripheral is ready again and again, and
  other slaves end their transfers.
* `XipCache!LiveSpec`: weak fairness of a clock cycle with a tick: a serial phase of
  `flash_ctrl_eb` is a count of clock cycles and always ends. Nothing is assumed of
  the master, of resets or of the prefetch registers.
* `Conv1dAccel!LiveSpec`: the clock runs and the bus ends every data phase.
* `AudioRing!LiveSpec`: the microphone does not stop, interrupts are enabled (the
  handler runs when a burst is in) and the main loop runs.
* `SimBench!Spec`: the bench's program takes its next step. Nothing is assumed of the client, of
  the socket or of a user with Ctrl-C; `accept` may block for ever.

## 4. What is proved

### The crossbar: `AhblCrossbarProofs`

`AhblCrossbarProofs` proves, for every set of masters and slaves, every
connection matrix, every set of driven addresses and overlapping masters, and both
arbitrations, from the assumptions named in `AhblCrossbar` (port numbers are
naturals, the distinguished values differ from ports, slaves and transfers):

| theorem | states |
|---|---|
| `TypeCorrect` | `Spec => []TypeOK` |
| `Invariant` | `Spec => []IndInv` |
| `ExactlyOnce` | `Spec => []IssuedExactlyOnce` |
| `AnswersBelong` | `Spec => []AnswerIsForTransfer` |
| `WriteDataBelongs` | `Spec => []WriteDataIsForTransfer` |
| `BufferNeverOverwritten` | `Spec => []BufferIsStalledTransfer` |
| `NoCircularWaitIfOneOverlaps` | at most one overlapping master implies `Spec => []NoCircularWait` |
| `CircularWaitIsForever` | a circular wait is never left |
| `ErrorsBelong` | `Spec => []ErrorIsForTransfer` |
| `ErrorTakesTwoCycles` | `Spec => TwoCycleError`: for errors of slaves, which are assumed to take two cycles at the slave, and of the decode |

None of the safety properties is inductive by itself: that an answer belongs to a
transfer depends on what the arbiter granted, the splitter latched and the buffer
holds, each in other cycles. `IndInv` is the conjunction of `TypeOK` and

* `DataPhaseMatches`: the splitter's registers describe the master's data phase;
* `NoOverlap`: a master that does not overlap has its address phase on the slave of
  its data phase, if it has both;
* `BufferedInDphase`: a buffered request is that master's data phase;
* `IssuedOrBuffered`: a transfer in data phase is in its arbiter's buffer or with its
  slave, never both for a master that does not overlap;
* `GrantServes`: the transfer a slave serves is of the master its arbiter remembers;
* `RespServes`: a slave answers ERROR only to a transfer it has;
* `CountMatches`: the issue counters agree with the place of the transfer.

There is one lemma per conjunct for the step, over lemmas that give the next value
of each register (`MasterCycle`, `SplitterCycle`, `SlaveCycle`, `BufferCycle`). The
priority encoder is a CHOOSE of the least requesting port; `LeastPort` proves it
exists for any set of naturals.

`NoCircularWaitIfOneOverlaps` and the run `XbarDeadlock` are two sides of one fact: the
fabric is free of circular waits exactly as long as at most one master overlaps, and
the SoC has two that do. By `CircularWaitIsForever` the state the run reaches is a deadlock
of the fabric that only a reset ends.

### The bridge: `ApbBusProofs`, `XbarBridgeProofs`

For any addresses, values and initial contents, and any wait states and error answers:

| theorem | states |
|---|---|
| `ApbBusProofs!TypeCorrect`, `Invariant` | `Spec => []TypeOK`, `Spec => []IndInv` |
| `ProtocolKept` | `Spec => ApbProtocol` |
| `BridgeImplements` | `Spec => BridgeServes`: every step of the bridge is one of `RegisterBus` or a stutter |

`IndInv` adds `ServesDphase` to the types: while the FSM is not idle there is a data phase, its
direction is the FSM's branch, and the registered address and data are its own. The
refinement needs nothing else: an access completes in the one cycle in which `RegisterBus` performs it.

For a crossbar of any size with the bridge in any slave position, if `OverlapKeepsOff`:

| theorem | states |
|---|---|
| `SocInvariant` | `SocSpec => []SocInv` |
| `BridgeIsSlave` | `SocSpec => BridgeIsCrossbarSlave` and the crossbar's `Spec` |
| `SocKeepsCrossbar` | `SocSpec =>` the crossbar's `TypeOK`, `IssuedExactlyOnce`, `AnswerIsForTransfer`, `WriteDataIsForTransfer`, `BufferIsStalledTransfer`, `ErrorIsForTransfer` and `TwoCycleError` |
| `DataIsOwn` | `SocSpec => []WritesItsOwnData` |
| `AccessesLand` | `SocSpec => []AccessHasLanded` |
| `HolesAnswerError` | `SocSpec => []HoleGivesError` |

`SocInv` is the crossbar's `IndInv`, that masters drive only what they are connected to,
`BridgeAnswers` (HREADYOUT and HRESP in each state of the FSM, the two error states included) and
`BridgeWorks`: where the data is in each state (with the master, in PWDATA or HRDATA, in
the register). `BridgeIsSlave` discharges the assumption the crossbar's theorems make about
slaves: the bridge waits, ends with OKAY or with an ERROR of two cycles, for peripherals that wait and
fail and for holes of the map, so that the theorems hold of the composition. `OverlapKeepsOff` says that no
master that may have its data phase on another slave drives the bridge. The SoC does not guarantee it: its data port does just that, and
`XbarBridgeOverlap` shows that `WritesItsOwnData` fails then. The theorem says that nothing else can break it.

### The XIP port: `XipCacheProofs`

For any tags, indices and number of words in a line, with prefetches, bus holds and resets at any time:

| theorem | states |
|---|---|
| `TypeCorrect`, `Invariant` | `Spec => []TypeOK`, `Spec => []IndInv` |
| `PulsesArrive` | `Spec => []NoPulseLost` |
| `LinesComplete` | `Spec => []ValidLinesAreComplete` |
| `ReadsCorrect` | `Spec => []ReadsAreCorrect` |

The three state machines have 2 x 4 x 4 control states and three pulses between them, of which
only seven combinations occur: `InStep` names them, and a step leads from one to itself or the
next. `BufferFollows` says what the line buffer and its word bits hold in each: before the
flash controller takes the start they are still those of the fetch before, and `word_done_d`
equals them, so that no stale bit looks like an edge. `DemandFetch` says that the line being
replaced is invalid, and that the words a master may restart with are this fetch's.
`NoPulseLost` is then immediate, `ValidLinesAreComplete` is inductive, and a hit of any of the
three kinds returns the right word.

### The accelerator: `Conv1dAccelProofs`

For any set of layers that fit the buffers (`ConfigAssumption`), any `W_IDX`, and loads that wait as they like:

| theorem | states | if |
|---|---|---|
| `TypeCorrect` | `Spec => []TypeOK` | |
| `LoadsInArrays` | `Spec => []LoadsStayInArrays` | `BytewiseFits` |
| `ControlInvariant` | `Spec => []ControlInv` | `ShortWrites` |
| `OutputsOnce` | `Spec => []EachOutputOnce` | `ShortWrites` |
| `PortIsMaster` | `Spec => AhbMaster` | `ShortWrites` |
| `DataInvariant`, `LayersCorrect` | `Spec => []DataInv`, `Spec => []OutputsCorrect` | `ShortWrites`, `BytewiseFits`, `InputsAligned` |
| `DoneKeepsLastWrite` | `Spec => []DoneLeavesLastWrite` | the same |

The hypotheses are the limits of the hardware, not of the proof:

* `ShortWrites`: a layer with more than one position has `MaxStall <= patch_words + 1`. The next
  result is on HWDATA `patch_words + 3` cycles after the address was accepted.
  `AccelStall` breaks `OutputsCorrect` with one wait state more. It bounds nothing for layers of one
  position: after their last write there is no next result.
* `BytewiseFits`: `buf_idx` has `W_IDX + 1` bits, and a filter loaded by bytes has no more
  bytes than it counts (see section 5).
* `InputsAligned`: `step` is a multiple of four. `accel_conv1d.h:69` asks the driver for
  word-aligned inputs; the loads ignore the lower address bits.

`Accel.cfg` satisfies all of them. The control invariant is the types with what the port drives in each state
(`PortDrives`, `DataPhase`, `Loops`), `WriteWaits` (how many cycles a write has waited in each
state, which is where `ShortWrites` enters) and `OutputsWritten` (an output is in memory if and
only if its position has been issued and it is not the write in flight; positions have
distinct addresses by `RowUnique`). The data invariant adds, for the
place in the loops, `Bursts` (the transfer in data phase is the word the index register expects, the
address is one ahead), `WeightsLoaded`, `InputsLoaded` (the active buffer holds this
position's patch, the other one as much of the next as `buf_idx` says), `Accumulated` (the products of
`4 * mac_idx` bytes), `Scaled` and `ResultsCorrect`. `LastWrite` is what is left on the bus from `S_WRITE_DATA`
of the last output on: at most that write, with its result on HWDATA, however long it waits.

### The audio ring: `AudioRingProofs`

For any clip, ring, step and bound on the lag, and counters that wrap at any multiple of two rings:

| theorem | states | if |
|---|---|---|
| `TypeCorrect`, `Invariant` | `Spec => []TypeOK`, `Spec => []IndInv` | |
| `WindowsWhole` | `Spec => []WindowIsOneClip` | `Room` |
| `GapsReported` | `Spec => []NoSilentGap` | |
| `OneBurstLate` | `Spec => []LostWakeUpCostsOneBurst` | |

`Room` is `2 * Clip + CopyBursts < Ring`: the window, the clip that the guard lets the DMA be ahead, the burst in
flight and what arrives during the copy. The 8 kHz build has 2 * 250 + 1 < 512. `AudioRing.cfg` has
the smallest ring that satisfies it, `AudioTorn` one that does not. The invariant holds without
`Room`; it says how the signed difference of the counters stays below half the wrap (`LagBounded`), that the
ring has the newest bursts in their slots (`RingHolds`), how many may be behind the window while it is copied
(`CopyInTime`), that the loop goes to sleep at most one burst after its test (`SleepInTime`), and where the window is relative to the last one (`WindowFollows`).

### The flash and its controller: `FlashProofs`

About `SimBench!Spec`, for any geometry with whole pages, sectors and words in a chip of 24-bit addresses, any
image, line length, reset time and content of what the model reads uninitialised:

| theorem | states |
|---|---|
| `NoAssertionFails` | `Spec => []FlashAssertions` |
| `ReadsAreMemory` | `Spec => []ReadsReturnMemory` |
| `FlashIsNor` | `Spec => ImplementsNor`: every call of the flash is a step of `NorFlash` or a stutter |

One invariant, `FlashInv`, gives all three. It is `FetchInv` for a behaviour of the controller and
`HostInv` for one of the host.

* `FetchInv`: controller and flash count the same clocks. `FlashFollows` says for each state of
  the controller which bits the shift register holds, in which mode and state the flash is, and which byte is on
  its way out at that `phase_tick`; `LineFollows` which bytes of the line are in. A warm reset leaves
  the flash in continuous read mode while the controller starts again with command 0x66:
  `Misread` is that the flash then takes the command for an address and a mode byte, and that this mode
  byte ends the continuous mode, so that command 0x99 is understood whatever the reset interrupted.
* `HostInv`: the place in the transfer and the command fix the flash's state, its lanes and its address
  (`CommandTaken`, `AddressFollows`); `Flags` ties the status bits to the state: no write runs
  asleep, a program or erase has been enabled, a write in progress is no longer enabled.

For the refinement three facts about the data are needed as well: a program stays in its page, because
`m_addr` wraps in it; a programmed byte is the old one with bits cleared; and an erase sets
exactly one aligned sector. Numbers are shifted and masked by arithmetic, since no module with a theorem
may reach the bitwise operators: a mask of low bits is a remainder, and `ByteOf` chooses the byte that
has the given bits.

### The benches' devices: `BenchProofs`

Also about `SimBench!Spec`. Each device runs by itself in it, since they share nothing (`DevicesRun`):

| theorem | states | if |
|---|---|---|
| `UartPrints` | `Spec => []PrintedIsSent` | `LongBits` |
| `MicSends` | `Spec => []MicSendsAudio` | |
| `EdgesSeen` | `Spec => []NoEdgeMissed` | |
| `AnswersOrdered` | `Spec => []AnswersInOrder` | |
| `TypeCorrect` | `Spec => []TypeOK` | |

`LongBits` is a bit time of at least sixteen clocks. The decoder rounds its bit down to whole clocks, and the
last data bit is sampled up to eight clocks early; half a bit must be as much. The invariant gives the timer
and the bits collected from the transmitter's clock. `MicSends` follows the receiver's slot and position
through the microphone's word and bit index, for any number of words. `AnswersOrdered` says of the bytes on their
way to the bench that there are two functions over them, the number of requests and the pins
after each byte, which agree with what the client still expects (`InTransit`); each of a byte
sent, moved between buffers, taken, answered and received keeps such functions in existence. With that
go `TdoFollows` (TDO answers the last pin write when a command is taken) and
`NothingLeft` (a new client finds the buffers empty).

`TypeCorrect` covers the bench and all its devices. Not inductive by itself: the decoder's byte stays below 256 because
it has only the bits below its state (`UartTypes`), the send buffer is within its size because a full one is sent at
once (`BitbangTypes`), the microphone's word is in the file by `MicInv`, and the flash's registers follow from `FlashInv`.

### Assumptions

The proofs use only the assumptions named in the modules. Most say that a distinguished value (`None`,
`NoRequest`, `Junk`, `Zero`, ...) is none of the values it is distinguished from; the others that sizes are natural
numbers, that layers fit the buffers (`ConfigAssumption`), that a flash has whole
pages, sectors and words and at most 2^24 bytes (`GeometryAssumption`), that lines lie in it (`LinesAssumption`), that a ring is longer than a clip and
the counters wrap at a multiple of two rings (`SizeAssumption`, `WrapAssumption`), and that bytes are bytes.
TLC evaluates all of them.

### Only model-checked

* All liveness: temporal proofs under fairness are beyond the prover.
* The violations of section 5 and the limits they show: that a bound of a theorem (`ShortWrites`, `Room`,
  `OverlapKeepsOff`, at most one overlapping master) cannot be dropped is what the runs that expect a violation
  show, on one instance each.

Every invariant and every safety action property of a passing run is stated by a theorem; the
liveness properties `EveryTransferEnds`, `PriorityOnlyStarves`, `EveryReadEnds`, `LayerEnds`, `InferenceRecurs` and
`EveryReadAnswered` are not.

## 5. Findings

1. `XbarBridgeOverlap`: the fabric issues an address phase before its master's HREADY
   accepts it, and the bridge takes the write data of the wrong cycle. The
   bug report `docs/2port_dport_bridge_bug.md` rules the fabric out.
2. `XbarDeadlock`: the same early issue lets the data port and the accelerator deadlock.
3. `AccelStall`: a posted result is overwritten on HWDATA when its write waits.
4. `AudioTorn`: the loss guard does not fit the ring in builds with `KWS_DS_EN=0`.
5. `ReplayHang`: the CXXRTL bench spins for ever at the end of a replayed file, whatever `--cycles`
   says (`kws_soc_tb.cpp:469`); the Verilator bench exits.

Divergences seen while modelling that no run states:

* The arbiter is called round-robin (`peris/conv1d_accel/DESIGN.md:179`); the crossbar
  leaves `FAIR_ARBITRATION` at 0 (`ahbl_crossbar.v:252-257`), strict priority, and a port waits for
  ever behind lower numbers that keep its slave busy: with `[]<>src_hready(i)` in the place of
  `PriorityOnlyStarves` the run `XbarBridge` ends with a loop in which the lower master is never
  served. The property says that nothing else does this: not a lost request, not an idle slave, not a
  port of less priority.
* The driver "blocks until done" (`test/common/accel_conv1d.h:8`), but the done bit is set two clocks after
  the address of the last output was accepted, without a look at HREADY (`conv1d_accel.v:671`). A write that
  waits for two clocks is still on the bus when the bit can be read: in the instance of `Accel` the
  invariant "done means every output is in memory" fails, and `DoneLeavesLastWrite` is what holds instead.
  The processor needs some clocks from the bit to its first load, but outranks the accelerator.
* `peris/xip/DESIGN.md:68` says a reset clears `VALID`; the reset branch
  (`ro_cache.v:183-191`) does not, only the initial block. Reads stay correct.
* An armed prefetch is dispatched although the enable bit has been cleared
  (`ro_cache.v:224` against `DESIGN.md:292-296`).
* A read in a region that is mapped but not connected for a master answers OKAY at once
  (`ahbl_splitter.v:99-100`).
* `docs/audio_loss_analysis.md:33-36` says the window tracks the capture without drift;
  bursts between the end of an iteration and the start of the next are in no step.
* The write timer of the flash model clears more than WIP: `m_sreg &= 0x0fc` (`sim/flashsim.cpp:161`,
  "Clear the write in progress bit") also clears WEL and the deep power down flag. A host
  that keeps to the data sheet sends nothing but register reads while the timer runs and does not notice.
* A TRST pulse can be lost in the CXXRTL bench: 't' and 'u' do not end the cycle
  (`kws_soc_tb.cpp:417-419`), while the Verilator bench ends it with every pin write
  (`kws_soc_vpi.cpp:331-341`). `NoEdgeMissed` therefore speaks of TRST only there.
* `SECTOR_ERASE` asserts an address below 4 MB (`sim/flashsim.cpp:627`), although both benches make a
  chip of 16 MB. The host of the model erases below that limit.
* Byte-wise weight loads above 128 bytes never end (`conv1d_accel.v:412`, 7-bit `buf_idx`).

## 6. Not modelled, and the plan

Not modelled: the arithmetic of requantisation, exclusive
accesses, UART output of the firmware, build files, vendored and generated code, and
the external submodules except as environment (see `components` in `PROJECT.json`).
Of the simulation environment: option parsing, the VCD, FST and SAIF writers (`SaifWriter` in
`kws_soc_vpi.cpp`), debug prints and the heartbeat, which have no effect on the design, and
`FLASHSIM::simtick`, which neither bench calls. The `read error` exit of the CXXRTL bench and the
reset of a connection are modelled, errors of `listen`, `accept` and `bind` are not.
Writes to the accelerator's registers during a layer, layers beyond its buffer sizes and
unaligned inputs are excluded by `ConfigAssumption` and the chosen layers.

The order of the work, most important behaviour first:

1. Done: crossbar with proofs, bridge with its abstract specification, their
   composition, XIP port, accelerator, audio ring, simulation environment with the flash
   controller.
2. `Conv1dAccel` on the real crossbar (it is an overlapping master); the lag of the audio
   window under a bound on the length of an iteration; soft vote and print gate.
3. `SamplePlayer` (two clock domains), `BusSnooper`, `Heap` (free list, no overlap, no lost
   byte), the streaming firmware's hop consumer. The
   small components share a run whose initial state picks the one that is active.
4. Proofs: done for every safety property that a passing run checks. Left:
   `CircularWaitIsForever` for the instance of
   `XbarDeadlock`; that `AccelStall`'s bound is the first that fails, for every patch; theorems about
   the modules of 2 and 3.
