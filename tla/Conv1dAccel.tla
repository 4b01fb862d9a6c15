----------------------------- MODULE Conv1dAccel -----------------------------
(***************************************************************************)
(* The convolution accelerator (peris/conv1d_accel/conv1d_accel.v): its    *)
(* control FSM, its AHB-Lite master port, the ping-pong input buffers and  *)
(* the multiply-accumulate loop, on a bus with arbitrary wait states.      *)
(*                                                                         *)
(* One step is one clock cycle. Data is named by where it comes from: a    *)
(* byte of memory is an array and an offset in it, the accumulator is the  *)
(* set of the pairs of bytes it has multiplied and added, a result is the  *)
(* accumulator with the bias and the shift it was scaled by. The values of *)
(* the configuration registers are constant while a layer is computed.     *)
(***************************************************************************)
EXTENDS Integers

CONSTANTS Configs,   \* the layers: sizes and alignments
          W_IDX,     \* width of mac_idx, wt_word_idx and patch_words (6)
          MaxStall,  \* wait states the bus may give a write
          None,      \* no data phase, no value
          Zero       \* the byte 0

Config == [c_out : Nat \ {0}, w_out : Nat \ {0},
           patch_bytes : Nat \ {0},  \* K_w * C_in
           step : Nat,               \* stride * C_in
           wt : 0..3, shift : 0..3]  \* alignment of the weight and shift arrays

BufWords == 2 ^ W_IDX

ASSUME WidthAssumption == W_IDX \in Nat \ {0} /\ BufWords \in Nat
ASSUME StallAssumption == MaxStall \in Nat

\* A patch fits the buffers with a word to spare: patch_words is not truncated.
ASSUME ConfigAssumption ==
    /\ Configs \subseteq Config
    /\ \A c \in Configs : c.patch_bytes <= 4 * (BufWords - 1)

VARIABLES
    cfg,          \* the configuration registers
    state,
    r_busy, r_done,
    bus,          \* the master port: htrans, haddr, hwrite, hwdata
    r_wait,
    w_pos, c_pos, buf_idx, mac_idx, wt_word_idx,
    in_buf,       \* in_buf0 and in_buf1
    wt_buf,
    buf_sel, mac_done, load_done,
    acc, bias_val, cur_shift,
    dphase,       \* the transfer in data phase
    hready,       \* HREADY in this cycle
    stalled,      \* wait states of the write in data phase so far
    out           \* the output array, None where nothing was written

counters == <<w_pos, c_pos, buf_idx, mac_idx, wt_word_idx>>
buffers == <<in_buf, wt_buf>>
flags == <<r_busy, r_done, buf_sel, mac_done, load_done>>
datapath == <<acc, bias_val, cur_shift>>
vars == <<cfg, state, bus, r_wait, counters, buffers, flags, datapath,
          dphase, hready, stalled, out>>

Buffer == 0 .. BufWords - 1
patch_words == ((cfg.patch_bytes + 3) \div 4) % BufWords

\* What a buffer holds before it is filled, and HRDATA without a read.
Undriven == [of |-> "undriven", at |-> 0]

\* The word on HRDATA: memories answer with the aligned word.
hrdata ==
    IF dphase = None \/ dphase.hwrite THEN Undriven
    ELSE [of |-> dphase.haddr.of, at |-> dphase.haddr.at - (dphase.haddr.at % 4)]

Lane(word, l) == [of |-> word.of, at |-> word.at + l]

\* One lane of a word, picked by the low bits of the byte address it was read with.
Byte(lane) == Lane(hrdata, lane % 4)

\* The last index of a load or of the multiplication, in the width of the index.
LastWord == (patch_words - 1) % BufWords
LastIn == (patch_words - 1) % (2 * BufWords)

-----------------------------------------------------------------------------
(* The master port.                                                        *)

Read(array, offset) ==
    bus' = [bus EXCEPT !.htrans = TRUE, !.hwrite = FALSE,
                       !.haddr = [of |-> array, at |-> offset]]
Advance(n) == bus' = [bus EXCEPT !.htrans = TRUE, !.haddr.at = @ + n]
Release == bus' = [bus EXCEPT !.htrans = FALSE]

\* The first HREADY of a load accepts its first address, later ones bring data.
Accepted == hready /\ r_wait
Arrived == hready /\ ~r_wait

-----------------------------------------------------------------------------
(* The states of the FSM.                                                  *)

Start(c) ==
    /\ state = "IDLE"
    /\ cfg' = c /\ r_busy' = TRUE /\ r_done' = FALSE /\ state' = "INIT"
    /\ out' = [o \in 0 .. c.w_out * c.c_out - 1 |-> None]
    /\ Release
    /\ UNCHANGED <<r_wait, counters, buffers, buf_sel, mac_done, load_done, datapath>>

S_IDLE ==
    /\ state = "IDLE" /\ Release
    /\ UNCHANGED <<cfg, state, r_wait, counters, buffers, flags, datapath>>

S_INIT ==
    /\ state = "INIT" /\ state' = "WT_ADDR"
    /\ w_pos' = 0 /\ c_pos' = 0 /\ buf_sel' = 0
    /\ UNCHANGED <<cfg, bus, r_wait, buf_idx, mac_idx, wt_word_idx, buffers,
                   r_busy, r_done, mac_done, load_done, datapath>>

wt_addr == cfg.wt + c_pos * cfg.patch_bytes

ClearedLastWord ==
    [wt_buf EXCEPT ![LastWord] = [l \in 0..3 |-> Zero]]

\* Whole aligned words are loaded by words, anything else by bytes.
S_WT_ADDR ==
    /\ state = "WT_ADDR" /\ Read("wt", wt_addr) /\ r_wait' = TRUE
    /\ IF wt_addr % 4 = 0 /\ cfg.patch_bytes % 4 = 0
       THEN state' = "WT_DATA_W" /\ wt_word_idx' = 0 /\ UNCHANGED <<buf_idx, wt_buf>>
       ELSE state' = "WT_DATA" /\ buf_idx' = 0 /\ wt_buf' = ClearedLastWord
            /\ UNCHANGED wt_word_idx
    /\ UNCHANGED <<cfg, w_pos, c_pos, mac_idx, in_buf, flags, datapath>>

S_WT_DATA_W ==
    /\ state = "WT_DATA_W"
    /\ \/ ~hready /\ UNCHANGED <<state, bus, r_wait, wt_word_idx, wt_buf>>
       \/ Accepted /\ Advance(4) /\ r_wait' = FALSE /\ UNCHANGED <<state, wt_word_idx, wt_buf>>
       \/ /\ Arrived /\ UNCHANGED r_wait
          /\ wt_buf' = [wt_buf EXCEPT ![wt_word_idx] = [l \in 0..3 |-> Lane(hrdata, l)]]
          /\ IF wt_word_idx = LastWord
             THEN Release /\ state' = "BIAS_ADDR" /\ UNCHANGED wt_word_idx
             ELSE Advance(4) /\ wt_word_idx' = (wt_word_idx + 1) % BufWords /\ UNCHANGED state
    /\ UNCHANGED <<cfg, w_pos, c_pos, buf_idx, mac_idx, in_buf, flags, datapath>>

S_WT_DATA ==
    /\ state = "WT_DATA"
    /\ \/ ~hready /\ UNCHANGED <<state, bus, r_wait, buf_idx, wt_buf>>
       \/ Accepted /\ Advance(1) /\ r_wait' = FALSE /\ UNCHANGED <<state, buf_idx, wt_buf>>
       \/ /\ Arrived /\ UNCHANGED r_wait
          /\ wt_buf' = [wt_buf EXCEPT ![(buf_idx \div 4) % BufWords][buf_idx % 4] =
                           Byte(wt_addr + buf_idx)]
          /\ IF buf_idx = cfg.patch_bytes - 1
             THEN Release /\ state' = "BIAS_ADDR" /\ UNCHANGED buf_idx
             ELSE Advance(1) /\ buf_idx' = (buf_idx + 1) % (2 * BufWords) /\ UNCHANGED state
    /\ UNCHANGED <<cfg, w_pos, c_pos, mac_idx, wt_word_idx, in_buf, flags, datapath>>

S_BIAS_ADDR ==
    /\ state = "BIAS_ADDR" /\ state' = "BIAS_DATA"
    /\ Read("bias", 4 * c_pos) /\ r_wait' = TRUE
    /\ UNCHANGED <<cfg, counters, buffers, flags, datapath>>

\* A single read is kept on the bus until its data arrives.
S_BIAS_DATA ==
    /\ state = "BIAS_DATA"
    /\ \/ ~hready /\ UNCHANGED <<state, bus, r_wait, bias_val>>
       \/ Accepted /\ r_wait' = FALSE /\ UNCHANGED <<state, bus, bias_val>>
       \/ /\ Arrived /\ bias_val' = hrdata /\ state' = "SHIFT_DATA"
          /\ Read("shift", cfg.shift + c_pos) /\ r_wait' = TRUE
    /\ UNCHANGED <<cfg, counters, buffers, flags, acc, cur_shift>>

NoProducts == [n |-> 0, pairs |-> {}]

S_SHIFT_DATA ==
    /\ state = "SHIFT_DATA"
    /\ \/ ~hready /\ UNCHANGED <<state, bus, r_wait, cur_shift, acc>>
       \/ Accepted /\ r_wait' = FALSE /\ UNCHANGED <<state, bus, cur_shift, acc>>
       \/ /\ Arrived /\ Release /\ state' = "IN_ADDR" /\ acc' = NoProducts
          /\ cur_shift' = Byte(cfg.shift + c_pos) /\ UNCHANGED r_wait
    /\ UNCHANGED <<cfg, counters, buffers, flags, bias_val>>

S_IN_ADDR ==
    /\ state = "IN_ADDR" /\ state' = "IN_DATA"
    /\ Read("src", w_pos * cfg.step) /\ r_wait' = TRUE /\ buf_idx' = 0
    /\ UNCHANGED <<cfg, w_pos, c_pos, mac_idx, wt_word_idx, buffers, flags, datapath>>

\* The address phase of the patch of output position w, and reset counters.
Overlap(w) ==
    /\ state' = "MAC_OVLP" /\ Read("src", w * cfg.step)
    /\ r_wait' = TRUE /\ buf_idx' = 0 /\ mac_idx' = 0
    /\ mac_done' = FALSE /\ load_done' = FALSE

S_IN_DATA ==
    /\ state = "IN_DATA"
    /\ \/ /\ ~hready
          /\ UNCHANGED <<state, bus, r_wait, buf_idx, mac_idx, in_buf, mac_done, load_done>>
       \/ /\ Accepted /\ Advance(4) /\ r_wait' = FALSE
          /\ UNCHANGED <<state, buf_idx, mac_idx, in_buf, mac_done, load_done>>
       \/ /\ Arrived /\ in_buf' = [in_buf EXCEPT ![buf_sel][buf_idx] = hrdata]
          /\ IF buf_idx # LastIn
             THEN /\ Advance(4) /\ buf_idx' = (buf_idx + 1) % (2 * BufWords)
                  /\ UNCHANGED <<state, r_wait, mac_idx, mac_done, load_done>>
             ELSE IF cfg.w_out > 1 THEN Overlap(1)
             ELSE /\ Release /\ state' = "MAC" /\ mac_idx' = 0
                  /\ UNCHANGED <<r_wait, buf_idx, mac_done, load_done>>
    /\ UNCHANGED <<cfg, w_pos, c_pos, wt_word_idx, wt_buf, r_busy, r_done, buf_sel, datapath>>

\* mac4: the products of the four lanes; a zero weight adds nothing.
lanes == {l \in 0..3 : wt_buf[mac_idx][l] # Zero}

mac4 ==
    [n |-> acc.n + (IF 0 \in lanes THEN 1 ELSE 0) + (IF 1 \in lanes THEN 1 ELSE 0)
                 + (IF 2 \in lanes THEN 1 ELSE 0) + (IF 3 \in lanes THEN 1 ELSE 0),
     pairs |-> acc.pairs \cup
        {<<Lane(in_buf[buf_sel][mac_idx], l), wt_buf[mac_idx][l]>> : l \in lanes}]

S_MAC ==
    /\ state = "MAC" /\ Release /\ acc' = mac4
    /\ IF mac_idx = LastWord
       THEN state' = "WRITE_ADDR" /\ UNCHANGED mac_idx
       ELSE mac_idx' = (mac_idx + 1) % BufWords /\ UNCHANGED state
    /\ UNCHANGED <<cfg, r_wait, w_pos, c_pos, buf_idx, wt_word_idx, buffers, flags,
                   bias_val, cur_shift>>

\* MUTANT: the load fills the buffer that is being multiplied.
inactive_Active == buf_sel

inactive == 1 - buf_sel

MacSide ==
    IF mac_done THEN UNCHANGED <<acc, mac_idx, mac_done>>
    ELSE /\ acc' = mac4
         /\ IF mac_idx = LastWord
            THEN mac_done' = TRUE /\ UNCHANGED mac_idx
            ELSE mac_idx' = (mac_idx + 1) % BufWords /\ UNCHANGED mac_done

LoadSide ==
    IF load_done \/ ~hready THEN UNCHANGED <<bus, r_wait, buf_idx, in_buf, load_done>>
    ELSE IF r_wait
    THEN Advance(4) /\ r_wait' = FALSE /\ UNCHANGED <<buf_idx, in_buf, load_done>>
    ELSE /\ in_buf' = [in_buf EXCEPT ![inactive][buf_idx] = hrdata]
         /\ UNCHANGED r_wait
         /\ IF buf_idx = LastIn
            THEN load_done' = TRUE /\ Release /\ UNCHANGED buf_idx
            ELSE /\ Advance(4) /\ buf_idx' = (buf_idx + 1) % (2 * BufWords)
                 /\ UNCHANGED load_done

\* MUTANT: the state is left only if both sides end in the same cycle.
OverlapEnds_SameCycle == ~mac_done /\ ~load_done /\ mac_done' /\ load_done'

OverlapEnds == mac_done /\ load_done

S_MAC_OVLP ==
    /\ state = "MAC_OVLP" /\ MacSide /\ LoadSide
    /\ state' = IF OverlapEnds THEN "WRITE_ADDR" ELSE state
    /\ UNCHANGED <<cfg, w_pos, c_pos, wt_word_idx, wt_buf, r_busy, r_done, buf_sel,
                   bias_val, cur_shift>>

S_WRITE_ADDR ==
    /\ state = "WRITE_ADDR" /\ state' = "WRITE_DATA"
    /\ bus' = [htrans |-> TRUE, hwrite |-> TRUE,
               haddr |-> [of |-> "dst", at |-> w_pos * cfg.c_out + c_pos],
               hwdata |-> [acc |-> acc, bias |-> bias_val, shift |-> cur_shift]]
    /\ UNCHANGED <<cfg, r_wait, counters, buffers, flags, datapath>>

\* MUTANT: the address of the result is dropped without HREADY.
WriteAccepted_Always == TRUE

WriteAccepted == hready

S_WRITE_DATA ==
    /\ state = "WRITE_DATA"
    /\ IF WriteAccepted
       THEN state' = "ADVANCE" /\ bus' = [bus EXCEPT !.htrans = FALSE, !.hwrite = FALSE]
       ELSE UNCHANGED <<state, bus>>
    /\ UNCHANGED <<cfg, r_wait, counters, buffers, flags, datapath>>

last_w == cfg.w_out - 1

\* MUTANT: one output channel more.
last_c_OffByOne == cfg.c_out

last_c == cfg.c_out - 1

\* The next output position, the next output channel, or the end of the layer.
S_ADVANCE ==
    /\ state = "ADVANCE"
    /\ IF w_pos < last_w
       THEN /\ w_pos' = w_pos + 1 /\ acc' = NoProducts /\ buf_sel' = 1 - buf_sel
            /\ IF w_pos + 1 < last_w
               THEN Overlap(w_pos + 2)
               ELSE /\ mac_idx' = 0 /\ state' = "MAC"
                    /\ UNCHANGED <<bus, r_wait, buf_idx, mac_done, load_done>>
            /\ UNCHANGED c_pos
       ELSE /\ w_pos' = 0
            /\ IF c_pos < last_c
               THEN c_pos' = c_pos + 1 /\ acc' = NoProducts /\ buf_sel' = 0 /\ state' = "WT_ADDR"
               ELSE state' = "DONE" /\ UNCHANGED <<c_pos, acc, buf_sel>>
            /\ UNCHANGED <<bus, r_wait, buf_idx, mac_idx, mac_done, load_done>>
    /\ UNCHANGED <<cfg, wt_word_idx, buffers, r_busy, r_done, bias_val, cur_shift>>

S_DONE ==
    /\ state = "DONE" /\ state' = "IDLE" /\ Release
    /\ r_busy' = FALSE /\ r_done' = TRUE
    /\ UNCHANGED <<cfg, r_wait, counters, buffers, buf_sel, mac_done, load_done, datapath>>

-----------------------------------------------------------------------------
(* The bus: one transfer in data phase, accepted addresses follow it. The  *)
(* memory takes the write data that is driven when HREADY ends the write.  *)

Init ==
    /\ cfg \in Configs /\ state = "IDLE" /\ r_busy = FALSE /\ r_done = FALSE
    /\ bus = [htrans |-> FALSE, hwrite |-> FALSE, haddr |-> [of |-> "src", at |-> 0],
              hwdata |-> None]
    /\ r_wait = FALSE
    /\ w_pos = 0 /\ c_pos = 0 /\ buf_idx = 0 /\ mac_idx = 0 /\ wt_word_idx = 0
    /\ in_buf = [b \in 0..1 |-> [x \in Buffer |-> Undriven]]
    /\ wt_buf = [x \in Buffer |-> [l \in 0..3 |-> Undriven]]
    /\ buf_sel = 0 /\ mac_done = FALSE /\ load_done = FALSE
    /\ acc = NoProducts /\ bias_val = None /\ cur_shift = None
    /\ dphase = None /\ hready = TRUE /\ stalled = 0
    /\ out = [o \in {} |-> None]

WriteEnds == dphase # None /\ dphase.hwrite /\ hready

BusStep ==
    /\ dphase' = IF ~hready THEN dphase
                 ELSE IF bus.htrans THEN [haddr |-> bus.haddr, hwrite |-> bus.hwrite]
                 ELSE None
    /\ stalled' = IF hready THEN 0
                  ELSE IF dphase.hwrite THEN stalled + 1 ELSE stalled
    /\ hready' \in
          IF dphase' = None \/ (dphase'.hwrite /\ stalled' = MaxStall) THEN {TRUE} ELSE BOOLEAN

MemoryStep ==
    out' = IF WriteEnds THEN [out EXCEPT ![dphase.haddr.at] = bus.hwdata] ELSE out

Busy ==
    \/ S_INIT \/ S_WT_ADDR \/ S_WT_DATA_W \/ S_WT_DATA \/ S_BIAS_ADDR \/ S_BIAS_DATA
    \/ S_SHIFT_DATA \/ S_IN_ADDR \/ S_IN_DATA \/ S_MAC \/ S_MAC_OVLP
    \/ S_WRITE_ADDR \/ S_WRITE_DATA \/ S_ADVANCE \/ S_DONE

Clock == (S_IDLE \/ Busy) /\ BusStep /\ MemoryStep

\* Firmware starts a layer only when it has seen the one before done. It writes the
\* configuration registers first, and the last write has left the bus by then.
StartLayer == (\E c \in Configs : Start(c)) /\ dphase = None /\ BusStep

Next == Clock \/ StartLayer

Spec == Init /\ [][Next]_vars

\* The clock runs and the bus ends every data phase.
LiveSpec == Spec /\ WF_vars(Clock) /\ WF_vars(Clock /\ hready')

-----------------------------------------------------------------------------
Word == [of : {"src", "wt", "bias", "shift", "undriven"}, at : Nat]
Result == [acc : [n : Nat, pairs : SUBSET (Word \X (Word \cup {Zero}))], bias : Word, shift : Word]
Transfer == [haddr : [of : {"src", "wt", "bias", "shift", "dst"}, at : Nat], hwrite : BOOLEAN]

ASSUME NoneAssumption == None \notin Transfer \cup Result \cup Word
ASSUME ZeroAssumption == Zero \notin Word

TypeOK ==
    /\ cfg \in Configs
    /\ state \in {"IDLE", "INIT", "WT_ADDR", "WT_DATA_W", "WT_DATA", "BIAS_ADDR", "BIAS_DATA",
                  "SHIFT_DATA", "IN_ADDR", "IN_DATA", "MAC", "MAC_OVLP", "WRITE_ADDR",
                  "WRITE_DATA", "ADVANCE", "DONE"}
    /\ r_busy \in BOOLEAN /\ r_done \in BOOLEAN /\ r_wait \in BOOLEAN
    /\ r_busy <=> state # "IDLE"
    /\ bus.htrans \in BOOLEAN /\ [haddr |-> bus.haddr, hwrite |-> bus.hwrite] \in Transfer
    /\ w_pos \in Nat /\ c_pos \in Nat
    /\ state \notin {"IDLE", "INIT"} => w_pos < cfg.w_out /\ c_pos < cfg.c_out
    /\ buf_idx \in 0 .. 2 * BufWords - 1
    /\ mac_idx \in Buffer /\ wt_word_idx \in Buffer
    /\ \A b \in 0..1, x \in Buffer : in_buf[b][x] \in Word
    /\ \A x \in Buffer, l \in 0..3 : wt_buf[x][l] \in Word \cup {Zero}
    /\ buf_sel \in 0..1 /\ mac_done \in BOOLEAN /\ load_done \in BOOLEAN
    /\ bias_val \in Word \cup {None} /\ cur_shift \in Word \cup {None}
    /\ dphase \in Transfer \cup {None} /\ hready \in BOOLEAN /\ stalled \in 0 .. MaxStall

\* The value of output position w and channel c: the products of the bytes of the
\* patch and of the filter, each exactly once, with the channel's bias and shift.
Expected(w, c) ==
    [acc |-> [n |-> cfg.patch_bytes,
              pairs |-> {<<[of |-> "src", at |-> w * cfg.step + b],
                           [of |-> "wt", at |-> cfg.wt + c * cfg.patch_bytes + b]>> :
                             b \in 0 .. cfg.patch_bytes - 1}],
     bias |-> [of |-> "bias", at |-> 4 * c],
     shift |-> [of |-> "shift", at |-> cfg.shift + c]]

\* When the done bit is set and the bus is quiet, memory holds the convolution
\* accel_conv1d.h:64-66 states: each output is computed from its own patch, filter,
\* bias and shift, whatever the wait states of the loads that run ahead of the
\* multiplication and of the writes behind it.
OutputsCorrect ==
    r_done /\ dphase = None =>
        \A w \in 0 .. cfg.w_out - 1, c \in 0 .. cfg.c_out - 1 :
            out[w * cfg.c_out + c] = Expected(w, c)

\* The done bit does not promise that every output is in memory, although the driver
\* hands over to the reader of the outputs as soon as it sees the bit
\* (accel_conv1d.h:8,115). It promises it of all but the last one, whose write the
\* bus has accepted and whose result stays on HWDATA until the write ends, however
\* long that takes. conv1d_accel.v:611-617,665-675.
DoneLeavesLastWrite ==
    r_done => \A o \in DOMAIN out : out[o] = None =>
        /\ o = cfg.w_out * cfg.c_out - 1
        /\ dphase # None /\ dphase.hwrite /\ dphase.haddr.at = o
        /\ bus.hwdata = Expected(cfg.w_out - 1, cfg.c_out - 1)

\* Every output byte is written once, and nothing outside the output array is.
EachOutputOnce ==
    WriteEnds => dphase.haddr.at \in DOMAIN out /\ out[dphase.haddr.at] = None

\* A load never runs further than one word past the end of its array: the address
\* that is primed behind the last word of a burst. conv1d_accel.v:365,493,569.
LoadsStayInArrays ==
    bus.htrans /\ ~bus.hwrite =>
        bus.haddr.at <= CASE bus.haddr.of = "src" -> (cfg.w_out - 1) * cfg.step + 4 * patch_words
                          [] bus.haddr.of = "wt" -> cfg.wt + cfg.c_out * cfg.patch_bytes
                          [] bus.haddr.of = "bias" -> 4 * (cfg.c_out - 1)
                          [] bus.haddr.of = "shift" -> cfg.shift + cfg.c_out - 1

\* The port is an AHB-Lite master as the crossbar assumes one: an address phase
\* stays as it is until HREADY accepts it, and write data until HREADY ends it.
AhbMaster ==
    [][/\ bus.htrans /\ ~hready =>
             /\ bus'.htrans /\ bus'.haddr = bus.haddr /\ bus'.hwrite = bus.hwrite
       /\ dphase # None /\ dphase.hwrite /\ ~hready => bus'.hwdata = bus.hwdata]_vars

\* Every layer that is started ends.
LayerEnds == r_busy ~> r_done
=============================================================================
