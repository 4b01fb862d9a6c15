------------------------- MODULE Conv1dAccelProofs -------------------------
(***************************************************************************)
(* Theorems about the accelerator, for any layers that fit its buffers,    *)
(* any size of the buffers and any wait states.                            *)
(***************************************************************************)
EXTENDS Conv1dAccel, TLAPS

-----------------------------------------------------------------------------
(* Division with remainder for any divisor, which the provers know only    *)
(* for constants.                                                          *)

\* Quotient and remainder, by definition.
LEMMA DivMod ==
    ASSUME NEW n \in Nat \ {0}, NEW a \in Int
    PROVE  /\ a \div n \in Int /\ a % n \in 0 .. n - 1
           /\ a = (n * (a \div n)) + (a % n)
OBVIOUS

\* A positive multiple is at least the number.
LEMMA MultipleIsLarge ==
    ASSUME NEW n \in Nat \ {0}, NEW d \in Int, d >= 1
    PROVE  n * d >= n
OBVIOUS

\* A number has one remainder.
LEMMA RemainderUnique ==
    ASSUME NEW n \in Nat \ {0}, NEW p \in Int, NEW q \in Int,
           NEW r \in 0 .. n - 1, NEW s \in 0 .. n - 1, n * p + r = n * q + s
    PROVE  r = s
<1>1. CASE q - p >= 1
  <2>1. n * (q - p) = r - s
    OBVIOUS
  <2>2. QED
    BY <1>1, <2>1, MultipleIsLarge
<1>2. CASE p - q >= 1
  <2>1. n * (p - q) = s - r
    OBVIOUS
  <2>2. QED
    BY <1>2, <2>1, MultipleIsLarge
<1>3. CASE p = q
  BY <1>3
<1>4. QED
  BY <1>1, <1>2, <1>3

\* What is smaller than the divisor is its own remainder.
LEMMA SmallRemainder ==
    ASSUME NEW n \in Nat \ {0}, NEW a \in 0 .. n - 1
    PROVE  a % n = a
<1>1. a \div n \in Int /\ a % n \in 0 .. n - 1 /\ a = (n * (a \div n)) + (a % n)
  BY DivMod
<1>2. n * 0 = 0
  OBVIOUS
<1> DEFINE q == a \div n
           r == a % n
<1>3. q \in Int /\ r \in 0 .. n - 1 /\ n * 0 + a = n * q + r
  BY <1>1, <1>2
<1> HIDE DEF q, r
<1>4. a = r
  BY <1>2, <1>3, RemainderUnique
<1>5. QED
  BY <1>4 DEF r

\* Row and column of a place in a table are determined by the place.
LEMMA RowUnique ==
    ASSUME NEW n \in Nat \ {0}, NEW p \in Int, NEW q \in Int,
           NEW r \in 0 .. n - 1, NEW s \in 0 .. n - 1, p * n + r = q * n + s
    PROVE  p = q /\ r = s
<1>1. n * p + r = n * q + s
  OBVIOUS
<1>2. r = s
  BY <1>1, RemainderUnique
<1>3. n * p = n * q
  BY <1>1, <1>2
<1>4. CASE q - p >= 1
  <2>1. n * (q - p) = 0
    BY <1>3
  <2>2. QED
    BY <1>4, <2>1, MultipleIsLarge
<1>5. CASE p - q >= 1
  <2>1. n * (p - q) = 0
    BY <1>3
  <2>2. QED
    BY <1>5, <2>1, MultipleIsLarge
<1>6. QED
  BY <1>2, <1>4, <1>5

\* A place in a table of m rows and n columns, and every place is one of these.
LEMMA PlaceInTable ==
    ASSUME NEW n \in Nat \ {0}, NEW m \in Nat, NEW w \in 0 .. m - 1, NEW c \in 0 .. n - 1
    PROVE  w * n + c \in 0 .. m * n - 1
<1>1. 0 <= w * n
  OBVIOUS
<1>2. m * n = w * n + (m - w) * n
  OBVIOUS
<1>3. (m - w) * n >= n
  <2>1. n * (m - w) >= n
    BY MultipleIsLarge
  <2>2. QED
    BY <2>1
<1>4. w * n \in Int /\ m * n \in Int
  OBVIOUS
<1>5. QED
  BY <1>1, <1>2, <1>3, <1>4

LEMMA TableHasPlace ==
    ASSUME NEW n \in Nat \ {0}, NEW m \in Nat, NEW o \in 0 .. m * n - 1
    PROVE  \E w \in 0 .. m - 1, c \in 0 .. n - 1 : o = w * n + c
<1> DEFINE q == o \div n
           r == o % n
<1>0. m * n \in Int /\ o \in Int
  OBVIOUS
<1>1. q \in Int /\ r \in 0 .. n - 1 /\ o = (n * q) + r
  BY <1>0, DivMod
<1> HIDE DEF q, r
<1>2. q >= 0
  <2>1. SUFFICES ASSUME -q >= 1 PROVE FALSE
    BY <1>1
  <2>2. n * (-q) >= n
    BY <1>1, <2>1, MultipleIsLarge
  <2>3. n * (-q) = -(n * q)
    BY <1>1
  <2>4. QED
    BY <1>0, <1>1, <2>2, <2>3
<1>3. q <= m - 1
  <2>1. SUFFICES ASSUME q - m + 1 >= 1 PROVE FALSE
    BY <1>1
  <2>2. n * (q - m + 1) >= n
    BY <1>1, <2>1, MultipleIsLarge
  <2>3. n * (q - m + 1) = (n * q) - m * n + n
    BY <1>1
  <2>4. QED
    BY <1>0, <1>1, <2>2, <2>3
<1>4. o = q * n + r
  BY <1>1
<1>5. QED
  BY <1>1, <1>2, <1>3, <1>4

-----------------------------------------------------------------------------
(* Types, as strong as the control needs them.                             *)

Array == {"src", "wt", "bias", "shift"}
Products == [n : Nat, pairs : SUBSET (Word \X (Word \cup {Zero}))]

Biased == state \in {"SHIFT_DATA", "IN_ADDR", "IN_DATA", "MAC", "MAC_OVLP", "WRITE_ADDR",
                     "WRITE_DATA", "ADVANCE"}
Shifted == Biased /\ state # "SHIFT_DATA"

DataTypes ==
    /\ bus \in [htrans : BOOLEAN, hwrite : BOOLEAN,
                haddr : [of : Array \cup {"dst"}, at : Nat], hwdata : Result \cup {None}]
    /\ in_buf \in [0..1 -> [Buffer -> Word]]
    /\ wt_buf \in [Buffer -> [0..3 -> Word \cup {Zero}]]
    /\ acc \in Products
    /\ Biased => bias_val \in Word
    /\ Shifted => cur_shift \in Word
    /\ state = "WRITE_DATA" => bus.hwdata \in Result

\* A load has an address on the bus until its last word is there.
Loading == \/ state \in {"WT_DATA_W", "WT_DATA", "BIAS_DATA", "SHIFT_DATA", "IN_DATA"}
           \/ state = "MAC_OVLP" /\ ~load_done

PortDrives ==
    /\ bus.htrans <=> Loading \/ state = "WRITE_DATA"
    /\ bus.hwrite <=> state = "WRITE_DATA"
    /\ Loading => bus.haddr.of \in Array

InFlight == dphase # None /\ dphase.hwrite

DataPhase ==
    /\ dphase = None => hready
    /\ dphase # None /\ ~dphase.hwrite => dphase.haddr.of \in Array
    /\ stalled > 0 => InFlight
    /\ InFlight /\ stalled = MaxStall => hready

\* Where the loops are in each state.
FirstPosition == state \in {"WT_ADDR", "WT_DATA_W", "WT_DATA", "BIAS_ADDR", "BIAS_DATA",
                            "SHIFT_DATA", "IN_ADDR", "IN_DATA", "DONE"}
Loops ==
    /\ FirstPosition => w_pos = 0
    /\ state = "MAC" => w_pos = last_w
    /\ state = "MAC_OVLP" => w_pos < last_w
    /\ state = "DONE" => c_pos = last_c
    /\ state \in {"MAC", "MAC_OVLP"} => mac_idx <= LastWord
    /\ r_done => state = "IDLE"

TypeInv == TypeOK /\ DataTypes /\ PortDrives /\ DataPhase /\ Loops

-----------------------------------------------------------------------------
(* Outputs.                                                                *)

\* The next result is there two clocks after the last product: no write waits longer.
ShortWrites ==
    \A c \in Configs : c.w_out > 1 => MaxStall <= ((c.patch_bytes + 3) \div 4) + 1

\* A write ends before its data is replaced.
WriteWaits ==
    InFlight =>
        \/ state = "ADVANCE" /\ stalled = 0
        \/ state = "MAC" /\ w_pos > 0 /\ stalled = mac_idx + 1
        \/ state = "WRITE_ADDR" /\ w_pos > 0 /\ stalled = patch_words + 1
        \/ state = "MAC_OVLP" /\ ~load_done /\ r_wait
        \/ state = "WT_ADDR"
        \/ state \in {"WT_DATA_W", "WT_DATA"} /\ r_wait
        \/ state = "DONE" /\ stalled = 1
        \/ state = "IDLE" /\ r_done /\ stalled > 1

Place(w, c) == w * cfg.c_out + c

Position == 0 .. cfg.w_out - 1
Channel == 0 .. cfg.c_out - 1

\* The write of an output has been accepted by the bus.
Issued(w, c) ==
    \/ state \in {"DONE", "IDLE"}
    \/ /\ state \notin {"DONE", "IDLE", "INIT"}
       /\ \/ c < c_pos
          \/ c = c_pos /\ (w < w_pos \/ (w = w_pos /\ state = "ADVANCE"))

\* An output is in memory when its write has ended.
Started == state # "IDLE" \/ r_done

OutputsWritten ==
    Started =>
        /\ out \in [0 .. cfg.w_out * cfg.c_out - 1 -> Result \cup {None}]
        /\ \A w \in Position, c \in Channel :
              out[Place(w, c)] # None <=>
                  Issued(w, c) /\ ~(InFlight /\ dphase.haddr.at = Place(w, c))
        /\ InFlight => \E w \in Position, c \in Channel :
                           Issued(w, c) /\ dphase.haddr.at = Place(w, c)
        /\ state = "WRITE_DATA" => bus.haddr.at = Place(w_pos, c_pos)
        /\ InFlight => bus.hwdata \in Result

ControlInv == TypeInv /\ WriteWaits /\ OutputsWritten

\* Which write is still on the bus when the loops end.
LastWrite ==
    /\ InFlight /\ state = "ADVANCE" => dphase.haddr.at = Place(w_pos, c_pos)
    /\ InFlight /\ state \in {"DONE", "IDLE"} => dphase.haddr.at = Place(last_w, last_c)

-----------------------------------------------------------------------------
(* Loads.                                                                  *)

Bytewise(c) == ~(c.wt % 4 = 0 /\ c.patch_bytes % 4 = 0)

\* A filter that is loaded by bytes is counted in the width of buf_idx.
BytewiseFits == \A c \in Configs : Bytewise(c) => c.patch_bytes <= 2 * BufWords

\* The address of a burst: its first one until it is accepted, then one ahead of the
\* transfer in data phase.
Burst(array, first, size, n) ==
    /\ bus.haddr = [of |-> array, at |-> IF r_wait THEN first ELSE first + size * (n + 1)]
    /\ r_wait => n = 0
    /\ ~r_wait => dphase = [haddr |-> [of |-> array, at |-> first + size * n], hwrite |-> FALSE]

Single(array, at) ==
    /\ bus.haddr = [of |-> array, at |-> at]
    /\ ~r_wait => dphase = [haddr |-> [of |-> array, at |-> at], hwrite |-> FALSE]

Bursts ==
    /\ state = "WT_DATA_W" =>
          /\ wt_addr % 4 = 0 /\ cfg.patch_bytes % 4 = 0 /\ wt_word_idx <= LastWord
          /\ Burst("wt", wt_addr, 4, wt_word_idx)
    /\ state = "WT_DATA" =>
          /\ cfg.patch_bytes <= 2 * BufWords /\ buf_idx < cfg.patch_bytes
          /\ Burst("wt", wt_addr, 1, buf_idx)
    /\ state = "BIAS_DATA" => Single("bias", 4 * c_pos)
    /\ state = "SHIFT_DATA" => Single("shift", cfg.shift + c_pos)
    /\ state = "IN_DATA" => buf_idx <= LastIn /\ Burst("src", 0, 4, buf_idx)
    /\ state = "MAC_OVLP" /\ ~load_done =>
          buf_idx <= LastIn /\ Burst("src", (w_pos + 1) * cfg.step, 4, buf_idx)

-----------------------------------------------------------------------------
(* Data.                                                                   *)

\* The words of a patch are words of memory.
InputsAligned == \A c \in Configs : c.step % 4 = 0

WtByte(x, l) ==
    IF 4 * x + l < cfg.patch_bytes THEN [of |-> "wt", at |-> wt_addr + 4 * x + l] ELSE Zero

InWord(w, x) == [of |-> "src", at |-> w * cfg.step + 4 * x]

PatchIn(b, w, n) == \A x \in 0 .. n - 1 : in_buf[b][x] = InWord(w, x)

Product(b) == <<[of |-> "src", at |-> w_pos * cfg.step + b], [of |-> "wt", at |-> wt_addr + b]>>
FirstProducts(n) == [n |-> n, pairs |-> {Product(b) : b \in 0 .. n - 1}]

WeightsLoaded ==
    /\ state = "WT_DATA_W" =>
          \A x \in 0 .. wt_word_idx - 1, l \in 0..3 : wt_buf[x][l] = WtByte(x, l)
    /\ state = "WT_DATA" =>
          \A x \in 0 .. LastWord, l \in 0..3 :
              4 * x + l < buf_idx \/ 4 * x + l >= cfg.patch_bytes => wt_buf[x][l] = WtByte(x, l)
    /\ Biased \/ state \in {"BIAS_ADDR", "BIAS_DATA"} =>
          \A x \in 0 .. LastWord, l \in 0..3 : wt_buf[x][l] = WtByte(x, l)

InputsLoaded ==
    /\ state = "IN_DATA" => PatchIn(buf_sel, 0, buf_idx)
    /\ state \in {"MAC", "MAC_OVLP"} => PatchIn(buf_sel, w_pos, patch_words)
    /\ state = "MAC_OVLP" =>
          PatchIn(inactive, w_pos + 1, IF load_done THEN patch_words ELSE buf_idx)
    /\ state \in {"WRITE_ADDR", "WRITE_DATA", "ADVANCE"} /\ w_pos < last_w =>
          PatchIn(inactive, w_pos + 1, patch_words)

Accumulated ==
    /\ state \in {"IN_ADDR", "IN_DATA"} => acc = NoProducts
    /\ state = "MAC" \/ (state = "MAC_OVLP" /\ ~mac_done) => acc = FirstProducts(4 * mac_idx)
    /\ state = "WRITE_ADDR" \/ (state = "MAC_OVLP" /\ mac_done) =>
          acc = FirstProducts(cfg.patch_bytes)

Scaled ==
    /\ Biased => bias_val = [of |-> "bias", at |-> 4 * c_pos]
    /\ Shifted => cur_shift = [of |-> "shift", at |-> cfg.shift + c_pos]

ResultsCorrect ==
    /\ state = "WRITE_DATA" => bus.hwdata = Expected(w_pos, c_pos)
    /\ InFlight => \A w \in Position, c \in Channel :
                       dphase.haddr.at = Place(w, c) => bus.hwdata = Expected(w, c)
    /\ Started => \A w \in Position, c \in Channel :
                       out[Place(w, c)] # None => out[Place(w, c)] = Expected(w, c)

DataInv == ControlInv /\ Bursts /\ WeightsLoaded /\ InputsLoaded /\ Accumulated /\ Scaled
           /\ ResultsCorrect

-----------------------------------------------------------------------------
(* Sizes.                                                                  *)

\* The configuration registers and the number of words of a patch.
LEMMA Sizes ==
    ASSUME cfg \in Configs
    PROVE  /\ cfg \in Config /\ cfg.patch_bytes \in Nat \ {0}
           /\ cfg.c_out \in Nat \ {0} /\ cfg.w_out \in Nat \ {0} /\ cfg.step \in Nat
           /\ cfg.wt \in 0..3 /\ cfg.shift \in 0..3
           /\ BufWords \in Nat /\ MaxStall \in Nat
           /\ patch_words \in 1 .. BufWords - 1
           /\ patch_words = (cfg.patch_bytes + 3) \div 4
           /\ cfg.patch_bytes <= 4 * patch_words
           /\ cfg.patch_bytes > 4 * (patch_words - 1)
           /\ LastWord = patch_words - 1 /\ LastIn = patch_words - 1
<1> DEFINE n == BufWords
           pw == (cfg.patch_bytes + 3) \div 4
           a == pw - 1
           m == 2 * n
<1>1. /\ cfg \in Config /\ cfg.patch_bytes \in Nat \ {0}
      /\ cfg.c_out \in Nat \ {0} /\ cfg.w_out \in Nat \ {0} /\ cfg.step \in Nat
      /\ cfg.wt \in 0..3 /\ cfg.shift \in 0..3
      /\ cfg.patch_bytes <= 4 * (n - 1)
  BY ConfigAssumption DEF Config
<1>2. n \in Nat /\ MaxStall \in Nat
  BY WidthAssumption, StallAssumption
<1> HIDE DEF n
<1>3. pw \in 1 .. n - 1 /\ cfg.patch_bytes <= 4 * pw /\ cfg.patch_bytes > 4 * (pw - 1)
  BY <1>1, <1>2
<1>4. n \in Nat \ {0} /\ pw \in 0 .. n - 1 /\ a \in 0 .. n - 1 /\ m \in Nat \ {0} /\ a \in 0 .. m - 1
  BY <1>2, <1>3
<1> HIDE DEF pw, a, m
<1>5. pw % n = pw /\ a % n = a /\ a % m = a
  BY <1>4, SmallRemainder
<1>6. patch_words = pw
  BY <1>5 DEF patch_words, pw, n
<1>7. LastWord = pw - 1 /\ LastIn = pw - 1
  BY <1>5, <1>6 DEF LastWord, LastIn, a, m, n
<1>8. QED
  BY <1>1, <1>2, <1>3, <1>6, <1>7 DEF pw, n

\* The index of a buffer counts up to its last word, the index of a load further.
LEMMA Increment ==
    ASSUME cfg \in Configs, NEW x \in Nat
    PROVE  /\ (x + 1) % BufWords \in Buffer
           /\ (x + 1) % (2 * BufWords) \in 0 .. 2 * BufWords - 1
           /\ x + 1 \in Buffer => (x + 1) % BufWords = x + 1
           /\ x + 1 < 2 * BufWords => (x + 1) % (2 * BufWords) = x + 1
<1> DEFINE n == BufWords
           m == 2 * n
           y == x + 1
<1>1. n \in Nat \ {0} /\ m \in Nat \ {0} /\ y \in Nat
  BY Sizes
<1> HIDE DEF n, m, y
<1>2. y % n \in 0 .. n - 1 /\ y % m \in 0 .. m - 1
  BY <1>1, DivMod
<1>3. y \in 0 .. n - 1 => y % n = y
  BY <1>1, SmallRemainder
<1>4. y \in 0 .. m - 1 => y % m = y
  BY <1>1, SmallRemainder
<1>5. QED
  BY <1>1, <1>2, <1>3, <1>4 DEF n, m, y, Buffer

-----------------------------------------------------------------------------
(* One clock: what the bus does, whatever the FSM does.                    *)

\* The data phase after a clock is the address phase before it, if that was accepted.
LEMMA BusMoves ==
    ASSUME TypeInv, BusStep
    PROVE  /\ dphase' \in Transfer \cup {None} /\ hready' \in BOOLEAN
           /\ stalled' \in 0 .. MaxStall
           /\ DataPhase'
           /\ InFlight' => \/ /\ InFlight /\ ~hready /\ dphase' = dphase
                              /\ stalled < MaxStall /\ stalled' = stalled + 1
                           \/ /\ state = "WRITE_DATA" /\ hready /\ stalled' = 0
                              /\ dphase' = [haddr |-> bus.haddr, hwrite |-> TRUE]
<1>1. MaxStall \in Nat /\ cfg \in Configs
  BY StallAssumption DEF TypeInv, TypeOK
<1>2. dphase \in Transfer \cup {None} /\ hready \in BOOLEAN /\ stalled \in 0 .. MaxStall
  BY DEF TypeInv, TypeOK
<1>3. /\ bus.htrans \in BOOLEAN /\ bus.hwrite \in BOOLEAN
      /\ [haddr |-> bus.haddr, hwrite |-> bus.hwrite] \in Transfer
      /\ bus.haddr.of \in Array \cup {"dst"}
  BY DEF TypeInv, TypeOK, DataTypes
<1>4. dphase' \in Transfer \cup {None}
  BY <1>2, <1>3 DEF BusStep
<1>5. hready' \in BOOLEAN
  BY DEF BusStep
<1>6. None \notin Transfer
  BY NoneAssumption
<1>7. stalled' \in 0 .. MaxStall
  BY <1>1, <1>2, <1>6 DEF BusStep, TypeInv, DataPhase, InFlight, Transfer
<1>8. DataPhase'
  <2>1. dphase' = None => hready'
    BY DEF BusStep
  <2>2. dphase' # None /\ ~dphase'.hwrite => dphase'.haddr.of \in Array
    <3>1. CASE ~hready
      BY <3>1 DEF BusStep, TypeInv, DataPhase
    <3>2. CASE hready /\ bus.htrans
      <4>1. /\ dphase'.haddr = bus.haddr /\ dphase'.hwrite = bus.hwrite
        BY <3>2 DEF BusStep
      <4>2. ~bus.hwrite => bus.haddr.of \in Array
        BY <1>3, <3>2 DEF TypeInv, PortDrives
      <4>3. QED
        BY <4>1, <4>2
    <3>3. CASE hready /\ ~bus.htrans
      BY <3>3 DEF BusStep
    <3>4. QED
      BY <3>1, <3>2, <3>3
  <2>3. stalled' > 0 => InFlight'
    BY <1>1, <1>2 DEF BusStep, TypeInv, DataPhase, InFlight
  <2>4. InFlight' /\ stalled' = MaxStall => hready'
    BY DEF BusStep, InFlight
  <2>5. QED
    BY <2>1, <2>2, <2>3, <2>4 DEF DataPhase, InFlight
<1>9. ASSUME InFlight', ~hready
      PROVE  InFlight /\ dphase' = dphase /\ stalled < MaxStall /\ stalled' = stalled + 1
  BY <1>1, <1>2, <1>9 DEF BusStep, TypeInv, DataPhase, InFlight
<1>10. ASSUME InFlight', hready
       PROVE  /\ state = "WRITE_DATA" /\ stalled' = 0
              /\ dphase' = [haddr |-> bus.haddr, hwrite |-> TRUE]
  BY <1>1, <1>2, <1>3, <1>10 DEF BusStep, TypeInv, InFlight, PortDrives
<1>11. QED
  BY <1>2, <1>4, <1>5, <1>7, <1>8, <1>9, <1>10

-----------------------------------------------------------------------------
(* One clock: what the FSM does.                                           *)

\* The bus after an operation of the master port.
LEMMA PortOps ==
    ASSUME TypeInv, NEW n \in Nat, NEW a \in Array
    PROVE  /\ Read(a, n) => bus' = [htrans |-> TRUE, hwrite |-> FALSE,
                                   haddr |-> [of |-> a, at |-> n], hwdata |-> bus.hwdata]
           /\ Advance(n) => bus' = [htrans |-> TRUE, hwrite |-> bus.hwrite,
                                   haddr |-> [of |-> bus.haddr.of, at |-> bus.haddr.at + n],
                                   hwdata |-> bus.hwdata]
           /\ Release => bus' = [htrans |-> FALSE, hwrite |-> bus.hwrite,
                                haddr |-> bus.haddr, hwdata |-> bus.hwdata]
<1>1. bus \in [htrans : BOOLEAN, hwrite : BOOLEAN,
               haddr : [of : Array \cup {"dst"}, at : Nat], hwdata : Result \cup {None}]
  BY DEF TypeInv, DataTypes
<1>2. ASSUME Read(a, n)
      PROVE  bus' = [htrans |-> TRUE, hwrite |-> FALSE,
                     haddr |-> [of |-> a, at |-> n], hwdata |-> bus.hwdata]
  BY <1>1, <1>2 DEF Read
<1>3. ASSUME Advance(n)
      PROVE  bus' = [htrans |-> TRUE, hwrite |-> bus.hwrite,
                     haddr |-> [of |-> bus.haddr.of, at |-> bus.haddr.at + n],
                     hwdata |-> bus.hwdata]
  BY <1>1, <1>3 DEF Advance
<1>4. ASSUME Release
      PROVE  bus' = [htrans |-> FALSE, hwrite |-> bus.hwrite,
                     haddr |-> bus.haddr, hwdata |-> bus.hwdata]
  BY <1>1, <1>4 DEF Release
<1>5. QED
  BY <1>2, <1>3, <1>4

\* The registers of the FSM that TypeOK speaks of.
Registers ==
    /\ cfg \in Configs
    /\ state \in {"IDLE", "INIT", "WT_ADDR", "WT_DATA_W", "WT_DATA", "BIAS_ADDR", "BIAS_DATA",
                  "SHIFT_DATA", "IN_ADDR", "IN_DATA", "MAC", "MAC_OVLP", "WRITE_ADDR",
                  "WRITE_DATA", "ADVANCE", "DONE"}
    /\ r_busy \in BOOLEAN /\ r_done \in BOOLEAN /\ r_wait \in BOOLEAN
    /\ r_busy <=> state # "IDLE"
    /\ w_pos \in Nat /\ c_pos \in Nat
    /\ state \notin {"IDLE", "INIT"} => w_pos < cfg.w_out /\ c_pos < cfg.c_out
    /\ buf_idx \in 0 .. 2 * BufWords - 1
    /\ mac_idx \in Buffer /\ wt_word_idx \in Buffer
    /\ buf_sel \in 0..1 /\ mac_done \in BOOLEAN /\ load_done \in BOOLEAN

LEMMA RegisterTypes == TypeInv => Registers
BY DEF TypeInv, TypeOK, Registers

LEMMA RegistersStep == TypeInv /\ (S_IDLE \/ Busy \/ StartLayer) => Registers'
<1> SUFFICES ASSUME TypeInv, S_IDLE \/ Busy \/ StartLayer PROVE Registers'
  OBVIOUS
<1>1. Registers /\ Loops /\ cfg \in Configs /\ buf_idx \in Nat /\ mac_idx \in Nat /\ wt_word_idx \in Nat
  BY Sizes, RegisterTypes DEF TypeInv, Registers, Buffer
<1>2. /\ cfg.w_out \in Nat \ {0} /\ cfg.c_out \in Nat \ {0} /\ 0 \in Buffer /\ BufWords \in Nat
      /\ 0 \in 0 .. 2 * BufWords - 1 /\ 0 \in 0..1
  BY <1>1, Sizes DEF Buffer
<1>3. /\ (buf_idx + 1) % (2 * BufWords) \in 0 .. 2 * BufWords - 1
      /\ (mac_idx + 1) % BufWords \in Buffer /\ (wt_word_idx + 1) % BufWords \in Buffer
  BY <1>1, Increment
<1>10. CASE S_IDLE
  BY <1>10, <1>1, <1>2, <1>3 DEF
     S_IDLE, Registers, Loops, FirstPosition, buffers, datapath, flags, counters, last_w, last_c
<1>11. CASE S_INIT
  BY <1>11, <1>1, <1>2, <1>3 DEF
     S_INIT, Registers, Loops, FirstPosition, buffers, datapath, flags, counters, last_w, last_c
<1>12. CASE S_WT_ADDR
  BY <1>12, <1>1, <1>2, <1>3 DEF
     S_WT_ADDR, Registers, Loops, FirstPosition, buffers, datapath, flags, counters, last_w, last_c
<1>13. CASE S_WT_DATA_W
  BY <1>13, <1>1, <1>2, <1>3 DEF
     S_WT_DATA_W, Accepted, Arrived, Registers, Loops, FirstPosition, buffers, datapath, flags, counters, last_w, last_c
<1>14. CASE S_WT_DATA
  BY <1>14, <1>1, <1>2, <1>3 DEF
     S_WT_DATA, Accepted, Arrived, Registers, Loops, FirstPosition, buffers, datapath, flags, counters, last_w, last_c
<1>15. CASE S_BIAS_ADDR
  BY <1>15, <1>1, <1>2, <1>3 DEF
     S_BIAS_ADDR, Registers, Loops, FirstPosition, buffers, datapath, flags, counters, last_w, last_c
<1>16. CASE S_BIAS_DATA
  BY <1>16, <1>1, <1>2, <1>3 DEF
     S_BIAS_DATA, Accepted, Arrived, Registers, Loops, FirstPosition, buffers, datapath, flags, counters, last_w, last_c
<1>17. CASE S_SHIFT_DATA
  BY <1>17, <1>1, <1>2, <1>3 DEF
     S_SHIFT_DATA, Accepted, Arrived, Registers, Loops, FirstPosition, buffers, datapath, flags, counters, last_w, last_c
<1>18. CASE S_IN_ADDR
  BY <1>18, <1>1, <1>2, <1>3 DEF
     S_IN_ADDR, Registers, Loops, FirstPosition, buffers, datapath, flags, counters, last_w, last_c
<1>19. CASE S_IN_DATA
  <2>1. /\ cfg' = cfg /\ w_pos' = w_pos /\ c_pos' = c_pos /\ wt_word_idx' = wt_word_idx
        /\ r_busy' = r_busy /\ r_done' = r_done /\ buf_sel' = buf_sel
        /\ state = "IN_DATA" /\ state' \in {"IN_DATA", "MAC", "MAC_OVLP"}
    BY <1>19 DEF S_IN_DATA, Overlap
  <2>2. buf_idx' \in 0 .. 2 * BufWords - 1 /\ mac_idx' \in Buffer
    BY <1>19, <1>1, <1>2, <1>3 DEF S_IN_DATA, Overlap, Registers
  <2>4. r_wait' \in BOOLEAN /\ mac_done' \in BOOLEAN /\ load_done' \in BOOLEAN
    BY <1>19, <1>1 DEF S_IN_DATA, Overlap, Registers
  <2>3. QED
    BY <1>1, <2>1, <2>2, <2>4 DEF Registers
<1>20. CASE S_MAC
  BY <1>20, <1>1, <1>2, <1>3 DEF
     S_MAC, Registers, Loops, FirstPosition, buffers, datapath, flags, counters, last_w, last_c
<1>21. CASE S_MAC_OVLP
  BY <1>21, <1>1, <1>2, <1>3 DEF
     S_MAC_OVLP, MacSide, LoadSide, OverlapEnds, Registers, Loops, FirstPosition, buffers, datapath, flags, counters, last_w, last_c
<1>22. CASE S_WRITE_ADDR
  BY <1>22, <1>1, <1>2, <1>3 DEF
     S_WRITE_ADDR, Registers, Loops, FirstPosition, buffers, datapath, flags, counters, last_w, last_c
<1>23. CASE S_WRITE_DATA
  BY <1>23, <1>1, <1>2, <1>3 DEF
     S_WRITE_DATA, WriteAccepted, Registers, Loops, FirstPosition, buffers, datapath, flags, counters, last_w, last_c
<1>24. CASE S_ADVANCE
  <2>1. /\ cfg' = cfg /\ wt_word_idx' = wt_word_idx /\ r_busy' = r_busy /\ r_done' = r_done
        /\ state = "ADVANCE" /\ state' \in {"MAC", "MAC_OVLP", "WT_ADDR", "DONE"}
    BY <1>24 DEF S_ADVANCE, Overlap
  <2>2. buf_idx' \in 0 .. 2 * BufWords - 1 /\ mac_idx' \in Buffer /\ buf_sel' \in 0..1
    BY <1>24, <1>1, <1>2 DEF S_ADVANCE, Overlap, Registers
  <2>5. r_wait' \in BOOLEAN /\ mac_done' \in BOOLEAN /\ load_done' \in BOOLEAN
    BY <1>24, <1>1 DEF S_ADVANCE, Overlap, Registers
  <2>3. /\ w_pos' \in Nat /\ c_pos' \in Nat /\ w_pos' < cfg.w_out /\ c_pos' < cfg.c_out
    BY <1>24, <1>1, <1>2 DEF S_ADVANCE, Registers, last_w, last_c
  <2>4. QED
    BY <1>1, <2>1, <2>2, <2>3, <2>5 DEF Registers
<1>25. CASE S_DONE
  BY <1>25, <1>1, <1>2, <1>3 DEF
     S_DONE, Registers, Loops, FirstPosition, buffers, datapath, flags, counters, last_w, last_c
<1>26. CASE StartLayer
  BY <1>26, <1>1, <1>2, <1>3 DEF
     StartLayer, Start, Registers, Loops, FirstPosition, buffers, datapath, flags, counters, last_w, last_c
<1>27. QED
  BY <1>10, <1>11, <1>12, <1>13, <1>14, <1>15, <1>16, <1>17, <1>18, <1>19, <1>20, <1>21, <1>22, <1>23, <1>24, <1>25, <1>26 DEF Busy

LEMMA PortStep == TypeInv /\ (S_IDLE \/ Busy \/ StartLayer) => PortDrives'
<1> SUFFICES ASSUME TypeInv, S_IDLE \/ Busy \/ StartLayer PROVE PortDrives'
  OBVIOUS
<1>1. PortDrives /\ hready \in BOOLEAN
  BY DEF TypeInv, TypeOK
<1>2. /\ cfg \in Configs /\ w_pos \in Nat /\ c_pos \in Nat
      /\ wt_addr \in Nat /\ 4 * c_pos \in Nat /\ cfg.shift + c_pos \in Nat
      /\ \A w \in Nat : w * cfg.step \in Nat
  BY Sizes DEF TypeInv, TypeOK, wt_addr
<1>3. /\ Read("wt", wt_addr) => bus'.htrans /\ ~bus'.hwrite /\ bus'.haddr.of \in Array
      /\ Read("bias", 4 * c_pos) => bus'.htrans /\ ~bus'.hwrite /\ bus'.haddr.of \in Array
      /\ Read("shift", cfg.shift + c_pos) =>
            bus'.htrans /\ ~bus'.hwrite /\ bus'.haddr.of \in Array
  BY <1>2, PortOps DEF Array
<1>4. \A w \in Nat : Read("src", w * cfg.step) =>
            bus'.htrans /\ ~bus'.hwrite /\ bus'.haddr.of \in Array
  BY <1>2, PortOps DEF Array
<1>5. /\ Advance(1) \/ Advance(4) => bus'.htrans /\ bus'.hwrite = bus.hwrite
                                   /\ bus'.haddr.of = bus.haddr.of
      /\ Release => ~bus'.htrans /\ bus'.hwrite = bus.hwrite
  BY PortOps DEF Array
<1>10. CASE S_IDLE
  BY <1>10, <1>1, <1>2, <1>3, <1>4, <1>5 DEF
     S_IDLE, PortDrives, Loading, flags, counters
<1>11. CASE S_INIT
  BY <1>11, <1>1, <1>2, <1>3, <1>4, <1>5 DEF
     S_INIT, PortDrives, Loading, flags, counters
<1>12. CASE S_WT_ADDR
  BY <1>12, <1>1, <1>2, <1>3, <1>4, <1>5 DEF
     S_WT_ADDR, PortDrives, Loading, flags, counters
<1>13. CASE S_WT_DATA_W
  BY <1>13, <1>1, <1>2, <1>3, <1>4, <1>5 DEF
     S_WT_DATA_W, Accepted, Arrived, PortDrives, Loading, flags, counters
<1>14. CASE S_WT_DATA
  BY <1>14, <1>1, <1>2, <1>3, <1>4, <1>5 DEF
     S_WT_DATA, Accepted, Arrived, PortDrives, Loading, flags, counters
<1>15. CASE S_BIAS_ADDR
  BY <1>15, <1>1, <1>2, <1>3, <1>4, <1>5 DEF
     S_BIAS_ADDR, PortDrives, Loading, flags, counters
<1>16. CASE S_BIAS_DATA
  BY <1>16, <1>1, <1>2, <1>3, <1>4, <1>5 DEF
     S_BIAS_DATA, Accepted, Arrived, PortDrives, Loading, flags, counters
<1>17. CASE S_SHIFT_DATA
  BY <1>17, <1>1, <1>2, <1>3, <1>4, <1>5 DEF
     S_SHIFT_DATA, Accepted, Arrived, PortDrives, Loading, flags, counters
<1>18. CASE S_IN_ADDR
  BY <1>18, <1>1, <1>2, <1>3, <1>4, <1>5 DEF
     S_IN_ADDR, PortDrives, Loading, flags, counters
<1>19. CASE S_IN_DATA
  BY <1>19, <1>1, <1>2, <1>3, <1>4, <1>5 DEF
     S_IN_DATA, Accepted, Arrived, Overlap, PortDrives, Loading, flags, counters
<1>20. CASE S_MAC
  BY <1>20, <1>1, <1>2, <1>3, <1>4, <1>5 DEF
     S_MAC, PortDrives, Loading, flags, counters
<1>21. CASE S_MAC_OVLP
  BY <1>21, <1>1, <1>2, <1>3, <1>4, <1>5 DEF
     S_MAC_OVLP, MacSide, LoadSide, OverlapEnds, PortDrives, Loading, flags, counters
<1>22. CASE S_WRITE_ADDR
  BY <1>22, <1>1, <1>2, <1>3, <1>4, <1>5 DEF
     S_WRITE_ADDR, PortDrives, Loading, flags, counters
<1>23. CASE S_WRITE_DATA
  BY <1>23, <1>1, <1>2, <1>3, <1>4, <1>5 DEF
     S_WRITE_DATA, WriteAccepted, TypeInv, DataTypes, PortDrives, Loading, flags, counters
<1>24. CASE S_ADVANCE
  BY <1>24, <1>1, <1>2, <1>3, <1>4, <1>5 DEF
     S_ADVANCE, Overlap, PortDrives, Loading, flags, counters
<1>25. CASE S_DONE
  BY <1>25, <1>1, <1>2, <1>3, <1>4, <1>5 DEF
     S_DONE, PortDrives, Loading, flags, counters
<1>26. CASE StartLayer
  BY <1>26, <1>1, <1>2, <1>3, <1>4, <1>5 DEF
     StartLayer, Start, PortDrives, Loading, flags, counters
<1>27. QED
  BY <1>10, <1>11, <1>12, <1>13, <1>14, <1>15, <1>16, <1>17, <1>18, <1>19, <1>20, <1>21, <1>22, <1>23, <1>24, <1>25, <1>26 DEF Busy

LEMMA LoopsStep == TypeInv /\ (S_IDLE \/ Busy \/ StartLayer) => Loops'
<1> SUFFICES ASSUME TypeInv, S_IDLE \/ Busy \/ StartLayer PROVE Loops'
  OBVIOUS
<1>1. /\ Registers /\ Loops /\ cfg \in Configs
      /\ buf_idx \in Nat /\ mac_idx \in Nat /\ wt_word_idx \in Nat
  BY Sizes, RegisterTypes DEF TypeInv, Registers, Buffer
<1>2. /\ cfg.w_out \in Nat \ {0} /\ cfg.c_out \in Nat \ {0} /\ BufWords \in Nat
      /\ LastWord \in 0 .. BufWords - 2
  BY <1>1, Sizes
<1>3. mac_idx + 1 <= LastWord => (mac_idx + 1) % BufWords = mac_idx + 1
  BY <1>1, <1>2, Increment DEF Buffer
<1>4. cfg' = cfg => LastWord' = LastWord /\ last_w' = last_w /\ last_c' = last_c
  BY DEF LastWord, patch_words, last_w, last_c
<1>10. CASE S_IDLE
  BY <1>10, <1>1, <1>2, <1>3, <1>4 DEF
     S_IDLE, Registers, Loops, FirstPosition, flags, counters, last_w, last_c
<1>11. CASE S_INIT
  BY <1>11, <1>1, <1>2, <1>3, <1>4 DEF
     S_INIT, Registers, Loops, FirstPosition, flags, counters, last_w, last_c
<1>12. CASE S_WT_ADDR
  BY <1>12, <1>1, <1>2, <1>3, <1>4 DEF
     S_WT_ADDR, Registers, Loops, FirstPosition, flags, counters, last_w, last_c
<1>13. CASE S_WT_DATA_W
  BY <1>13, <1>1, <1>2, <1>3, <1>4 DEF
     S_WT_DATA_W, Accepted, Arrived, Registers, Loops, FirstPosition, flags, counters, last_w,
     last_c
<1>14. CASE S_WT_DATA
  BY <1>14, <1>1, <1>2, <1>3, <1>4 DEF
     S_WT_DATA, Accepted, Arrived, Registers, Loops, FirstPosition, flags, counters, last_w,
     last_c
<1>15. CASE S_BIAS_ADDR
  BY <1>15, <1>1, <1>2, <1>3, <1>4 DEF
     S_BIAS_ADDR, Registers, Loops, FirstPosition, flags, counters, last_w, last_c
<1>16. CASE S_BIAS_DATA
  BY <1>16, <1>1, <1>2, <1>3, <1>4 DEF
     S_BIAS_DATA, Accepted, Arrived, Registers, Loops, FirstPosition, flags, counters, last_w,
     last_c
<1>17. CASE S_SHIFT_DATA
  BY <1>17, <1>1, <1>2, <1>3, <1>4 DEF
     S_SHIFT_DATA, Accepted, Arrived, Registers, Loops, FirstPosition, flags, counters, last_w,
     last_c
<1>18. CASE S_IN_ADDR
  BY <1>18, <1>1, <1>2, <1>3, <1>4 DEF
     S_IN_ADDR, Registers, Loops, FirstPosition, flags, counters, last_w, last_c
<1>19. CASE S_IN_DATA
  BY <1>19, <1>1, <1>2, <1>3, <1>4 DEF
     S_IN_DATA, Accepted, Arrived, Overlap, Registers, Loops, FirstPosition, flags, counters,
     last_w, last_c
<1>20. CASE S_MAC
  BY <1>20, <1>1, <1>2, <1>3, <1>4 DEF
     S_MAC, Registers, Loops, FirstPosition, flags, counters, last_w, last_c
<1>21. CASE S_MAC_OVLP
  BY <1>21, <1>1, <1>2, <1>3, <1>4 DEF
     S_MAC_OVLP, MacSide, LoadSide, OverlapEnds, Registers, Loops, FirstPosition, flags,
     counters, last_w, last_c
<1>22. CASE S_WRITE_ADDR
  BY <1>22, <1>1, <1>2, <1>3, <1>4 DEF
     S_WRITE_ADDR, Registers, Loops, FirstPosition, flags, counters, last_w, last_c
<1>23. CASE S_WRITE_DATA
  BY <1>23, <1>1, <1>2, <1>3, <1>4 DEF
     S_WRITE_DATA, WriteAccepted, Registers, Loops, FirstPosition, flags, counters, last_w,
     last_c
<1>24. CASE S_ADVANCE
  BY <1>24, <1>1, <1>2, <1>3, <1>4 DEF
     S_ADVANCE, Overlap, Registers, Loops, FirstPosition, flags, counters, last_w, last_c
<1>25. CASE S_DONE
  BY <1>25, <1>1, <1>2, <1>3, <1>4 DEF
     S_DONE, Registers, Loops, FirstPosition, flags, counters, last_w, last_c
<1>26. CASE StartLayer
  BY <1>26, <1>1, <1>2, <1>3, <1>4 DEF
     StartLayer, Start, Registers, Loops, FirstPosition, flags, counters, last_w, last_c
<1>27. QED
  BY <1>10, <1>11, <1>12, <1>13, <1>14, <1>15, <1>16, <1>17, <1>18, <1>19, <1>20, <1>21, <1>22, <1>23, <1>24, <1>25, <1>26 DEF Busy

\* What a step does to the port, and that only S_WRITE_ADDR drives write data.
LEMMA PortMoves ==
    ASSUME TypeInv, S_IDLE \/ Busy \/ StartLayer
    PROVE  \/ bus' = bus
           \/ Advance(1) \/ Advance(4) \/ Release
           \/ \E a \in Array, n \in Nat : Read(a, n)
           \/ S_WRITE_ADDR
           \/ state = "WRITE_DATA" /\ hready
              /\ bus' = [bus EXCEPT !.htrans = FALSE, !.hwrite = FALSE]
<1>1. /\ wt_addr \in Nat /\ 4 * c_pos \in Nat /\ cfg.shift + c_pos \in Nat
      /\ \A w \in Nat : w * cfg.step \in Nat
      /\ w_pos \in Nat /\ (w_pos + 2) * cfg.step \in Nat
  BY Sizes DEF TypeInv, TypeOK, wt_addr
<1>2. {"src", "wt", "bias", "shift"} = Array
  BY DEF Array
<1>10. CASE S_IDLE
  BY <1>10, <1>1, <1>2 DEF S_IDLE
<1>11. CASE S_INIT
  BY <1>11, <1>1, <1>2 DEF S_INIT
<1>12. CASE S_WT_ADDR
  BY <1>12, <1>1, <1>2 DEF S_WT_ADDR
<1>13. CASE S_WT_DATA_W
  BY <1>13, <1>1, <1>2 DEF S_WT_DATA_W, Accepted, Arrived
<1>14. CASE S_WT_DATA
  BY <1>14, <1>1, <1>2 DEF S_WT_DATA, Accepted, Arrived
<1>15. CASE S_BIAS_ADDR
  BY <1>15, <1>1, <1>2 DEF S_BIAS_ADDR
<1>16. CASE S_BIAS_DATA
  BY <1>16, <1>1, <1>2 DEF S_BIAS_DATA, Accepted, Arrived
<1>17. CASE S_SHIFT_DATA
  BY <1>17, <1>1, <1>2 DEF S_SHIFT_DATA, Accepted, Arrived
<1>18. CASE S_IN_ADDR
  BY <1>18, <1>1, <1>2 DEF S_IN_ADDR
<1>19. CASE S_IN_DATA
  BY <1>19, <1>1, <1>2 DEF S_IN_DATA, Accepted, Arrived, Overlap
<1>20. CASE S_MAC
  BY <1>20, <1>1, <1>2 DEF S_MAC
<1>21. CASE S_MAC_OVLP
  BY <1>21, <1>1, <1>2 DEF S_MAC_OVLP, MacSide, LoadSide, OverlapEnds
<1>22. CASE S_WRITE_DATA
  BY <1>22, <1>1, <1>2 DEF S_WRITE_DATA, WriteAccepted
<1>23. CASE S_ADVANCE
  BY <1>23, <1>1, <1>2 DEF S_ADVANCE, Overlap
<1>24. CASE S_DONE
  BY <1>24, <1>1, <1>2 DEF S_DONE
<1>25. CASE StartLayer
  BY <1>25, <1>1, <1>2 DEF StartLayer, Start
<1>26. QED
  BY <1>10, <1>11, <1>12, <1>13, <1>14, <1>15, <1>16, <1>17, <1>18, <1>19, <1>20, <1>21, <1>22, <1>23, <1>24, <1>25 DEF Busy

LEMMA WriteDataType == TypeInv /\ S_WRITE_ADDR => bus'.hwdata \in Result
BY DEF S_WRITE_ADDR, TypeInv, DataTypes, Products, Result, Biased, Shifted

LEMMA BusTypeStep ==
    ASSUME TypeInv, S_IDLE \/ Busy \/ StartLayer
    PROVE  /\ bus' \in [htrans : BOOLEAN, hwrite : BOOLEAN,
                        haddr : [of : Array \cup {"dst"}, at : Nat], hwdata : Result \cup {None}]
           /\ bus'.hwdata = bus.hwdata \/ S_WRITE_ADDR
<1>1. /\ bus \in [htrans : BOOLEAN, hwrite : BOOLEAN,
                  haddr : [of : Array \cup {"dst"}, at : Nat], hwdata : Result \cup {None}]
      /\ bus.haddr.at + 1 \in Nat /\ bus.haddr.at + 4 \in Nat
  BY DEF TypeInv, DataTypes
<1>2. CASE Advance(1) \/ Advance(4)
  <2>1. PICK n \in {1, 4} : Advance(n)
    BY <1>2
  <2>2. bus' = [htrans |-> TRUE, hwrite |-> bus.hwrite,
                haddr |-> [of |-> bus.haddr.of, at |-> bus.haddr.at + n],
                hwdata |-> bus.hwdata]
    BY <2>1, PortOps DEF Array
  <2>3. QED
    BY <1>1, <2>2
<1>3. CASE Release
  <2>1. 0 \in Nat /\ "src" \in Array
    BY DEF Array
  <2>2. bus' = [htrans |-> FALSE, hwrite |-> bus.hwrite, haddr |-> bus.haddr, hwdata |-> bus.hwdata]
    BY <1>3, <2>1, PortOps
  <2>3. QED
    BY <1>1, <2>2
<1>4. CASE \E a \in Array, n \in Nat : Read(a, n)
  <2>1. PICK a \in Array, n \in Nat : Read(a, n)
    BY <1>4
  <2>2. bus' = [htrans |-> TRUE, hwrite |-> FALSE,
                haddr |-> [of |-> a, at |-> n], hwdata |-> bus.hwdata]
    BY <2>1, PortOps
  <2>3. QED
    BY <1>1, <2>2
<1>5. CASE S_WRITE_ADDR
  <2>1. w_pos * cfg.c_out + c_pos \in Nat
    BY Sizes DEF TypeInv, TypeOK
  <2>2. bus'.hwdata \in Result
    BY <1>5, WriteDataType
  <2>3. QED
    BY <1>5, <2>1, <2>2 DEF S_WRITE_ADDR
<1>6. CASE state = "WRITE_DATA" /\ bus' = [bus EXCEPT !.htrans = FALSE, !.hwrite = FALSE]
  BY <1>1, <1>6
<1>7. CASE bus' = bus
  BY <1>1, <1>7
<1>8. QED
  BY <1>2, <1>3, <1>4, <1>5, <1>6, <1>7, PortMoves

\* What a read brings is a word of an array, and its lanes are bytes.
LEMMA ReadData ==
    ASSUME TypeInv
    PROVE  hrdata \in Word /\ \A l \in Nat : Lane(hrdata, l) \in Word /\ Byte(l) \in Word
<1>1. hrdata \in Word
  <2>1. CASE dphase = None \/ dphase.hwrite
    BY <2>1 DEF hrdata, Undriven, Word
  <2>2. CASE ~(dphase = None \/ dphase.hwrite)
    <3>1. dphase.haddr.of \in Array /\ dphase.haddr.at \in Nat
      BY <2>2 DEF TypeInv, TypeOK, DataPhase, Transfer
    <3>2. dphase.haddr.at - (dphase.haddr.at % 4) \in Nat
      BY <3>1
    <3>3. QED
      BY <2>2, <3>1, <3>2 DEF hrdata, Array, Word
  <2>3. QED
    BY <2>1, <2>2
<1>2. \A l \in Nat : Lane(hrdata, l) \in Word
  BY <1>1 DEF Lane, Word
<1>3. \A l \in Nat : l % 4 \in Nat
  OBVIOUS
<1>4. QED
  BY <1>1, <1>2, <1>3 DEF Byte

LEMMA MacType == TypeInv => mac4 \in Products
<1> SUFFICES ASSUME TypeInv PROVE mac4 \in Products
  OBVIOUS
<1>1. /\ acc.n \in Nat /\ acc.pairs \subseteq Word \X (Word \cup {Zero})
      /\ \A l \in lanes : l \in 0..3
  BY DEF TypeInv, DataTypes, Products, lanes
<1>2. /\ in_buf[buf_sel][mac_idx] \in Word
      /\ \A l \in 0..3 : wt_buf[mac_idx][l] \in Word \cup {Zero}
  BY DEF TypeInv, TypeOK, DataTypes
<1>3. \A l \in 0..3 : Lane(in_buf[buf_sel][mac_idx], l) \in Word
  BY <1>2 DEF Lane, Word
<1>4. {<<Lane(in_buf[buf_sel][mac_idx], l), wt_buf[mac_idx][l]>> : l \in lanes}
          \subseteq Word \X (Word \cup {Zero})
  BY <1>1, <1>2, <1>3
<1>5. QED
  BY <1>1, <1>4 DEF mac4, Products

\* Words are stored into the buffers, and nothing else.
LEMMA BufferTypesStep ==
    ASSUME TypeInv, S_IDLE \/ Busy \/ StartLayer
    PROVE  in_buf' \in [0..1 -> [Buffer -> Word]] /\ wt_buf' \in [Buffer -> [0..3 -> Word \cup {Zero}]]
<1>1. in_buf \in [0..1 -> [Buffer -> Word]] /\ wt_buf \in [Buffer -> [0..3 -> Word \cup {Zero}]]
  BY DEF TypeInv, DataTypes
<1>2. /\ hrdata \in Word /\ Lane(hrdata, 0) \in Word /\ Lane(hrdata, 1) \in Word
      /\ Lane(hrdata, 2) \in Word /\ Lane(hrdata, 3) \in Word
      /\ Byte(wt_addr + buf_idx) \in Word
  <2>1. wt_addr + buf_idx \in Nat
    BY Sizes DEF TypeInv, TypeOK, wt_addr
  <2>2. QED
    BY <2>1, ReadData
<1>3. in_buf' \in [0..1 -> [Buffer -> Word]]
  <2>1. /\ [in_buf EXCEPT ![buf_sel][buf_idx] = hrdata] \in [0..1 -> [Buffer -> Word]]
        /\ [in_buf EXCEPT ![inactive][buf_idx] = hrdata] \in [0..1 -> [Buffer -> Word]]
    BY <1>1, <1>2
  <2>2. \/ in_buf' = in_buf
        \/ in_buf' = [in_buf EXCEPT ![buf_sel][buf_idx] = hrdata]
        \/ in_buf' = [in_buf EXCEPT ![inactive][buf_idx] = hrdata]
    BY DEF Busy, S_IDLE, S_INIT, S_WT_ADDR, S_WT_DATA_W, S_WT_DATA, S_BIAS_ADDR, S_BIAS_DATA,
       S_SHIFT_DATA, S_IN_ADDR, S_IN_DATA, S_MAC, S_MAC_OVLP, S_WRITE_ADDR, S_WRITE_DATA,
       S_ADVANCE, S_DONE, StartLayer, Start, buffers, LoadSide
  <2>3. QED
    BY <1>1, <2>1, <2>2
<1>4. wt_buf' \in [Buffer -> [0..3 -> Word \cup {Zero}]]
  <2>1. ClearedLastWord \in [Buffer -> [0..3 -> Word \cup {Zero}]]
    BY <1>1 DEF ClearedLastWord
  <2>2. [wt_buf EXCEPT ![wt_word_idx] = [l \in 0..3 |-> Lane(hrdata, l)]]
            \in [Buffer -> [0..3 -> Word \cup {Zero}]]
    <3>1. [l \in 0..3 |-> Lane(hrdata, l)] \in [0..3 -> Word \cup {Zero}]
      BY ReadData
    <3>2. QED
      BY <1>1, <3>1
  <2>3. [wt_buf EXCEPT ![(buf_idx \div 4) % BufWords][buf_idx % 4] = Byte(wt_addr + buf_idx)]
            \in [Buffer -> [0..3 -> Word \cup {Zero}]]
    BY <1>1, <1>2
  <2>4. \/ wt_buf' = wt_buf
        \/ wt_buf' = ClearedLastWord
        \/ wt_buf' = [wt_buf EXCEPT ![wt_word_idx] = [l \in 0..3 |-> Lane(hrdata, l)]]
        \/ wt_buf' = [wt_buf EXCEPT ![(buf_idx \div 4) % BufWords][buf_idx % 4] =
                          Byte(wt_addr + buf_idx)]
    BY DEF Busy, S_IDLE, S_INIT, S_WT_ADDR, S_WT_DATA_W, S_WT_DATA, S_BIAS_ADDR, S_BIAS_DATA,
       S_SHIFT_DATA, S_IN_ADDR, S_IN_DATA, S_MAC, S_MAC_OVLP, S_WRITE_ADDR, S_WRITE_DATA,
       S_ADVANCE, S_DONE, StartLayer, Start, buffers
  <2>5. QED
    BY <1>1, <2>1, <2>2, <2>3, <2>4
<1>5. QED
  BY <1>3, <1>4

\* The accumulator, the bias and the shift.
LEMMA DatapathStep ==
    ASSUME TypeInv, S_IDLE \/ Busy \/ StartLayer
    PROVE  /\ acc' \in Products
           /\ bias_val' \in Word \cup {None} /\ cur_shift' \in Word \cup {None}
           /\ Biased' => bias_val' \in Word
           /\ Shifted' => cur_shift' \in Word
<1>1. /\ acc \in Products /\ mac4 \in Products /\ NoProducts \in Products
      /\ bias_val \in Word \cup {None} /\ cur_shift \in Word \cup {None}
      /\ Biased => bias_val \in Word
      /\ Shifted => cur_shift \in Word
  BY MacType DEF TypeInv, TypeOK, DataTypes, NoProducts, Products
<1>2. hrdata \in Word /\ Byte(cfg.shift + c_pos) \in Word
  BY ReadData, Sizes DEF TypeInv, TypeOK
<1>3. acc' \in Products
  BY <1>1 DEF Busy, S_IDLE, S_INIT, S_WT_ADDR, S_WT_DATA_W, S_WT_DATA, S_BIAS_ADDR, S_BIAS_DATA,
     S_SHIFT_DATA, S_IN_ADDR, S_IN_DATA, S_MAC, S_MAC_OVLP, S_WRITE_ADDR, S_WRITE_DATA,
     S_ADVANCE, S_DONE, StartLayer, Start, datapath, MacSide
<1>10. ASSUME S_IDLE
       PROVE  /\ bias_val' \in Word \cup {None} /\ cur_shift' \in Word \cup {None}
              /\ Biased' => bias_val' \in Word
              /\ Shifted' => cur_shift' \in Word
  BY <1>10, <1>1, <1>2 DEF S_IDLE, datapath, Biased, Shifted
<1>11. ASSUME S_INIT
       PROVE  /\ bias_val' \in Word \cup {None} /\ cur_shift' \in Word \cup {None}
              /\ Biased' => bias_val' \in Word
              /\ Shifted' => cur_shift' \in Word
  BY <1>11, <1>1, <1>2 DEF S_INIT, datapath, Biased, Shifted
<1>12. ASSUME S_WT_ADDR
       PROVE  /\ bias_val' \in Word \cup {None} /\ cur_shift' \in Word \cup {None}
              /\ Biased' => bias_val' \in Word
              /\ Shifted' => cur_shift' \in Word
  BY <1>12, <1>1, <1>2 DEF S_WT_ADDR, datapath, Biased, Shifted
<1>13. ASSUME S_WT_DATA_W
       PROVE  /\ bias_val' \in Word \cup {None} /\ cur_shift' \in Word \cup {None}
              /\ Biased' => bias_val' \in Word
              /\ Shifted' => cur_shift' \in Word
  BY <1>13, <1>1, <1>2 DEF S_WT_DATA_W, datapath, Biased, Shifted
<1>14. ASSUME S_WT_DATA
       PROVE  /\ bias_val' \in Word \cup {None} /\ cur_shift' \in Word \cup {None}
              /\ Biased' => bias_val' \in Word
              /\ Shifted' => cur_shift' \in Word
  BY <1>14, <1>1, <1>2 DEF S_WT_DATA, datapath, Biased, Shifted
<1>15. ASSUME S_BIAS_ADDR
       PROVE  /\ bias_val' \in Word \cup {None} /\ cur_shift' \in Word \cup {None}
              /\ Biased' => bias_val' \in Word
              /\ Shifted' => cur_shift' \in Word
  BY <1>15, <1>1, <1>2 DEF S_BIAS_ADDR, datapath, Biased, Shifted
<1>16. ASSUME S_BIAS_DATA
       PROVE  /\ bias_val' \in Word \cup {None} /\ cur_shift' \in Word \cup {None}
              /\ Biased' => bias_val' \in Word
              /\ Shifted' => cur_shift' \in Word
  BY <1>16, <1>1, <1>2 DEF S_BIAS_DATA, datapath, Biased, Shifted
<1>17. ASSUME S_SHIFT_DATA
       PROVE  /\ bias_val' \in Word \cup {None} /\ cur_shift' \in Word \cup {None}
              /\ Biased' => bias_val' \in Word
              /\ Shifted' => cur_shift' \in Word
  BY <1>17, <1>1, <1>2 DEF S_SHIFT_DATA, datapath, Biased, Shifted
<1>18. ASSUME S_IN_ADDR
       PROVE  /\ bias_val' \in Word \cup {None} /\ cur_shift' \in Word \cup {None}
              /\ Biased' => bias_val' \in Word
              /\ Shifted' => cur_shift' \in Word
  BY <1>18, <1>1, <1>2 DEF S_IN_ADDR, datapath, Biased, Shifted
<1>19. ASSUME S_IN_DATA
       PROVE  /\ bias_val' \in Word \cup {None} /\ cur_shift' \in Word \cup {None}
              /\ Biased' => bias_val' \in Word
              /\ Shifted' => cur_shift' \in Word
  BY <1>19, <1>1, <1>2 DEF S_IN_DATA, Overlap, datapath, Biased, Shifted
<1>20. ASSUME S_MAC
       PROVE  /\ bias_val' \in Word \cup {None} /\ cur_shift' \in Word \cup {None}
              /\ Biased' => bias_val' \in Word
              /\ Shifted' => cur_shift' \in Word
  BY <1>20, <1>1, <1>2 DEF S_MAC, datapath, Biased, Shifted
<1>21. ASSUME S_MAC_OVLP
       PROVE  /\ bias_val' \in Word \cup {None} /\ cur_shift' \in Word \cup {None}
              /\ Biased' => bias_val' \in Word
              /\ Shifted' => cur_shift' \in Word
  BY <1>21, <1>1, <1>2 DEF S_MAC_OVLP, OverlapEnds, datapath, Biased, Shifted
<1>22. ASSUME S_WRITE_ADDR
       PROVE  /\ bias_val' \in Word \cup {None} /\ cur_shift' \in Word \cup {None}
              /\ Biased' => bias_val' \in Word
              /\ Shifted' => cur_shift' \in Word
  BY <1>22, <1>1, <1>2 DEF S_WRITE_ADDR, datapath, Biased, Shifted
<1>23. ASSUME S_WRITE_DATA
       PROVE  /\ bias_val' \in Word \cup {None} /\ cur_shift' \in Word \cup {None}
              /\ Biased' => bias_val' \in Word
              /\ Shifted' => cur_shift' \in Word
  BY <1>23, <1>1, <1>2 DEF S_WRITE_DATA, datapath, Biased, Shifted
<1>24. ASSUME S_ADVANCE
       PROVE  /\ bias_val' \in Word \cup {None} /\ cur_shift' \in Word \cup {None}
              /\ Biased' => bias_val' \in Word
              /\ Shifted' => cur_shift' \in Word
  BY <1>24, <1>1, <1>2 DEF S_ADVANCE, Overlap, datapath, Biased, Shifted
<1>25. ASSUME S_DONE
       PROVE  /\ bias_val' \in Word \cup {None} /\ cur_shift' \in Word \cup {None}
              /\ Biased' => bias_val' \in Word
              /\ Shifted' => cur_shift' \in Word
  BY <1>25, <1>1, <1>2 DEF S_DONE, datapath, Biased, Shifted
<1>26. ASSUME StartLayer
       PROVE  /\ bias_val' \in Word \cup {None} /\ cur_shift' \in Word \cup {None}
              /\ Biased' => bias_val' \in Word
              /\ Shifted' => cur_shift' \in Word
  BY <1>26, <1>1, <1>2 DEF StartLayer, Start, datapath, Biased, Shifted
<1>27. QED
  BY <1>3, <1>10, <1>11, <1>12, <1>13, <1>14, <1>15, <1>16, <1>17, <1>18, <1>19, <1>20, <1>21, <1>22, <1>23, <1>24, <1>25, <1>26 DEF Busy

LEMMA DataTypesStep ==
    ASSUME TypeInv, S_IDLE \/ Busy \/ StartLayer
    PROVE  DataTypes'
<1>1. state' = "WRITE_DATA" => S_WRITE_ADDR \/ state = "WRITE_DATA"
  BY DEF Busy, S_IDLE, S_INIT, S_WT_ADDR, S_WT_DATA_W, S_WT_DATA, S_BIAS_ADDR, S_BIAS_DATA,
     S_SHIFT_DATA, S_IN_ADDR, S_IN_DATA, S_MAC, S_MAC_OVLP, S_WRITE_DATA,
     S_ADVANCE, S_DONE, StartLayer, Start, Overlap
<1>2. state = "WRITE_DATA" => bus.hwdata \in Result
  BY DEF TypeInv, DataTypes
<1>3. state' = "WRITE_DATA" => bus'.hwdata \in Result
  BY <1>1, <1>2, BusTypeStep, WriteDataType
<1>4. QED
  BY <1>3, BusTypeStep, BufferTypesStep, DatapathStep DEF DataTypes

LEMMA InitType == Init => TypeInv
<1> SUFFICES ASSUME Init PROVE TypeInv
  OBVIOUS
<1>1. /\ cfg \in Configs /\ BufWords \in Nat \ {0} /\ MaxStall \in Nat
      /\ Undriven \in Word
  BY Sizes DEF Init, Undriven, Word
<1>2. Registers
  <2>1. 0 \in 0 .. 2 * BufWords - 1 /\ 0 \in Buffer
    BY <1>1 DEF Buffer
  <2>2. /\ state = "IDLE" /\ ~r_busy /\ r_busy \in BOOLEAN /\ r_done \in BOOLEAN /\ r_wait \in BOOLEAN
        /\ w_pos = 0 /\ c_pos = 0 /\ buf_idx = 0 /\ mac_idx = 0 /\ wt_word_idx = 0 /\ buf_sel = 0
        /\ mac_done \in BOOLEAN /\ load_done \in BOOLEAN
    BY DEF Init
  <2>3. QED
    BY <1>1, <2>1, <2>2 DEF Registers
<1>3. DataTypes
  <2>1. bus \in [htrans : BOOLEAN, hwrite : BOOLEAN,
                 haddr : [of : Array \cup {"dst"}, at : Nat], hwdata : Result \cup {None}]
    BY DEF Init, Array
  <2>2. in_buf \in [0..1 -> [Buffer -> Word]] /\ wt_buf \in [Buffer -> [0..3 -> Word \cup {Zero}]]
    BY <1>1 DEF Init
  <2>3. acc \in Products
    BY DEF Init, NoProducts, Products
  <2>4. QED
    BY <2>1, <2>2, <2>3 DEF Init, DataTypes, Biased, Shifted
<1>4. PortDrives /\ DataPhase /\ Loops
  BY <1>1 DEF Init, PortDrives, Loading, DataPhase, InFlight, Loops, FirstPosition
<1>5. TypeOK
  <2>1. dphase = None /\ hready = TRUE /\ stalled \in 0 .. MaxStall
    BY <1>1 DEF Init
  <2>2. bias_val = None /\ cur_shift = None
    BY DEF Init
  <2>3. bus.htrans \in BOOLEAN /\ [haddr |-> bus.haddr, hwrite |-> bus.hwrite] \in Transfer
    BY <1>3 DEF DataTypes, Transfer, Array
  <2>4. /\ \A b \in 0..1, x \in Buffer : in_buf[b][x] \in Word
        /\ \A x \in Buffer, l \in 0..3 : wt_buf[x][l] \in Word \cup {Zero}
    BY <1>3 DEF DataTypes
  <2>5. QED
    BY <1>2, <2>1, <2>2, <2>3, <2>4 DEF Registers, TypeOK
<1>6. QED
  BY <1>3, <1>4, <1>5 DEF TypeInv

\* A step is a clock of the bus and of the FSM, or the start of a layer.
LEMMA NextCases ==
    ASSUME Next
    PROVE  /\ S_IDLE \/ Busy \/ StartLayer
           /\ BusStep
           /\ StartLayer \/ MemoryStep
BY DEF Next, Clock, StartLayer

LEMMA StepType == TypeInv /\ [Next]_vars => TypeInv'
<1> SUFFICES ASSUME TypeInv, [Next]_vars PROVE TypeInv'
  OBVIOUS
<1>1. CASE Next
  <2>1. (S_IDLE \/ Busy \/ StartLayer) /\ BusStep
    BY <1>1, NextCases
  <2>2. Registers' /\ PortDrives' /\ Loops' /\ DataTypes'
    BY <2>1, RegistersStep, PortStep, LoopsStep, DataTypesStep
  <2>3. /\ dphase' \in Transfer \cup {None} /\ hready' \in BOOLEAN /\ stalled' \in 0 .. MaxStall
        /\ DataPhase'
    BY <2>1, BusMoves
  <2>4. bias_val' \in Word \cup {None} /\ cur_shift' \in Word \cup {None}
    BY <2>1, DatapathStep
  <2>5. TypeOK'
    <3>1. bus'.htrans \in BOOLEAN /\ [haddr |-> bus'.haddr, hwrite |-> bus'.hwrite] \in Transfer
      BY <2>2 DEF DataTypes, Transfer, Array
    <3>2. /\ \A b \in 0..1, x \in Buffer : in_buf'[b][x] \in Word
          /\ \A x \in Buffer, l \in 0..3 : wt_buf'[x][l] \in Word \cup {Zero}
      BY <2>2 DEF DataTypes
    <3>3. QED
      BY <2>2, <2>3, <2>4, <3>1, <3>2 DEF Registers, TypeOK
  <2>6. QED
    BY <2>2, <2>3, <2>5 DEF TypeInv
<1>2. CASE UNCHANGED vars
  BY <1>2 DEF vars, counters, buffers, flags, datapath, TypeInv, TypeOK, DataTypes, PortDrives,
     DataPhase, Loops, Biased, Shifted, Loading, InFlight, FirstPosition, last_w, last_c, LastWord,
     patch_words
<1>3. QED
  BY <1>1, <1>2

\* The types of the accelerator, for any layers, buffers and wait states; a burst is
\* the only user of the port while it runs.
THEOREM TypeCorrect == Spec => []TypeOK
<1>1. Spec => []TypeInv
  BY InitType, StepType, PTL DEF Spec
<1>2. TypeInv => TypeOK
  BY DEF TypeInv
<1>3. QED
  BY <1>1, <1>2, PTL

-----------------------------------------------------------------------------
(* Outputs: a write ends before its data is replaced.                      *)

\* The state names the action.
LEMMA ActionOf ==
    ASSUME S_IDLE \/ Busy \/ StartLayer
    PROVE  /\ state = "IDLE" => S_IDLE \/ StartLayer
           /\ state = "INIT" => S_INIT
           /\ state = "WT_ADDR" => S_WT_ADDR
           /\ state = "WT_DATA_W" => S_WT_DATA_W
           /\ state = "WT_DATA" => S_WT_DATA
           /\ state = "BIAS_ADDR" => S_BIAS_ADDR
           /\ state = "BIAS_DATA" => S_BIAS_DATA
           /\ state = "SHIFT_DATA" => S_SHIFT_DATA
           /\ state = "IN_ADDR" => S_IN_ADDR
           /\ state = "IN_DATA" => S_IN_DATA
           /\ state = "MAC" => S_MAC
           /\ state = "MAC_OVLP" => S_MAC_OVLP
           /\ state = "WRITE_ADDR" => S_WRITE_ADDR
           /\ state = "WRITE_DATA" => S_WRITE_DATA
           /\ state = "ADVANCE" => S_ADVANCE
           /\ state = "DONE" => S_DONE
BY DEF Busy, S_IDLE, S_INIT, S_WT_ADDR, S_WT_DATA_W, S_WT_DATA, S_BIAS_ADDR, S_BIAS_DATA,
     S_SHIFT_DATA, S_IN_ADDR, S_IN_DATA, S_MAC, S_MAC_OVLP, S_WRITE_ADDR, S_WRITE_DATA,
     S_ADVANCE, S_DONE, StartLayer, Start

LEMMA CfgStays ==
    ASSUME S_IDLE \/ Busy
    PROVE  /\ cfg' = cfg /\ patch_words' = patch_words /\ LastWord' = LastWord /\ LastIn' = LastIn
           /\ last_w' = last_w /\ last_c' = last_c /\ Position' = Position /\ Channel' = Channel
           /\ \A w, c : Place(w, c)' = Place(w, c)
<1>1. cfg' = cfg
  BY DEF Busy, S_IDLE, S_INIT, S_WT_ADDR, S_WT_DATA_W, S_WT_DATA, S_BIAS_ADDR, S_BIAS_DATA,
     S_SHIFT_DATA, S_IN_ADDR, S_IN_DATA, S_MAC, S_MAC_OVLP, S_WRITE_ADDR, S_WRITE_DATA,
     S_ADVANCE, S_DONE, StartLayer, Start
<1>2. QED
  BY <1>1 DEF patch_words, LastWord, LastIn, last_w, last_c, Position, Channel, Place

LEMMA InitControl == Init => ControlInv
<1> SUFFICES ASSUME Init PROVE ControlInv
  OBVIOUS
<1>1. dphase = None /\ state = "IDLE" /\ ~r_done
  BY DEF Init
<1>2. QED
  BY <1>1, InitType DEF ControlInv, WriteWaits, OutputsWritten, InFlight, Started

LEMMA WriteWaitsStep ==
    ASSUME ShortWrites, TypeInv, WriteWaits, Next
    PROVE  WriteWaits'
<1>1. (S_IDLE \/ Busy \/ StartLayer) /\ BusStep
  BY NextCases
<1> SUFFICES ASSUME InFlight' PROVE WriteWaits'
  BY DEF WriteWaits
<1>2. CASE state = "WRITE_DATA" /\ hready /\ stalled' = 0
  BY <1>1, <1>2, ActionOf DEF S_WRITE_DATA, WriteAccepted, WriteWaits
<1>3. CASE /\ InFlight /\ ~hready /\ dphase' = dphase
           /\ stalled < MaxStall /\ stalled' = stalled + 1
  <2>1. /\ Registers /\ Loops /\ cfg \in Configs /\ stalled \in Nat /\ MaxStall \in Nat
        /\ w_pos \in Nat /\ mac_idx \in Nat
    BY RegisterTypes, StallAssumption DEF TypeInv, TypeOK, Buffer
  <2>2. /\ patch_words \in 1 .. BufWords - 1 /\ LastWord = patch_words - 1
        /\ patch_words = (cfg.patch_bytes + 3) \div 4 /\ BufWords \in Nat
    BY <2>1, Sizes
  <2>3. cfg' = cfg => patch_words' = patch_words
    BY DEF patch_words
  <2>4. CASE state = "ADVANCE" /\ stalled = 0
    <3>1. S_ADVANCE /\ stalled' = 1
      BY <1>1, <1>3, <2>4, ActionOf
    <3>2. \/ state' = "MAC" /\ w_pos' = w_pos + 1 /\ mac_idx' = 0
          \/ state' = "MAC_OVLP" /\ load_done' = FALSE /\ r_wait' = TRUE
          \/ state' = "WT_ADDR"
          \/ state' = "DONE"
      BY <3>1 DEF S_ADVANCE, Overlap
    <3>3. w_pos + 1 > 0 /\ stalled' = 0 + 1
      BY <2>1, <3>1
    <3>4. QED
      BY <3>1, <3>2, <3>3 DEF WriteWaits
  <2>5. CASE state = "MAC" /\ w_pos > 0 /\ stalled = mac_idx + 1
    <3>1. S_MAC /\ cfg' = cfg /\ w_pos' = w_pos
      BY <1>1, <2>5, ActionOf DEF S_MAC
    <3>2. CASE mac_idx = LastWord
      <4>1. state' = "WRITE_ADDR" /\ stalled' = patch_words + 1
        BY <1>3, <2>2, <2>5, <3>1, <3>2 DEF S_MAC
      <4>2. QED
        BY <2>3, <2>5, <3>1, <4>1 DEF WriteWaits
    <3>3. CASE mac_idx # LastWord
      <4>1. mac_idx + 1 \in Buffer
        BY <2>1, <2>2, <2>5, <3>3 DEF Loops, Buffer
      <4>2. state' = "MAC" /\ mac_idx' = mac_idx + 1
        BY <2>1, <2>5, <3>1, <3>3, <4>1, Increment DEF S_MAC
      <4>3. QED
        BY <1>3, <2>1, <2>5, <3>1, <4>2 DEF WriteWaits
    <3>4. QED
      BY <3>2, <3>3
  <2>6. CASE state = "WRITE_ADDR" /\ w_pos > 0 /\ stalled = patch_words + 1
    <3>1. cfg.w_out > 1
      BY <2>1, <2>6, Sizes DEF Registers
    <3>2. MaxStall <= patch_words + 1
      BY <2>1, <2>2, <3>1 DEF ShortWrites
    <3>3. QED
      BY <1>3, <2>1, <2>2, <2>6, <3>2
  <2>7. CASE state = "MAC_OVLP" /\ ~load_done /\ r_wait
    BY <1>1, <1>3, <2>7, ActionOf DEF S_MAC_OVLP, LoadSide, OverlapEnds, WriteWaits
  <2>8. CASE state = "WT_ADDR"
    BY <1>1, <2>8, ActionOf DEF S_WT_ADDR, WriteWaits
  <2>9. CASE state = "WT_DATA_W" /\ r_wait
    BY <1>1, <1>3, <2>9, ActionOf DEF S_WT_DATA_W, Accepted, Arrived, WriteWaits
  <2>10. CASE state = "WT_DATA" /\ r_wait
    BY <1>1, <1>3, <2>10, ActionOf DEF S_WT_DATA, Accepted, Arrived, WriteWaits
  <2>11. CASE state = "DONE" /\ stalled = 1
    <3>1. S_DONE /\ stalled' > 1
      BY <1>1, <1>3, <2>11, ActionOf
    <3>2. state' = "IDLE" /\ r_done' = TRUE
      BY <3>1 DEF S_DONE
    <3>3. QED
      BY <3>1, <3>2 DEF WriteWaits
  <2>12. CASE state = "IDLE" /\ r_done /\ stalled > 1
    <3>1. S_IDLE
      BY <1>1, <1>3, <2>12, ActionOf DEF StartLayer, InFlight
    <3>2. QED
      BY <1>3, <2>1, <2>12, <3>1 DEF S_IDLE, flags, WriteWaits
  <2>13. QED
    BY <1>3, <2>4, <2>5, <2>6, <2>7, <2>8, <2>9, <2>10, <2>11, <2>12 DEF WriteWaits
<1>4. QED
  BY <1>1, <1>2, <1>3, BusMoves

\* An output is issued when S_WRITE_DATA sees HREADY, and at no other time.
LEMMA IssuedStep ==
    ASSUME TypeInv, S_IDLE \/ Busy, Started,
           NEW w \in Position, NEW c \in Channel
    PROVE  Issued(w, c)' <=> Issued(w, c) \/ (/\ state = "WRITE_DATA" /\ hready
                                            /\ w = w_pos /\ c = c_pos)
<1>1. /\ Registers /\ Loops /\ w \in Nat /\ c \in Nat /\ w_pos \in Nat /\ c_pos \in Nat
      /\ w < cfg.w_out /\ c < cfg.c_out /\ cfg.w_out \in Nat /\ cfg.c_out \in Nat
  BY RegisterTypes, Sizes DEF TypeInv, TypeOK, Position, Channel
<1>2. CASE S_ADVANCE
  <2>1. state = "ADVANCE" /\ w_pos < cfg.w_out /\ c_pos < cfg.c_out
    BY <1>1, <1>2 DEF S_ADVANCE, Registers
  <2>2. CASE w_pos < last_w
    <3>1. state' \in {"MAC", "MAC_OVLP"} /\ w_pos' = w_pos + 1 /\ c_pos' = c_pos
      BY <1>2, <2>2 DEF S_ADVANCE, Overlap
    <3>2. QED
      BY <1>1, <2>1, <3>1 DEF Issued
  <2>3. CASE ~(w_pos < last_w) /\ c_pos < last_c
    <3>1. state' = "WT_ADDR" /\ w_pos' = 0 /\ c_pos' = c_pos + 1
      BY <1>2, <2>3 DEF S_ADVANCE
    <3>2. QED
      BY <1>1, <2>1, <2>3, <3>1 DEF Issued, last_w
  <2>4. CASE ~(w_pos < last_w) /\ ~(c_pos < last_c)
    <3>1. state' = "DONE"
      BY <1>2, <2>4 DEF S_ADVANCE
    <3>2. QED
      BY <1>1, <2>1, <2>4, <3>1 DEF Issued, last_w, last_c
  <2>5. QED
    BY <2>2, <2>3, <2>4
<1>3. CASE S_INIT
  <2>1. state = "INIT" /\ state' = "WT_ADDR" /\ w_pos' = 0 /\ c_pos' = 0
    BY <1>3 DEF S_INIT
  <2>2. QED
    BY <1>1, <2>1 DEF Issued
<1>4. CASE S_WRITE_DATA
  BY <1>1, <1>4 DEF S_WRITE_DATA, WriteAccepted, counters, Issued
<1>5. CASE S_DONE \/ S_IDLE
  BY <1>5 DEF S_DONE, S_IDLE, Issued
<1>6. CASE \/ S_WT_ADDR \/ S_WT_DATA_W \/ S_WT_DATA \/ S_BIAS_ADDR \/ S_BIAS_DATA
           \/ S_SHIFT_DATA \/ S_IN_ADDR \/ S_IN_DATA \/ S_MAC \/ S_MAC_OVLP \/ S_WRITE_ADDR
  <2>1. /\ w_pos' = w_pos /\ c_pos' = c_pos
        /\ state \notin {"DONE", "IDLE", "INIT", "ADVANCE", "WRITE_DATA"}
        /\ state' \notin {"DONE", "IDLE", "INIT", "ADVANCE"}
    BY <1>6 DEF S_WT_ADDR, S_WT_DATA_W, S_WT_DATA, S_BIAS_ADDR, S_BIAS_DATA, S_SHIFT_DATA,
       S_IN_ADDR, S_IN_DATA, S_MAC, S_MAC_OVLP, S_WRITE_ADDR, counters, Overlap
  <2>2. QED
    BY <2>1 DEF Issued
<1>7. QED
  BY <1>2, <1>3, <1>4, <1>5, <1>6 DEF Busy

\* Two outputs have two places.
LEMMA PlaceUnique ==
    ASSUME cfg \in Configs, NEW w \in Position, NEW c \in Channel,
           NEW v \in Position, NEW d \in Channel, Place(w, c) = Place(v, d)
    PROVE  w = v /\ c = d
<1> DEFINE n == cfg.c_out
<1>1. /\ n \in Nat \ {0} /\ w \in Int /\ v \in Int /\ c \in 0 .. n - 1 /\ d \in 0 .. n - 1
      /\ w * n + c = v * n + d
  BY Sizes DEF Position, Channel, Place
<1> HIDE DEF n
<1>2. QED
  BY <1>1, RowUnique

LEMMA PlaceIn ==
    ASSUME cfg \in Configs, NEW w \in Position, NEW c \in Channel
    PROVE  Place(w, c) \in 0 .. cfg.w_out * cfg.c_out - 1
<1> DEFINE n == cfg.c_out
           m == cfg.w_out
<1>1. n \in Nat \ {0} /\ m \in Nat /\ w \in 0 .. m - 1 /\ c \in 0 .. n - 1
  BY Sizes DEF Position, Channel
<1> HIDE DEF n, m
<1>2. w * n + c \in 0 .. m * n - 1
  BY <1>1, PlaceInTable
<1>3. QED
  BY <1>2 DEF n, m, Place

\* What a clock does to the writes: one is accepted, one ends, one waits, or none is there.
LEMMA WriteMoves ==
    ASSUME TypeInv, WriteWaits, Next, ~StartLayer
    PROVE  \/ /\ state = "WRITE_DATA" /\ hready /\ ~InFlight /\ out' = out
              /\ InFlight' /\ dphase' = [haddr |-> bus.haddr, hwrite |-> TRUE]
              /\ bus'.hwdata = bus.hwdata
           \/ /\ InFlight /\ hready /\ state # "WRITE_DATA" /\ ~InFlight'
              /\ out' = [out EXCEPT ![dphase.haddr.at] = bus.hwdata]
           \/ /\ InFlight /\ ~hready /\ state # "WRITE_DATA" /\ out' = out
              /\ InFlight' /\ dphase' = dphase
           \/ /\ ~InFlight /\ ~(state = "WRITE_DATA" /\ hready) /\ ~InFlight' /\ out' = out
<1>1. (S_IDLE \/ Busy \/ StartLayer) /\ BusStep /\ MemoryStep
  BY NextCases
<1>2. hready \in BOOLEAN /\ None \notin Transfer
  BY NoneAssumption DEF TypeInv, TypeOK
<1>3. state = "WRITE_DATA" => ~InFlight
  BY DEF WriteWaits
<1>4. CASE state = "WRITE_DATA" /\ hready
  <2>1. dphase' = [haddr |-> bus.haddr, hwrite |-> TRUE]
    BY <1>1, <1>4 DEF BusStep, TypeInv, PortDrives, DataTypes
  <2>2. InFlight'
    <3>1. dphase' \in Transfer
      BY <2>1 DEF TypeInv, DataTypes, Transfer, Array
    <3>2. QED
      BY <1>2, <2>1, <3>1 DEF InFlight
  <2>3. out' = out
    BY <1>1, <1>3, <1>4 DEF MemoryStep, WriteEnds, InFlight
  <2>4. bus'.hwdata = bus.hwdata
    BY <1>1, <1>4, BusTypeStep DEF S_WRITE_ADDR
  <2>5. QED
    BY <1>3, <1>4, <2>1, <2>2, <2>3, <2>4
<1>5. CASE InFlight /\ hready
  <2>1. ~InFlight'
    BY <1>1, <1>3, <1>5, BusMoves
  <2>2. out' = [out EXCEPT ![dphase.haddr.at] = bus.hwdata]
    BY <1>1, <1>5 DEF MemoryStep, WriteEnds, InFlight
  <2>3. QED
    BY <1>3, <1>5, <2>1, <2>2
<1>6. CASE InFlight /\ ~hready
  <2>1. dphase' = dphase /\ out' = out
    BY <1>1, <1>6 DEF BusStep, MemoryStep, WriteEnds
  <2>2. InFlight'
    BY <1>6, <2>1 DEF InFlight
  <2>3. QED
    BY <1>3, <1>6, <2>1, <2>2
<1>7. CASE ~InFlight /\ ~(state = "WRITE_DATA" /\ hready)
  <2>1. ~InFlight'
    BY <1>1, <1>7, BusMoves
  <2>2. out' = out
    BY <1>1, <1>7 DEF MemoryStep, WriteEnds, InFlight
  <2>3. QED
    BY <1>7, <2>1, <2>2
<1>8. QED
  BY <1>2, <1>4, <1>5, <1>6, <1>7

\* The start of a layer: an empty array of outputs, none issued.
LEMMA StartOutputs ==
    ASSUME TypeInv, Next, StartLayer
    PROVE  OutputsWritten' /\ ~InFlight'
<1>1. PICK k \in Configs : Start(k)
  BY DEF StartLayer
<1>2. BusStep /\ cfg' = k /\ state' = "INIT" /\ dphase = None
  BY <1>1 DEF StartLayer, Start
<1>3. state # "WRITE_DATA"
  BY <1>1 DEF Start
<1>4. ~InFlight'
  BY <1>2, <1>3, NextCases, BusMoves DEF InFlight
<1>5. out' = [o \in 0 .. cfg'.w_out * cfg'.c_out - 1 |-> None]
  BY <1>1, <1>2 DEF Start
<1>6. out' \in [0 .. cfg'.w_out * cfg'.c_out - 1 -> Result \cup {None}]
  BY <1>5
<1>7. ASSUME NEW w \in Position', NEW c \in Channel'
      PROVE  out'[Place(w, c)'] = None
  <2> DEFINE n == cfg'.c_out
             m == cfg'.w_out
  <2>1. n \in Nat \ {0} /\ m \in Nat /\ w \in 0 .. m - 1 /\ c \in 0 .. n - 1
    BY <1>2, ConfigAssumption DEF Position, Channel, Config
  <2> HIDE DEF n, m
  <2>2. w * n + c \in 0 .. m * n - 1
    BY <2>1, PlaceInTable
  <2>3. QED
    BY <1>5, <2>2 DEF n, m, Place
<1>8. ASSUME NEW w, NEW c PROVE ~Issued(w, c)'
  BY <1>2 DEF Issued
<1>9. QED
  BY <1>2, <1>4, <1>6, <1>7, <1>8 DEF OutputsWritten

LEMMA OutputsWrittenStep ==
    ASSUME TypeInv, WriteWaits, OutputsWritten, Next
    PROVE  OutputsWritten'
<1>0. CASE StartLayer
  BY <1>0, StartOutputs
<1>1. CASE ~StartLayer
  <2>1. (S_IDLE \/ Busy) /\ cfg \in Configs
    BY <1>1, NextCases DEF TypeInv, TypeOK
  <2>2. /\ cfg' = cfg /\ Position' = Position /\ Channel' = Channel
        /\ \A w, c : Place(w, c)' = Place(w, c)
    BY <2>1, CfgStays
  <2> SUFFICES ASSUME Started' PROVE OutputsWritten'
    BY DEF OutputsWritten
  <2>3. Started
    BY <2>1 DEF Started, Busy, S_IDLE, flags, S_INIT, S_WT_ADDR, S_WT_DATA_W, S_WT_DATA, S_BIAS_ADDR,
       S_BIAS_DATA, S_SHIFT_DATA, S_IN_ADDR, S_IN_DATA, S_MAC, S_MAC_OVLP, S_WRITE_ADDR,
       S_WRITE_DATA, S_ADVANCE, S_DONE
  <2>4. /\ out \in [0 .. cfg.w_out * cfg.c_out - 1 -> Result \cup {None}]
        /\ \A w \in Position, c \in Channel :
              out[Place(w, c)] # None <=>
                  Issued(w, c) /\ ~(InFlight /\ dphase.haddr.at = Place(w, c))
        /\ InFlight => \E w \in Position, c \in Channel :
                           Issued(w, c) /\ dphase.haddr.at = Place(w, c)
        /\ state = "WRITE_DATA" => bus.haddr.at = Place(w_pos, c_pos)
        /\ InFlight => bus.hwdata \in Result
    BY <2>3 DEF OutputsWritten
  <2>5. \A w \in Position, c \in Channel :
            Issued(w, c)' <=> Issued(w, c) \/ (/\ state = "WRITE_DATA" /\ hready
                                              /\ w = w_pos /\ c = c_pos)
    BY <2>1, <2>3, IssuedStep
  <2>6. state = "WRITE_DATA" => w_pos \in Position /\ c_pos \in Channel
    BY <2>1, Sizes DEF TypeInv, TypeOK, Position, Channel
  <2>7. None \notin Result
    BY NoneAssumption
  <2>8. state' = "WRITE_DATA" => bus'.haddr.at = Place(w_pos, c_pos)'
    <3>1. CASE S_WRITE_ADDR
      BY <3>1 DEF S_WRITE_ADDR, counters, Place
    <3>2. CASE S_WRITE_DATA
      BY <2>4, <3>2 DEF S_WRITE_DATA, counters, Place
    <3>3. CASE ~S_WRITE_ADDR /\ ~S_WRITE_DATA
      BY <2>1, <3>3 DEF Busy, S_IDLE, S_INIT, S_WT_ADDR, S_WT_DATA_W, S_WT_DATA, S_BIAS_ADDR,
         S_BIAS_DATA, S_SHIFT_DATA, S_IN_ADDR, S_IN_DATA, S_MAC, S_MAC_OVLP, S_ADVANCE, S_DONE, Overlap
    <3>4. QED
      BY <3>1, <3>2, <3>3
  <2>9. /\ out' \in [0 .. cfg'.w_out * cfg'.c_out - 1 -> Result \cup {None}]
        /\ \A w \in Position', c \in Channel' :
              out'[Place(w, c)'] # None <=>
                  Issued(w, c)' /\ ~(InFlight' /\ dphase'.haddr.at = Place(w, c)')
        /\ InFlight' => \E w \in Position', c \in Channel' :
                           Issued(w, c)' /\ dphase'.haddr.at = Place(w, c)'
        /\ InFlight' => bus'.hwdata \in Result
    <3>1. CASE /\ state = "WRITE_DATA" /\ hready /\ ~InFlight /\ out' = out
               /\ InFlight' /\ dphase' = [haddr |-> bus.haddr, hwrite |-> TRUE]
               /\ bus'.hwdata = bus.hwdata
      <4>0. PICK v \in Position, d \in Channel : v = w_pos /\ d = c_pos
        BY <2>6, <3>1
      <4>1. dphase'.haddr.at = Place(v, d)
        BY <2>4, <3>1, <4>0
      <4>2. ~Issued(v, d) /\ Issued(v, d)'
        <5>1. ~Issued(v, d)
          BY <3>1, <2>1, <4>0 DEF Issued, TypeInv, TypeOK
        <5>2. QED
          BY <2>5, <3>1, <4>0, <5>1
      <4>3. \A w \in Position, c \in Channel :
               dphase'.haddr.at = Place(w, c) => w = v /\ c = d
        BY <2>1, <4>1, PlaceUnique
      <4>4. bus'.hwdata \in Result
        BY <3>1 DEF TypeInv, DataTypes
      <4>5. QED
        BY <2>2, <2>4, <2>5, <3>1, <4>0, <4>1, <4>2, <4>3, <4>4
    <3>2. CASE /\ InFlight /\ hready /\ state # "WRITE_DATA" /\ ~InFlight'
               /\ out' = [out EXCEPT ![dphase.haddr.at] = bus.hwdata]
      <4>1. PICK v \in Position, d \in Channel : Issued(v, d) /\ dphase.haddr.at = Place(v, d)
        BY <2>4, <3>2
      <4>2. \A w \in Position, c \in Channel : Place(w, c) \in 0 .. cfg.w_out * cfg.c_out - 1
        BY <2>1, PlaceIn
      <4>3. out' \in [0 .. cfg.w_out * cfg.c_out - 1 -> Result \cup {None}]
        BY <2>4, <3>2
      <4>4. ASSUME NEW w \in Position, NEW c \in Channel
            PROVE  out'[Place(w, c)] # None <=> Issued(w, c)
        <5>1. CASE Place(w, c) = dphase.haddr.at
          <6>1. w = v /\ c = d
            BY <2>1, <4>1, <5>1, PlaceUnique
          <6>2. out'[Place(w, c)] = bus.hwdata
            BY <2>4, <3>2, <4>2, <5>1
          <6>3. QED
            BY <2>4, <2>7, <3>2, <4>1, <6>1, <6>2
        <5>2. CASE Place(w, c) # dphase.haddr.at
          <6>1. out'[Place(w, c)] = out[Place(w, c)]
            BY <2>4, <3>2, <4>2, <5>2
          <6>2. QED
            BY <2>4, <5>2, <6>1
        <5>3. QED
          BY <5>1, <5>2
      <4>5. QED
        BY <2>2, <2>5, <3>2, <4>3, <4>4
    <3>3. CASE /\ InFlight /\ ~hready /\ state # "WRITE_DATA" /\ out' = out
               /\ InFlight' /\ dphase' = dphase
      <4>1. bus'.hwdata \in Result
        BY <2>1, <2>4, <3>3, BusTypeStep, WriteDataType
      <4>2. QED
        BY <2>2, <2>4, <2>5, <3>3, <4>1
    <3>4. CASE /\ ~InFlight /\ ~(state = "WRITE_DATA" /\ hready) /\ ~InFlight' /\ out' = out
      BY <2>2, <2>4, <2>5, <3>4
    <3>5. QED
      BY <1>1, <3>1, <3>2, <3>3, <3>4, WriteMoves
  <2>10. QED
    BY <2>8, <2>9 DEF OutputsWritten
<1>2. QED
  BY <1>0, <1>1

LEMMA StepControl == ShortWrites /\ ControlInv /\ [Next]_vars => ControlInv'
<1> SUFFICES ASSUME ShortWrites, ControlInv, [Next]_vars PROVE ControlInv'
  OBVIOUS
<1>1. CASE Next
  BY <1>1, StepType, WriteWaitsStep, OutputsWrittenStep DEF ControlInv
<1>2. CASE UNCHANGED vars
  <2>1. TypeInv'
    BY StepType DEF ControlInv
  <2>2. WriteWaits'
    BY <1>2 DEF vars, counters, flags, ControlInv, WriteWaits, InFlight, patch_words
  <2>3. /\ Position' = Position /\ Channel' = Channel /\ out' = out /\ dphase' = dphase
        /\ bus' = bus /\ state' = state /\ cfg' = cfg
        /\ \A w, c : Place(w, c)' = Place(w, c) /\ Issued(w, c)' = Issued(w, c)
        /\ Place(w_pos, c_pos)' = Place(w_pos, c_pos)
        /\ Started' = Started /\ InFlight' = InFlight
    BY <1>2 DEF vars, counters, flags, Position, Channel, Place, Issued, Started, InFlight
  <2>4. OutputsWritten'
    BY <2>3 DEF ControlInv, OutputsWritten
  <2>5. QED
    BY <2>1, <2>2, <2>4 DEF ControlInv
<1>3. QED
  BY <1>1, <1>2

\* The control of the accelerator while no write waits longer than its next result takes.
THEOREM ControlInvariant == ShortWrites => (Spec => []ControlInv)
<1> SUFFICES ASSUME ShortWrites PROVE Spec => []ControlInv
  OBVIOUS
<1>1. ControlInv /\ [Next]_vars => ControlInv'
  BY StepControl
<1>2. QED
  BY <1>1, InitControl, PTL DEF Spec

\* Every output byte is written exactly once and nothing else is, S_WRITE_ADDR,
\* S_WRITE_DATA and S_ADVANCE, whatever the wait states of loads and writes.
THEOREM OutputsOnce == ShortWrites => (Spec => []EachOutputOnce)
<1> SUFFICES ASSUME ShortWrites PROVE Spec => []EachOutputOnce
  OBVIOUS
<1>1. ASSUME ControlInv PROVE EachOutputOnce
  <2> SUFFICES ASSUME WriteEnds
               PROVE  dphase.haddr.at \in DOMAIN out /\ out[dphase.haddr.at] = None
    BY DEF EachOutputOnce
  <2>1. InFlight /\ cfg \in Configs
    BY <1>1 DEF WriteEnds, InFlight, ControlInv, TypeInv, TypeOK
  <2>2. Started
    BY <1>1, <2>1 DEF ControlInv, WriteWaits, Started
  <2>3. PICK w \in Position, c \in Channel : Issued(w, c) /\ dphase.haddr.at = Place(w, c)
    BY <1>1, <2>1, <2>2 DEF ControlInv, OutputsWritten
  <2>4. out[Place(w, c)] = None
    BY <1>1, <2>1, <2>2, <2>3 DEF ControlInv, OutputsWritten
  <2>5. Place(w, c) \in DOMAIN out
    BY <1>1, <2>1, <2>2, PlaceIn DEF ControlInv, OutputsWritten
  <2>6. QED
    BY <2>3, <2>4, <2>5
<1>2. QED
  BY <1>1, ControlInvariant, PTL

\* The write that the loops leave on the bus is that of the last output.
LEMMA LastWriteStep ==
    ASSUME ControlInv, LastWrite, Next
    PROVE  LastWrite'
<1>1. (S_IDLE \/ Busy \/ StartLayer) /\ BusStep /\ TypeInv /\ WriteWaits /\ cfg \in Configs
  BY NextCases DEF ControlInv, TypeInv, TypeOK
<1> SUFFICES ASSUME InFlight' PROVE LastWrite'
  BY DEF LastWrite
<1>2. \/ InFlight /\ ~hready /\ dphase' = dphase
      \/ /\ state = "WRITE_DATA" /\ hready
         /\ dphase' = [haddr |-> bus.haddr, hwrite |-> TRUE]
  BY <1>1, BusMoves
<1>3. ~StartLayer
  BY <1>2 DEF StartLayer, Start, InFlight
<1>4. /\ last_w' = last_w /\ last_c' = last_c
      /\ \A w, c : Place(w, c)' = Place(w, c)
  BY <1>1, <1>3, CfgStays
<1>5. CASE state = "WRITE_DATA" /\ hready /\ dphase' = [haddr |-> bus.haddr, hwrite |-> TRUE]
  <2>1. state' = "ADVANCE" /\ w_pos' = w_pos /\ c_pos' = c_pos
    BY <1>1, <1>5, ActionOf DEF S_WRITE_DATA, WriteAccepted, counters
  <2>2. dphase'.haddr.at = Place(w_pos, c_pos)
    BY <1>5 DEF ControlInv, OutputsWritten, Started
  <2>3. Place(w_pos, c_pos)' = Place(w_pos, c_pos)
    BY <1>1, <1>3, <2>1, CfgStays DEF Place
  <2>4. QED
    BY <2>1, <2>2, <2>3 DEF LastWrite
<1>6. CASE InFlight /\ ~hready /\ dphase' = dphase
  <2>1. state' # "ADVANCE"
    BY <1>1, <1>3, <1>6, ActionOf DEF WriteWaits, S_IDLE, S_WT_ADDR, S_WT_DATA_W, S_WT_DATA,
       S_MAC, S_MAC_OVLP, S_WRITE_ADDR, S_ADVANCE, S_DONE, Overlap
  <2>2. ASSUME state' \in {"DONE", "IDLE"} PROVE dphase.haddr.at = Place(last_w, last_c)
    <3>1. CASE state = "ADVANCE"
      <4>1. w_pos \in Nat /\ c_pos \in Nat /\ w_pos < cfg.w_out /\ c_pos < cfg.c_out
        BY <1>1, <3>1 DEF TypeInv, TypeOK
      <4>2. S_ADVANCE
        BY <1>1, <3>1, ActionOf
      <4>3. ~(w_pos < last_w)
        <5> SUFFICES ASSUME w_pos < last_w PROVE FALSE
          OBVIOUS
        <5>1. state' = "MAC_OVLP" \/ state' = "MAC"
          BY <4>2 DEF S_ADVANCE, Overlap
        <5>2. QED
          BY <2>2, <5>1
      <4>4. ~(c_pos < last_c)
        BY <2>2, <4>2, <4>3 DEF S_ADVANCE
      <4>5. w_pos = last_w /\ c_pos = last_c
        <5>1. cfg.w_out \in Nat /\ cfg.c_out \in Nat
          BY <1>1, Sizes
        <5>2. w_pos = last_w
          BY <4>1, <4>3, <5>1 DEF last_w
        <5>3. c_pos = last_c
          BY <4>1, <4>4, <5>1 DEF last_c
        <5>4. QED
          BY <5>2, <5>3
      <4>6. QED
        BY <1>6, <3>1, <4>5 DEF LastWrite
    <3>2. CASE state \in {"DONE", "IDLE"}
      BY <1>6, <3>2 DEF LastWrite
    <3>3. state \in {"ADVANCE", "DONE", "IDLE"}
      BY <1>1, <1>3, <1>6, <2>2, ActionOf DEF WriteWaits, S_WT_ADDR, S_WT_DATA_W, S_WT_DATA,
         S_MAC, S_MAC_OVLP, S_WRITE_ADDR
    <3>4. QED
      BY <3>1, <3>2, <3>3
  <2>3. Place(last_w, last_c)' = Place(last_w, last_c)
    BY <1>1, <1>3, <1>4, CfgStays DEF Place
  <2>4. QED
    BY <1>6, <2>1, <2>2, <2>3 DEF LastWrite
<1>7. QED
  BY <1>2, <1>5, <1>6

LEMMA LastWriteInv == ShortWrites => (Spec => []LastWrite)
<1> SUFFICES ASSUME ShortWrites PROVE Spec => []LastWrite
  OBVIOUS
<1>1. Init => LastWrite
  BY DEF Init, LastWrite, InFlight
<1>2. ControlInv /\ LastWrite /\ [Next]_vars => LastWrite'
  <2>1. ASSUME LastWrite, UNCHANGED vars PROVE LastWrite'
    BY <2>1 DEF vars, counters, LastWrite, InFlight, Place, last_w, last_c
  <2>2. QED
    BY <2>1, LastWriteStep
<1>3. QED
  BY <1>1, <1>2, ControlInvariant, PTL DEF Spec

\* The data of a write stays on the bus until the write ends.
LEMMA WriteDataStays ==
    ASSUME ShortWrites, ControlInv, S_IDLE \/ Busy \/ StartLayer, InFlight, ~hready
    PROVE  bus'.hwdata = bus.hwdata
<1>1. TypeInv /\ WriteWaits
  BY DEF ControlInv
<1>2. state # "WRITE_ADDR"
  <2> SUFFICES ASSUME state = "WRITE_ADDR" PROVE FALSE
    OBVIOUS
  <2>1. /\ w_pos > 0 /\ stalled = patch_words + 1 /\ cfg \in Configs
        /\ w_pos \in Nat /\ w_pos < cfg.w_out /\ stalled \in 0 .. MaxStall /\ stalled # MaxStall
    BY <1>1 DEF TypeInv, TypeOK, WriteWaits, DataPhase
  <2>2. MaxStall <= patch_words + 1
    BY <2>1, Sizes DEF ShortWrites
  <2>3. QED
    BY <2>1, <2>2, StallAssumption, Sizes
<1>3. QED
  BY <1>1, <1>2, BusTypeStep DEF S_WRITE_ADDR

\* The port is an AHB-Lite master under the same condition, as the crossbar assumes.
THEOREM PortIsMaster == ShortWrites => (Spec => AhbMaster)
<1> SUFFICES ASSUME ShortWrites PROVE Spec => AhbMaster
  OBVIOUS
<1> DEFINE Stays == /\ bus.htrans /\ ~hready =>
                          bus'.htrans /\ bus'.haddr = bus.haddr /\ bus'.hwrite = bus.hwrite
                    /\ dphase # None /\ dphase.hwrite /\ ~hready => bus'.hwdata = bus.hwdata
<1>1. ASSUME ControlInv, Next PROVE Stays
  <2>1. (S_IDLE \/ Busy \/ StartLayer) /\ TypeInv /\ WriteWaits
    BY <1>1, NextCases DEF ControlInv
  <2>2. ASSUME bus.htrans, ~hready
        PROVE  bus'.htrans /\ bus'.haddr = bus.haddr /\ bus'.hwrite = bus.hwrite
    <3>1. Loading \/ state = "WRITE_DATA"
      BY <2>1, <2>2 DEF TypeInv, PortDrives
    <3>2. bus' = bus
      BY <2>1, <2>2, <3>1, ActionOf DEF Loading, S_WT_DATA_W, S_WT_DATA, S_BIAS_DATA, S_SHIFT_DATA,
         S_IN_DATA, S_MAC_OVLP, S_WRITE_DATA, Accepted, Arrived, LoadSide, WriteAccepted
    <3>3. QED
      BY <2>2, <3>2
  <2>3. ASSUME InFlight, ~hready PROVE bus'.hwdata = bus.hwdata
    BY <1>1, <2>1, <2>3, WriteDataStays
  <2>4. QED
    BY <2>2, <2>3 DEF InFlight
<1>2. ASSUME UNCHANGED vars PROVE Stays
  BY <1>2 DEF vars
<1>3. ControlInv /\ [Next]_vars => [Stays]_vars
  BY <1>1, <1>2
<1>4. QED
  BY <1>3, ControlInvariant, PTL DEF Spec, AhbMaster

-----------------------------------------------------------------------------
(* Loads: what is on the bus in each state of a load.                      *)

LEMMA LoadMoves ==
    ASSUME TypeInv, BusStep, Loading
    PROVE  /\ hready => dphase' = [haddr |-> bus.haddr, hwrite |-> FALSE]
           /\ ~hready => dphase' = dphase
<1>1. bus.htrans /\ bus.hwrite = FALSE
  BY DEF TypeInv, PortDrives, DataTypes, Loading
<1>2. QED
  BY <1>1 DEF BusStep

LEMMA BurstMoves ==
    ASSUME TypeInv, BusStep, Loading,
           NEW a \in Array, NEW f \in Nat, NEW s \in {1, 4}, NEW n \in Nat, Burst(a, f, s, n)
    PROVE  /\ ~hready /\ bus' = bus /\ r_wait' = r_wait => Burst(a, f, s, n)'
           /\ Accepted /\ Advance(s) /\ r_wait' = FALSE => Burst(a, f, s, n)'
           /\ Arrived /\ Advance(s) /\ r_wait' = r_wait => Burst(a, f, s, n + 1)'
<1>1. /\ hready => dphase' = [haddr |-> bus.haddr, hwrite |-> FALSE]
      /\ ~hready => dphase' = dphase
  BY LoadMoves
<1>2. ASSUME Advance(s) PROVE bus'.haddr = [of |-> bus.haddr.of, at |-> bus.haddr.at + s]
  <2>1. s \in Nat
    OBVIOUS
  <2>2. QED
    BY <1>2, <2>1, PortOps
<1>3. ASSUME ~hready, bus' = bus, r_wait' = r_wait PROVE Burst(a, f, s, n)'
  BY <1>1, <1>3 DEF Burst
<1>4. ASSUME Accepted, Advance(s), r_wait' = FALSE PROVE Burst(a, f, s, n)'
  <2>1. n = 0 /\ bus.haddr = [of |-> a, at |-> f] /\ f + s * (n + 1) = f + s /\ f + s * n = f
    BY <1>4 DEF Burst, Accepted
  <2>2. bus'.haddr = [of |-> a, at |-> f + s]
    BY <1>2, <1>4, <2>1
  <2>3. dphase' = [haddr |-> [of |-> a, at |-> f], hwrite |-> FALSE]
    BY <1>1, <1>4, <2>1 DEF Accepted
  <2>4. ~r_wait'
    BY <1>4
  <2>5. QED
    BY <2>1, <2>2, <2>3, <2>4 DEF Burst
<1>5. ASSUME Arrived, Advance(s), r_wait' = r_wait PROVE Burst(a, f, s, n + 1)'
  <2>1. bus.haddr = [of |-> a, at |-> f + s * (n + 1)]
    BY <1>5 DEF Burst, Arrived
  <2>2. bus'.haddr = [of |-> a, at |-> f + s * ((n + 1) + 1)]
    BY <1>2, <1>5, <2>1
  <2>3. dphase' = [haddr |-> [of |-> a, at |-> f + s * (n + 1)], hwrite |-> FALSE]
    BY <1>1, <1>5, <2>1 DEF Arrived
  <2>4. QED
    BY <1>5, <2>2, <2>3 DEF Burst, Arrived
<1>6. QED
  BY <1>3, <1>4, <1>5

LEMMA BurstStarts ==
    ASSUME TypeInv, NEW a \in Array, NEW f \in Nat, NEW s \in {1, 4}, Read(a, f), r_wait' = TRUE
    PROVE  Burst(a, f, s, 0)'
<1>1. bus'.haddr = [of |-> a, at |-> f]
  BY PortOps
<1>2. QED
  BY <1>1 DEF Burst

LEMMA SingleMoves ==
    ASSUME TypeInv, BusStep, Loading, NEW a \in Array, NEW f \in Nat, Single(a, f)
    PROVE  /\ ~hready /\ bus' = bus /\ r_wait' = r_wait => Single(a, f)'
           /\ Accepted /\ bus' = bus /\ r_wait' = FALSE => Single(a, f)'
BY LoadMoves DEF Single, Accepted

LEMMA SingleStarts ==
    ASSUME TypeInv, NEW a \in Array, NEW f \in Nat, Read(a, f), r_wait' = TRUE
    PROVE  Single(a, f)'
<1>1. bus'.haddr = [of |-> a, at |-> f]
  BY PortOps
<1>2. QED
  BY <1>1 DEF Single

\* A multiple of an aligned size is aligned.
LEMMA AlignedProduct ==
    ASSUME NEW w \in Nat, NEW n \in Nat, n % 4 = 0
    PROVE  (w * n) % 4 = 0 /\ w * n \in Nat
<1> DEFINE q == n \div 4
           r == w * q
<1>1. q \in Int /\ n = 4 * q
  OBVIOUS
<1>2. r \in Int /\ w * n = 4 * r
  BY <1>1
<1> HIDE DEF r
<1>3. (4 * r) % 4 = 0
  BY <1>2
<1>4. w * n \in Nat
  OBVIOUS
<1>5. QED
  BY <1>2, <1>3, <1>4

\* Where a load comes from.
LEMMA LoadComesFrom ==
    ASSUME S_IDLE \/ Busy \/ StartLayer
    PROVE  /\ state' = "WT_DATA_W" => S_WT_ADDR \/ S_WT_DATA_W
           /\ state' = "WT_DATA" => S_WT_ADDR \/ S_WT_DATA
           /\ state' = "BIAS_DATA" => S_BIAS_ADDR \/ S_BIAS_DATA
           /\ state' = "SHIFT_DATA" => S_BIAS_DATA \/ S_SHIFT_DATA
           /\ state' = "IN_DATA" => S_IN_ADDR \/ S_IN_DATA
           /\ state' = "MAC_OVLP" => S_IN_DATA \/ S_ADVANCE \/ S_MAC_OVLP
BY DEF Busy, S_IDLE, S_INIT, S_WT_ADDR, S_WT_DATA_W, S_WT_DATA, S_BIAS_ADDR, S_BIAS_DATA,
     S_SHIFT_DATA, S_IN_ADDR, S_IN_DATA, S_MAC, S_MAC_OVLP, S_WRITE_ADDR, S_WRITE_DATA,
     S_ADVANCE, S_DONE, StartLayer, Start, Overlap, OverlapEnds

LEMMA WtAddr ==
    ASSUME TypeInv
    PROVE  /\ wt_addr \in Nat /\ cfg \in Configs
           /\ ~Bytewise(cfg) => wt_addr % 4 = 0
           /\ cfg' = cfg /\ c_pos' = c_pos => wt_addr' = wt_addr
<1> DEFINE m == c_pos * cfg.patch_bytes
<1>1. cfg \in Configs /\ c_pos \in Nat /\ cfg.patch_bytes \in Nat /\ cfg.wt \in 0..3
  BY Sizes DEF TypeInv, TypeOK
<1>2. m \in Nat /\ (cfg.patch_bytes % 4 = 0 => m % 4 = 0)
  <2>1. PICK w \in Nat, n \in Nat : w = c_pos /\ n = cfg.patch_bytes
    BY <1>1
  <2>2. m = w * n
    BY <2>1
  <2>3. w * n \in Nat
    OBVIOUS
  <2>4. ASSUME n % 4 = 0 PROVE (w * n) % 4 = 0
    BY <2>4, AlignedProduct
  <2>5. QED
    BY <2>1, <2>2, <2>3, <2>4
<1>3. wt_addr = cfg.wt + m
  BY DEF wt_addr
<1>4. cfg' = cfg /\ c_pos' = c_pos => wt_addr' = wt_addr
  BY DEF wt_addr
<1> HIDE DEF m
<1>5. QED
  BY <1>1, <1>2, <1>3, <1>4 DEF Bytewise

LEMMA WtWordsStep ==
    ASSUME TypeInv, Bursts, BusStep, S_IDLE \/ Busy \/ StartLayer, state' = "WT_DATA_W"
    PROVE  /\ wt_addr' % 4 = 0 /\ cfg'.patch_bytes % 4 = 0 /\ wt_word_idx' <= LastWord'
           /\ Burst("wt", wt_addr, 4, wt_word_idx)'
<1>1. S_WT_ADDR \/ S_WT_DATA_W
  BY LoadComesFrom
<1>2. cfg' = cfg /\ c_pos' = c_pos /\ LastWord' = LastWord
  BY <1>1 DEF S_WT_ADDR, S_WT_DATA_W, LastWord, patch_words
<1>3. PICK f \in Nat : f = wt_addr /\ f = wt_addr'
  BY <1>2, WtAddr
<1>4. PICK n \in Nat : n = wt_word_idx
  BY DEF TypeInv, TypeOK, Buffer
<1>5. /\ LastWord \in Nat /\ LastWord \in Buffer /\ "wt" \in Array /\ 4 \in {1, 4} /\ BufWords \in Nat
  BY Sizes DEF TypeInv, TypeOK, Buffer, Array
<1>6. CASE S_WT_ADDR
  <2>1. /\ Read("wt", f) /\ r_wait' = TRUE /\ wt_word_idx' = 0
        /\ wt_addr % 4 = 0 /\ cfg.patch_bytes % 4 = 0
    BY <1>3, <1>6 DEF S_WT_ADDR
  <2>2. Burst("wt", f, 4, 0)'
    BY <1>5, <2>1, BurstStarts
  <2>3. Burst("wt", wt_addr, 4, wt_word_idx)'
    BY <1>3, <2>1, <2>2 DEF Burst
  <2>4. wt_addr' % 4 = 0 /\ cfg'.patch_bytes % 4 = 0
    BY <1>2, <1>3, <2>1
  <2>5. wt_word_idx' <= LastWord'
    BY <1>2, <1>5, <2>1
  <2>6. QED
    BY <2>3, <2>4, <2>5
<1>7. CASE S_WT_DATA_W
  <2>1. /\ Burst("wt", f, 4, n) /\ n <= LastWord
        /\ wt_addr % 4 = 0 /\ cfg.patch_bytes % 4 = 0 /\ Loading
    BY <1>3, <1>4, <1>7 DEF S_WT_DATA_W, Bursts, Loading
  <2>2. \/ ~hready /\ bus' = bus /\ r_wait' = r_wait /\ wt_word_idx' = n
        \/ Accepted /\ Advance(4) /\ r_wait' = FALSE /\ wt_word_idx' = n
        \/ Arrived /\ Advance(4) /\ r_wait' = r_wait /\ n # LastWord /\ wt_word_idx' = (n + 1) % BufWords
    BY <1>4, <1>7 DEF S_WT_DATA_W
  <2>3. n # LastWord => (n + 1) % BufWords = n + 1
    BY <1>4, <1>5, <2>1, Increment DEF Buffer, TypeInv, TypeOK
  <2>4. \/ Burst("wt", f, 4, n)' /\ wt_word_idx' = n
        \/ Burst("wt", f, 4, n + 1)' /\ wt_word_idx' = n + 1 /\ n # LastWord
    BY <1>5, <2>1, <2>2, <2>3, BurstMoves
  <2>5. Burst("wt", wt_addr, 4, wt_word_idx)'
    BY <1>3, <2>4 DEF Burst
  <2>6. wt_word_idx' <= LastWord
    BY <1>5, <2>1, <2>4
  <2>7. QED
    BY <1>2, <1>3, <2>1, <2>5, <2>6
<1>8. QED
  BY <1>1, <1>6, <1>7

LEMMA WtBytesStep ==
    ASSUME BytewiseFits, TypeInv, Bursts, BusStep, S_IDLE \/ Busy \/ StartLayer, state' = "WT_DATA"
    PROVE  /\ cfg'.patch_bytes <= 2 * BufWords /\ buf_idx' < cfg'.patch_bytes
           /\ Burst("wt", wt_addr, 1, buf_idx)'
<1>1. S_WT_ADDR \/ S_WT_DATA
  BY LoadComesFrom
<1>2. cfg' = cfg /\ c_pos' = c_pos
  BY <1>1 DEF S_WT_ADDR, S_WT_DATA
<1>3. PICK f \in Nat : f = wt_addr /\ f = wt_addr'
  BY <1>2, WtAddr
<1>4. PICK n \in Nat : n = buf_idx
  BY DEF TypeInv, TypeOK
<1>5. /\ cfg \in Configs /\ cfg.patch_bytes \in Nat \ {0} /\ "wt" \in Array /\ 1 \in {1, 4}
      /\ BufWords \in Nat
  BY Sizes DEF TypeInv, TypeOK, Array
<1>6. CASE S_WT_ADDR
  <2>1. /\ Read("wt", f) /\ r_wait' = TRUE /\ buf_idx' = 0
        /\ ~(wt_addr % 4 = 0 /\ cfg.patch_bytes % 4 = 0)
    BY <1>3, <1>6 DEF S_WT_ADDR
  <2>2. Burst("wt", f, 1, 0)'
    BY <1>5, <2>1, BurstStarts
  <2>3. cfg.patch_bytes <= 2 * BufWords
    BY <1>5, <2>1, WtAddr DEF BytewiseFits, Bytewise
  <2>4. QED
    BY <1>2, <1>3, <1>5, <2>1, <2>2, <2>3 DEF Burst
<1>7. CASE S_WT_DATA
  <2>1. /\ Burst("wt", f, 1, n) /\ n < cfg.patch_bytes /\ cfg.patch_bytes <= 2 * BufWords /\ Loading
    BY <1>3, <1>4, <1>7 DEF S_WT_DATA, Bursts, Loading
  <2>2. \/ ~hready /\ bus' = bus /\ r_wait' = r_wait /\ buf_idx' = n
        \/ Accepted /\ Advance(1) /\ r_wait' = FALSE /\ buf_idx' = n
        \/ /\ Arrived /\ Advance(1) /\ r_wait' = r_wait /\ n # cfg.patch_bytes - 1
           /\ buf_idx' = (n + 1) % (2 * BufWords)
    BY <1>4, <1>7 DEF S_WT_DATA
  <2>3. n # cfg.patch_bytes - 1 => (n + 1) % (2 * BufWords) = n + 1
    BY <1>4, <1>5, <2>1, Increment
  <2>4. \/ Burst("wt", f, 1, n)' /\ buf_idx' = n
        \/ Burst("wt", f, 1, n + 1)' /\ buf_idx' = n + 1 /\ n # cfg.patch_bytes - 1
    BY <1>5, <2>1, <2>2, <2>3, BurstMoves
  <2>5. QED
    BY <1>2, <1>3, <1>5, <2>1, <2>4 DEF Burst
<1>8. QED
  BY <1>1, <1>6, <1>7

LEMMA SinglesStep ==
    ASSUME TypeInv, Bursts, BusStep, S_IDLE \/ Busy \/ StartLayer
    PROVE  /\ state' = "BIAS_DATA" => Single("bias", 4 * c_pos)'
           /\ state' = "SHIFT_DATA" => Single("shift", cfg.shift + c_pos)'
<1>1. /\ c_pos \in Nat /\ cfg.shift \in Nat /\ "bias" \in Array /\ "shift" \in Array
  BY Sizes DEF TypeInv, TypeOK, Array
<1>2. PICK b \in Nat : b = 4 * c_pos
  BY <1>1
<1>3. PICK h \in Nat : h = cfg.shift + c_pos
  BY <1>1
<1>4. ASSUME state' = "BIAS_DATA" PROVE Single("bias", 4 * c_pos)'
  <2>1. CASE S_BIAS_ADDR
    BY <1>1, <1>2, <2>1, SingleStarts DEF S_BIAS_ADDR, counters, Single
  <2>2. CASE S_BIAS_DATA
    <3>1. Single("bias", b) /\ Loading
      BY <1>2, <2>2 DEF S_BIAS_DATA, Bursts, Loading
    <3>2. /\ \/ ~hready /\ bus' = bus /\ r_wait' = r_wait
             \/ Accepted /\ bus' = bus /\ r_wait' = FALSE
          /\ c_pos' = c_pos
      BY <1>4, <2>2 DEF S_BIAS_DATA, counters
    <3>3. Single("bias", b)'
      BY <1>1, <3>1, <3>2, SingleMoves
    <3>4. QED
      BY <1>2, <3>2, <3>3 DEF Single
  <2>3. QED
    BY <1>4, <2>1, <2>2, LoadComesFrom
<1>5. ASSUME state' = "SHIFT_DATA" PROVE Single("shift", cfg.shift + c_pos)'
  <2>1. CASE S_BIAS_DATA
    <3>1. Read("shift", h) /\ r_wait' = TRUE /\ c_pos' = c_pos /\ cfg' = cfg
      BY <1>3, <1>5, <2>1 DEF S_BIAS_DATA, counters
    <3>2. Single("shift", h)'
      BY <1>1, <3>1, SingleStarts
    <3>3. QED
      BY <1>3, <3>1, <3>2 DEF Single
  <2>2. CASE S_SHIFT_DATA
    <3>1. Single("shift", h) /\ Loading
      BY <1>3, <2>2 DEF S_SHIFT_DATA, Bursts, Loading
    <3>2. /\ \/ ~hready /\ bus' = bus /\ r_wait' = r_wait
             \/ Accepted /\ bus' = bus /\ r_wait' = FALSE
          /\ c_pos' = c_pos /\ cfg' = cfg
      BY <1>5, <2>2 DEF S_SHIFT_DATA, counters
    <3>3. Single("shift", h)'
      BY <1>1, <3>1, <3>2, SingleMoves
    <3>4. QED
      BY <1>3, <3>2, <3>3 DEF Single
  <2>3. QED
    BY <1>5, <2>1, <2>2, LoadComesFrom
<1>6. QED
  BY <1>4, <1>5

LEMMA InputsStep ==
    ASSUME TypeInv, Bursts, BusStep, S_IDLE \/ Busy \/ StartLayer
    PROVE  /\ state' = "IN_DATA" => buf_idx' <= LastIn' /\ Burst("src", 0, 4, buf_idx)'
           /\ state' = "MAC_OVLP" /\ ~load_done' =>
                 buf_idx' <= LastIn' /\ Burst("src", (w_pos + 1) * cfg.step, 4, buf_idx)'
<1>1. /\ w_pos \in Nat /\ cfg.step \in Nat /\ cfg \in Configs /\ BufWords \in Nat
      /\ LastIn \in 0 .. BufWords - 2 /\ "src" \in Array /\ 4 \in {1, 4} /\ 0 \in Nat
  BY Sizes DEF TypeInv, TypeOK, Array
<1>2. PICK n \in Nat : n = buf_idx
  BY DEF TypeInv, TypeOK
<1>3. PICK f \in Nat : f = (w_pos + 1) * cfg.step
  BY <1>1
<1>4. cfg' = cfg => LastIn' = LastIn
  BY DEF LastIn, patch_words
<1>5. n <= LastIn /\ n # LastIn => (n + 1) % (2 * BufWords) = n + 1
  BY <1>1, Increment
<1>6. ASSUME state' = "IN_DATA"
      PROVE  buf_idx' <= LastIn' /\ Burst("src", 0, 4, buf_idx)'
  <2>1. CASE S_IN_ADDR
    <3>1. /\ Read("src", w_pos * cfg.step) /\ r_wait' = TRUE /\ buf_idx' = 0 /\ cfg' = cfg
          /\ w_pos = 0
      BY <2>1 DEF S_IN_ADDR, TypeInv, Loops, FirstPosition
    <3>2. Read("src", 0)
      <4>1. w_pos * cfg.step = 0
        BY <1>1, <3>1
      <4>2. QED
        BY <3>1, <4>1
    <3>3. Burst("src", 0, 4, 0)'
      BY <1>1, <3>1, <3>2, BurstStarts
    <3>4. QED
      BY <1>1, <1>4, <3>1, <3>3 DEF Burst
  <2>2. CASE S_IN_DATA
    <3>1. Burst("src", 0, 4, n) /\ n <= LastIn /\ Loading /\ cfg' = cfg
      BY <1>2, <2>2 DEF S_IN_DATA, Bursts, Loading
    <3>2. \/ ~hready /\ bus' = bus /\ r_wait' = r_wait /\ buf_idx' = n
          \/ Accepted /\ Advance(4) /\ r_wait' = FALSE /\ buf_idx' = n
          \/ /\ Arrived /\ Advance(4) /\ r_wait' = r_wait /\ n # LastIn
             /\ buf_idx' = (n + 1) % (2 * BufWords)
      BY <1>2, <1>6, <2>2 DEF S_IN_DATA, Overlap
    <3>3. \/ Burst("src", 0, 4, n)' /\ buf_idx' = n
          \/ Burst("src", 0, 4, n + 1)' /\ buf_idx' = n + 1 /\ n # LastIn
      BY <1>1, <1>5, <3>1, <3>2, BurstMoves
    <3>4. Burst("src", 0, 4, buf_idx)'
      BY <3>3 DEF Burst
    <3>5. buf_idx' <= LastIn
      BY <1>1, <3>1, <3>3
    <3>6. QED
      BY <1>4, <3>1, <3>4, <3>5
  <2>3. QED
    BY <1>6, <2>1, <2>2, LoadComesFrom
<1>7. ASSUME state' = "MAC_OVLP", ~load_done'
      PROVE  buf_idx' <= LastIn' /\ Burst("src", (w_pos + 1) * cfg.step, 4, buf_idx)'
  <2>1. CASE S_MAC_OVLP
    <3>1. Burst("src", f, 4, n) /\ n <= LastIn /\ Loading /\ cfg' = cfg /\ w_pos' = w_pos
      BY <1>2, <1>3, <1>7, <2>1 DEF S_MAC_OVLP, LoadSide, Bursts, Loading
    <3>2. \/ ~hready /\ bus' = bus /\ r_wait' = r_wait /\ buf_idx' = n
          \/ Accepted /\ Advance(4) /\ r_wait' = FALSE /\ buf_idx' = n
          \/ /\ Arrived /\ Advance(4) /\ r_wait' = r_wait /\ n # LastIn
             /\ buf_idx' = (n + 1) % (2 * BufWords)
      BY <1>2, <1>7, <2>1 DEF S_MAC_OVLP, LoadSide, Accepted, Arrived
    <3>3. \/ Burst("src", f, 4, n)' /\ buf_idx' = n
          \/ Burst("src", f, 4, n + 1)' /\ buf_idx' = n + 1 /\ n # LastIn
      BY <1>1, <1>5, <3>1, <3>2, BurstMoves
    <3>4. Burst("src", f, 4, buf_idx)'
      BY <3>3 DEF Burst
    <3>5. buf_idx' <= LastIn
      BY <1>1, <3>1, <3>3
    <3>6. f = (w_pos' + 1) * cfg'.step
      BY <1>3, <3>1
    <3>7. QED
      BY <1>4, <3>1, <3>4, <3>5, <3>6 DEF Burst
  <2>2. CASE S_IN_DATA \/ S_ADVANCE
    <3>1. PICK w \in Nat : Overlap(w) /\ w = w_pos' + 1 /\ cfg' = cfg
      <4>1. CASE S_IN_DATA
        BY <1>7, <4>1 DEF S_IN_DATA, TypeInv, Loops, FirstPosition
      <4>2. CASE S_ADVANCE
        BY <1>1, <1>7, <4>2 DEF S_ADVANCE
      <4>3. QED
        BY <2>2, <4>1, <4>2
    <3>2. PICK g \in Nat : g = w * cfg.step
      BY <1>1
    <3>3. Read("src", g) /\ r_wait' = TRUE /\ buf_idx' = 0
      BY <3>1, <3>2 DEF Overlap
    <3>4. Burst("src", g, 4, 0)'
      BY <1>1, <3>3, BurstStarts
    <3>5. g = (w_pos' + 1) * cfg'.step
      BY <3>1, <3>2
    <3>6. QED
      BY <1>1, <1>4, <3>1, <3>3, <3>4, <3>5 DEF Burst
  <2>3. QED
    BY <1>7, <2>1, <2>2, LoadComesFrom
<1>8. QED
  BY <1>6, <1>7

LEMMA BurstsStep ==
    ASSUME BytewiseFits, TypeInv, Bursts, BusStep, S_IDLE \/ Busy \/ StartLayer
    PROVE  Bursts'
<1>1. state' = "WT_DATA_W" =>
          /\ wt_addr' % 4 = 0 /\ cfg'.patch_bytes % 4 = 0 /\ wt_word_idx' <= LastWord'
          /\ Burst("wt", wt_addr, 4, wt_word_idx)'
  BY WtWordsStep
<1>2. state' = "WT_DATA" =>
          /\ cfg'.patch_bytes <= 2 * BufWords /\ buf_idx' < cfg'.patch_bytes
          /\ Burst("wt", wt_addr, 1, buf_idx)'
  BY WtBytesStep
<1>3. QED
  BY <1>1, <1>2, SinglesStep, InputsStep DEF Bursts

LEMMA LoadInv == BytewiseFits => (Spec => [](TypeInv /\ Bursts))
<1> SUFFICES ASSUME BytewiseFits PROVE Spec => [](TypeInv /\ Bursts)
  OBVIOUS
<1>1. Init => TypeInv /\ Bursts
  <2> SUFFICES ASSUME Init PROVE TypeInv /\ Bursts
    OBVIOUS
  <2>1. state = "IDLE"
    BY DEF Init
  <2>2. QED
    BY <2>1, InitType DEF Bursts
<1>2. ASSUME TypeInv /\ Bursts, [Next]_vars PROVE (TypeInv /\ Bursts)'
  <2>1. TypeInv'
    BY <1>2, StepType
  <2>2. CASE Next
    BY <1>2, <2>1, <2>2, NextCases, BurstsStep
  <2>3. CASE UNCHANGED vars
    BY <1>2, <2>1, <2>3 DEF vars, counters, flags, Bursts, Burst, Single, wt_addr, LastWord, LastIn, patch_words
  <2>4. QED
    BY <1>2, <2>2, <2>3
<1>3. QED
  BY <1>1, <1>2, PTL DEF Spec

\* A load never runs further than one word past the end of its array, if byte-wise
\* filters are not longer than buf_idx counts. conv1d_accel.v:365,493,569.
THEOREM LoadsInArrays == BytewiseFits => (Spec => []LoadsStayInArrays)
<1> SUFFICES ASSUME BytewiseFits PROVE Spec => []LoadsStayInArrays
  OBVIOUS
<1>1. ASSUME TypeInv, Bursts PROVE LoadsStayInArrays
  <2> SUFFICES ASSUME bus.htrans, ~bus.hwrite PROVE LoadsStayInArrays
    BY DEF LoadsStayInArrays
  <2> DEFINE P == cfg.patch_bytes
             T == cfg.step
             W == cfg.w_out
             C == cfg.c_out
  <2>1. /\ w_pos \in Nat /\ c_pos \in Nat /\ wt_word_idx \in Nat /\ buf_idx \in Nat
        /\ P \in Nat /\ T \in Nat /\ W \in Nat \ {0} /\ C \in Nat \ {0}
        /\ cfg.wt \in Nat /\ cfg.shift \in Nat /\ P <= 4 * patch_words /\ patch_words \in Nat
        /\ P > 4 * (patch_words - 1) /\ LastWord = patch_words - 1 /\ LastIn = patch_words - 1
    BY <1>1, Sizes DEF TypeInv, TypeOK, Buffer
  <2>2. /\ Loading /\ c_pos < C /\ w_pos < W
        /\ state = "MAC_OVLP" => w_pos < W - 1
    BY <1>1 DEF TypeInv, TypeOK, PortDrives, Loading, Loops, last_w
  <2>3. wt_addr = cfg.wt + c_pos * P
    BY DEF wt_addr
  <2> HIDE DEF P, T, W, C
  <2>4. cfg.wt + c_pos * P + P <= cfg.wt + C * P
    <3>1. PICK d \in Nat : C = c_pos + 1 + d
      <4>1. C - c_pos - 1 \in Nat /\ C = c_pos + 1 + (C - c_pos - 1)
        BY <2>1, <2>2
      <4>2. QED
        BY <4>1
    <3>2. C * P = c_pos * P + P + d * P /\ d * P >= 0
      BY <2>1, <3>1
    <3>3. QED
      BY <2>1, <3>2
  <2>5. state = "MAC_OVLP" => (w_pos + 1) * T <= (W - 1) * T
    <3> SUFFICES ASSUME state = "MAC_OVLP" PROVE (w_pos + 1) * T <= (W - 1) * T
      OBVIOUS
    <3>1. PICK d \in Nat : W - 1 = w_pos + 1 + d
      <4>1. W - w_pos - 2 \in Nat /\ W - 1 = w_pos + 1 + (W - w_pos - 2)
        BY <2>1, <2>2
      <4>2. QED
        BY <4>1
    <3>2. (W - 1) * T = (w_pos + 1) * T + d * T /\ d * T >= 0
      BY <2>1, <3>1
    <3>3. QED
      BY <2>1, <3>2
  <2>6. (W - 1) * T \in Nat /\ (w_pos + 1) * T \in Nat /\ c_pos * P \in Nat /\ C * P \in Nat
    BY <2>1
  <2> DEFINE A == bus.haddr
  <2>7. CASE state = "WT_DATA_W"
    <3>1. /\ A.of = "wt" /\ P % 4 = 0 /\ wt_word_idx <= LastWord
          /\ A.at = wt_addr \/ A.at = wt_addr + 4 * (wt_word_idx + 1)
      BY <1>1, <2>7 DEF Bursts, Burst, P
    <3>2. P = 4 * patch_words
      BY <2>1, <3>1
    <3>3. A.at <= wt_addr + P
      BY <2>1, <2>3, <2>6, <3>1, <3>2
    <3>4. A.at <= cfg.wt + C * P
      BY <2>1, <2>3, <2>4, <2>6, <3>1, <3>3
    <3>5. QED
      BY <3>1, <3>4 DEF LoadsStayInArrays, C, P
  <2>8. CASE state = "WT_DATA"
    <3>1. /\ A.of = "wt" /\ buf_idx < P
          /\ A.at = wt_addr \/ A.at = wt_addr + 1 * (buf_idx + 1)
      BY <1>1, <2>8 DEF Bursts, Burst, P
    <3>2. A.at <= cfg.wt + C * P
      BY <2>1, <2>3, <2>4, <2>6, <3>1
    <3>3. QED
      BY <3>1, <3>2 DEF LoadsStayInArrays, C, P
  <2>9. CASE state = "BIAS_DATA"
    <3>1. A.of = "bias" /\ A.at = 4 * c_pos
      BY <1>1, <2>9 DEF Bursts, Single
    <3>2. A.at <= 4 * (C - 1)
      BY <2>1, <2>2, <3>1
    <3>3. QED
      BY <3>1, <3>2 DEF LoadsStayInArrays, C
  <2>10. CASE state = "SHIFT_DATA"
    <3>1. A.of = "shift" /\ A.at = cfg.shift + c_pos
      BY <1>1, <2>10 DEF Bursts, Single
    <3>2. A.at <= cfg.shift + C - 1
      BY <2>1, <2>2, <3>1
    <3>3. QED
      BY <3>1, <3>2 DEF LoadsStayInArrays, C
  <2>11. CASE state = "IN_DATA"
    <3>1. A.of = "src" /\ buf_idx <= LastIn /\ (A.at = 0 \/ A.at = 0 + 4 * (buf_idx + 1))
      BY <1>1, <2>11 DEF Bursts, Burst
    <3>2. A.at <= (W - 1) * T + 4 * patch_words
      BY <2>1, <2>6, <3>1
    <3>3. QED
      BY <3>1, <3>2 DEF LoadsStayInArrays, W, T
  <2>12. CASE state = "MAC_OVLP" /\ ~load_done
    <3>1. /\ A.of = "src" /\ buf_idx <= LastIn
          /\ A.at = (w_pos + 1) * T \/ A.at = (w_pos + 1) * T + 4 * (buf_idx + 1)
      BY <1>1, <2>12 DEF Bursts, Burst, T
    <3>2. A.at <= (W - 1) * T + 4 * patch_words
      BY <2>1, <2>5, <2>6, <2>12, <3>1
    <3>3. QED
      BY <3>1, <3>2 DEF LoadsStayInArrays, W, T
  <2>13. QED
    BY <2>2, <2>7, <2>8, <2>9, <2>10, <2>11, <2>12 DEF Loading
<1>2. QED
  BY <1>1, LoadInv, PTL

-----------------------------------------------------------------------------
(* Data: what the buffers, the accumulator and memory hold.                *)

\* What the transfer in data phase brings.
LEMMA ReadAt ==
    ASSUME NEW a \in Array, NEW p \in Nat,
           dphase = [haddr |-> [of |-> a, at |-> p], hwrite |-> FALSE]
    PROVE  /\ Byte(p) = [of |-> a, at |-> p]
           /\ p % 4 = 0 => /\ hrdata = [of |-> a, at |-> p]
                           /\ \A l \in 0..3 : Lane(hrdata, l) = [of |-> a, at |-> p + l]
<1>1. dphase # None
  <2>1. dphase \in Transfer
    BY DEF Transfer, Array
  <2>2. QED
    BY <2>1, NoneAssumption
<1>2. hrdata = [of |-> a, at |-> p - (p % 4)]
  BY <1>1 DEF hrdata
<1>3. p % 4 \in 0..3 /\ (p % 4) % 4 = p % 4 /\ (p - (p % 4)) + (p % 4) = p
  OBVIOUS
<1>4. Byte(p) = [of |-> a, at |-> p]
  BY <1>2, <1>3 DEF Byte, Lane
<1>5. ASSUME p % 4 = 0
      PROVE  /\ hrdata = [of |-> a, at |-> p]
             /\ \A l \in 0..3 : Lane(hrdata, l) = [of |-> a, at |-> p + l]
  BY <1>2, <1>5 DEF Lane
<1>6. QED
  BY <1>4, <1>5

LEMMA WeightWordsStep ==
    ASSUME TypeInv, Bursts, WeightsLoaded, S_WT_DATA_W, Arrived
    PROVE  /\ wt_buf' \in [Buffer -> [0..3 -> Word \cup {Zero}]]
           /\ \A x \in 0 .. wt_word_idx, l \in 0..3 : wt_buf'[x][l] = WtByte(x, l)
<1>1. /\ wt_buf \in [Buffer -> [0..3 -> Word \cup {Zero}]] /\ wt_word_idx \in Buffer
      /\ state = "WT_DATA_W" /\ Busy /\ BufWords \in Nat
  BY Sizes DEF TypeInv, TypeOK, DataTypes, S_WT_DATA_W, Busy
<1>2. wt_buf' \in [Buffer -> [0..3 -> Word \cup {Zero}]]
  BY <1>1, BufferTypesStep
<1>3. wt_buf' = [wt_buf EXCEPT ![wt_word_idx] = [l \in 0..3 |-> Lane(hrdata, l)]]
  BY DEF S_WT_DATA_W, Accepted, Arrived
<1>4. PICK f \in Nat, n \in Nat : f = wt_addr /\ n = wt_word_idx
  BY <1>1, WtAddr DEF Buffer
<1>5. /\ f % 4 = 0 /\ cfg.patch_bytes % 4 = 0 /\ n <= LastWord
      /\ dphase = [haddr |-> [of |-> "wt", at |-> f + 4 * n], hwrite |-> FALSE]
  <2>1. /\ f % 4 = 0 /\ cfg.patch_bytes % 4 = 0 /\ n <= LastWord
        /\ Burst("wt", f, 4, n)
    BY <1>1, <1>4 DEF Bursts
  <2>2. QED
    BY <2>1 DEF Burst, Arrived
<1>6. \A l \in 0..3 : Lane(hrdata, l) = [of |-> "wt", at |-> (f + 4 * n) + l]
  <2>1. f + 4 * n \in Nat /\ (f + 4 * n) % 4 = 0 /\ "wt" \in Array
    BY <1>5 DEF Array
  <2>2. QED
    BY <1>5, <2>1, ReadAt
<1>7. \A x \in Nat, l \in 0..3 : x <= n => 4 * x + l < cfg.patch_bytes
  <2>1. /\ cfg.patch_bytes \in Nat /\ LastWord = patch_words - 1 /\ patch_words \in Nat
        /\ cfg.patch_bytes > 4 * (patch_words - 1)
    BY Sizes DEF TypeInv, TypeOK
  <2>2. QED
    BY <1>5, <2>1
<1>8. ASSUME NEW x \in 0 .. wt_word_idx, NEW l \in 0..3 PROVE wt_buf'[x][l] = WtByte(x, l)
  <2>1. WtByte(x, l) = [of |-> "wt", at |-> f + 4 * x + l]
    BY <1>4, <1>7, <1>8 DEF WtByte
  <2>2. CASE x = n
    BY <1>1, <1>3, <1>4, <1>6, <1>8, <2>1, <2>2
  <2>3. CASE x # n
    <3>1. x \in 0 .. wt_word_idx - 1 /\ x \in Buffer
      BY <1>1, <1>4, <2>3 DEF Buffer
    <3>2. wt_buf[x][l] = WtByte(x, l)
      BY <1>1, <3>1 DEF WeightsLoaded
    <3>3. QED
      BY <1>1, <1>3, <1>4, <2>3, <3>1, <3>2
  <2>4. QED
    BY <2>2, <2>3
<1>9. QED
  BY <1>2, <1>8

LEMMA WeightBytesStep ==
    ASSUME TypeInv, Bursts, WeightsLoaded, S_WT_DATA, Arrived
    PROVE  \A x \in 0 .. LastWord, l \in 0..3 :
              4 * x + l < buf_idx + 1 \/ 4 * x + l >= cfg.patch_bytes => wt_buf'[x][l] = WtByte(x, l)
<1>1. /\ wt_buf \in [Buffer -> [0..3 -> Word \cup {Zero}]] /\ buf_idx \in Nat
      /\ state = "WT_DATA"
  BY DEF TypeInv, TypeOK, DataTypes, S_WT_DATA
<1>2. wt_buf' = [wt_buf EXCEPT ![(buf_idx \div 4) % BufWords][buf_idx % 4] = Byte(wt_addr + buf_idx)]
  BY DEF S_WT_DATA, Accepted, Arrived
<1>3. PICK f \in Nat, n \in Nat : f = wt_addr /\ n = buf_idx
  BY <1>1, WtAddr
<1>4. /\ n < cfg.patch_bytes
      /\ dphase = [haddr |-> [of |-> "wt", at |-> f + 1 * n], hwrite |-> FALSE]
  BY <1>1, <1>3 DEF Bursts, Burst, Arrived
<1>5. Byte(f + n) = [of |-> "wt", at |-> f + n]
  <2>1. f + n \in Nat /\ f + 1 * n = f + n /\ "wt" \in Array
    BY DEF Array
  <2>2. QED
    BY <1>4, <2>1, ReadAt
<1>6. /\ cfg.patch_bytes \in Nat /\ LastWord = patch_words - 1 /\ patch_words \in 1 .. BufWords - 1
      /\ cfg.patch_bytes > 4 * (patch_words - 1) /\ cfg.patch_bytes <= 4 * patch_words
      /\ BufWords \in Nat \ {0}
  BY Sizes DEF TypeInv, TypeOK
<1>7. PICK i \in Nat, j \in 0..3 : i = n \div 4 /\ j = n % 4 /\ n = 4 * i + j
  <2>1. n \div 4 \in Nat /\ n % 4 \in 0..3 /\ n = 4 * (n \div 4) + (n % 4)
    OBVIOUS
  <2>2. QED
    BY <2>1
<1>8. i \in 0 .. LastWord /\ i \in 0 .. BufWords - 1
  BY <1>4, <1>6, <1>7
<1>9. i % BufWords = i
  BY <1>6, <1>8, SmallRemainder
<1>10. wt_buf' = [wt_buf EXCEPT ![i][j] = [of |-> "wt", at |-> f + n]]
  BY <1>2, <1>3, <1>5, <1>7, <1>9
<1>11. ASSUME NEW x \in 0 .. LastWord, NEW l \in 0..3,
              4 * x + l < buf_idx + 1 \/ 4 * x + l >= cfg.patch_bytes
       PROVE  wt_buf'[x][l] = WtByte(x, l)
  <2>1. x \in Buffer /\ i \in Buffer
    BY <1>6, <1>8 DEF Buffer
  <2>2. CASE x = i /\ l = j
    <3>1. WtByte(x, l) = [of |-> "wt", at |-> f + n]
      <4>1. 4 * x + l = n /\ f + 4 * x + l = f + n
        BY <1>7, <2>2
      <4>2. QED
        BY <1>3, <1>4, <4>1 DEF WtByte
    <3>2. wt_buf'[x][l] = [of |-> "wt", at |-> f + n]
      BY <1>1, <1>10, <2>1, <2>2
    <3>3. QED
      BY <3>1, <3>2
  <2>3. CASE ~(x = i /\ l = j)
    <3>1. 4 * x + l # n
      BY <1>7, <2>3
    <3>2. 4 * x + l < buf_idx \/ 4 * x + l >= cfg.patch_bytes
      BY <1>3, <1>4, <1>6, <1>11, <3>1
    <3>3. wt_buf[x][l] = WtByte(x, l)
      BY <1>1, <3>2 DEF WeightsLoaded
    <3>4. wt_buf'[x][l] = wt_buf[x][l]
      BY <1>1, <1>10, <2>1, <2>3
    <3>5. QED
      BY <3>3, <3>4
  <2>4. QED
    BY <2>2, <2>3
<1>12. QED
  BY <1>11

LEMMA WeightsStep ==
    ASSUME TypeInv, Bursts, WeightsLoaded, S_IDLE \/ Busy
    PROVE  WeightsLoaded'
<1> DEFINE Weighted == Biased \/ state \in {"BIAS_ADDR", "BIAS_DATA"}
<1>1. cfg' = cfg /\ LastWord' = LastWord
  BY CfgStays
<1>2. c_pos' = c_pos => \A x, l : WtByte(x, l)' = WtByte(x, l)
  BY <1>1, WtAddr DEF WtByte
<1>3. /\ wt_buf \in [Buffer -> [0..3 -> Word \cup {Zero}]] /\ cfg \in Configs
      /\ wt_word_idx \in Nat /\ buf_idx \in Nat /\ BufWords \in Nat
      /\ LastWord = patch_words - 1 /\ patch_words \in 1 .. BufWords - 1
      /\ cfg.patch_bytes \in Nat \ {0}
      /\ cfg.patch_bytes > 4 * (patch_words - 1) /\ cfg.patch_bytes <= 4 * patch_words
  BY Sizes DEF TypeInv, TypeOK, DataTypes, Buffer
<1>4. CASE S_WT_ADDR
  <2>1. /\ state' = "WT_DATA_W" => wt_word_idx' = 0
        /\ state' = "WT_DATA" => buf_idx' = 0 /\ wt_buf' = ClearedLastWord
        /\ state' \in {"WT_DATA_W", "WT_DATA"} /\ c_pos' = c_pos
    BY <1>4 DEF S_WT_ADDR
  <2>2. ASSUME state' = "WT_DATA", NEW x \in 0 .. LastWord, NEW l \in 0..3,
               4 * x + l < buf_idx' \/ 4 * x + l >= cfg.patch_bytes
        PROVE  wt_buf'[x][l] = WtByte(x, l)
    <3>1. x = LastWord /\ 4 * x + l >= cfg.patch_bytes /\ x \in Buffer
      BY <1>3, <2>1, <2>2 DEF Buffer
    <3>2. wt_buf'[x][l] = Zero
      BY <1>3, <2>1, <2>2, <3>1 DEF ClearedLastWord
    <3>3. WtByte(x, l) = Zero
      BY <1>3, <3>1 DEF WtByte
    <3>4. QED
      BY <3>2, <3>3
  <2>3. QED
    BY <1>1, <1>2, <2>1, <2>2 DEF WeightsLoaded, Biased
<1>5. CASE S_WT_DATA_W
  <2>0. c_pos' = c_pos /\ state = "WT_DATA_W"
    BY <1>5 DEF S_WT_DATA_W
  <2>1. CASE ~Arrived
    <3>1. state' = "WT_DATA_W" /\ wt_word_idx' = wt_word_idx /\ wt_buf' = wt_buf
      BY <1>5, <2>0, <2>1 DEF S_WT_DATA_W
    <3>2. QED
      BY <1>1, <1>2, <2>0, <3>1 DEF WeightsLoaded, Biased
  <2>2. CASE Arrived
    <3>1. \A x \in 0 .. wt_word_idx, l \in 0..3 : wt_buf'[x][l] = WtByte(x, l)
      BY <1>5, <2>2, WeightWordsStep
    <3>2. CASE wt_word_idx = LastWord
      <4>1. state' = "BIAS_ADDR"
        BY <1>5, <2>2, <3>2 DEF S_WT_DATA_W, Accepted, Arrived
      <4>2. QED
        BY <1>1, <1>2, <2>0, <3>1, <3>2, <4>1 DEF WeightsLoaded
    <3>3. CASE wt_word_idx # LastWord
      <4>1. state' = "WT_DATA_W" /\ wt_word_idx' = (wt_word_idx + 1) % BufWords
        BY <1>5, <2>0, <2>2, <3>3 DEF S_WT_DATA_W, Accepted, Arrived
      <4>2. wt_word_idx + 1 \in Buffer
        BY <1>3, <2>0, <3>3 DEF Bursts, Buffer
      <4>3. wt_word_idx' - 1 = wt_word_idx
        BY <1>3, <4>1, <4>2, Increment
      <4>4. QED
        BY <1>1, <1>2, <2>0, <3>1, <4>1, <4>3 DEF WeightsLoaded, Biased
    <3>4. QED
      BY <3>2, <3>3
  <2>3. QED
    BY <2>1, <2>2
<1>6. CASE S_WT_DATA
  <2>0. c_pos' = c_pos /\ state = "WT_DATA"
    BY <1>6 DEF S_WT_DATA
  <2>1. CASE ~Arrived
    <3>1. state' = "WT_DATA" /\ buf_idx' = buf_idx /\ wt_buf' = wt_buf
      BY <1>6, <2>0, <2>1 DEF S_WT_DATA
    <3>2. QED
      BY <1>1, <1>2, <2>0, <3>1 DEF WeightsLoaded, Biased
  <2>2. CASE Arrived
    <3>1. \A x \in 0 .. LastWord, l \in 0..3 :
              4 * x + l < buf_idx + 1 \/ 4 * x + l >= cfg.patch_bytes => wt_buf'[x][l] = WtByte(x, l)
      BY <1>6, <2>2, WeightBytesStep
    <3>2. CASE buf_idx = cfg.patch_bytes - 1
      <4>1. state' = "BIAS_ADDR"
        BY <1>6, <2>2, <3>2 DEF S_WT_DATA, Accepted, Arrived
      <4>2. \A x \in 0 .. LastWord, l \in 0..3 : wt_buf'[x][l] = WtByte(x, l)
        BY <1>3, <3>1, <3>2
      <4>3. QED
        BY <1>1, <1>2, <2>0, <4>1, <4>2 DEF WeightsLoaded
    <3>3. CASE buf_idx # cfg.patch_bytes - 1
      <4>1. state' = "WT_DATA" /\ buf_idx' = (buf_idx + 1) % (2 * BufWords)
        BY <1>6, <2>0, <2>2, <3>3 DEF S_WT_DATA, Accepted, Arrived
      <4>2. buf_idx + 1 < 2 * BufWords
        BY <1>3, <2>0, <3>3 DEF Bursts
      <4>3. buf_idx' = buf_idx + 1
        BY <1>3, <4>1, <4>2, Increment
      <4>4. QED
        BY <1>1, <1>2, <2>0, <3>1, <4>1, <4>3 DEF WeightsLoaded, Biased
    <3>4. QED
      BY <3>2, <3>3
  <2>3. QED
    BY <2>1, <2>2
<1>7. CASE ~S_WT_ADDR /\ ~S_WT_DATA_W /\ ~S_WT_DATA
  <2>1. /\ state' \notin {"WT_DATA_W", "WT_DATA"} /\ wt_buf' = wt_buf
        /\ Weighted' => Weighted /\ c_pos' = c_pos
    BY <1>7 DEF Busy, S_IDLE, S_INIT, S_WT_ADDR, S_WT_DATA_W, S_WT_DATA, S_BIAS_ADDR, S_BIAS_DATA,
     S_SHIFT_DATA, S_IN_ADDR, S_IN_DATA, S_MAC, S_MAC_OVLP, S_WRITE_ADDR, S_WRITE_DATA,
     S_ADVANCE, S_DONE, StartLayer, Start, Overlap, OverlapEnds, Biased, buffers, counters
  <2>2. QED
    BY <1>1, <1>2, <2>1 DEF WeightsLoaded
<1>8. QED
  BY <1>4, <1>5, <1>6, <1>7

\* A word of a patch is stored where the load has come to.
LEMMA PatchStore ==
    ASSUME TypeInv, cfg' = cfg, NEW b \in 0..1, NEW w \in Nat, NEW n \in 0 .. LastWord,
           PatchIn(b, w, n), (w * cfg.step) % 4 = 0,
           dphase = [haddr |-> InWord(w, n), hwrite |-> FALSE],
           in_buf' = [in_buf EXCEPT ![b][n] = hrdata]
    PROVE  /\ PatchIn(b, w, n + 1)'
           /\ \A v \in Nat, m \in Nat : PatchIn(1 - b, v, m) /\ m <= patch_words
                                            => PatchIn(1 - b, v, m)'
<1>1. /\ in_buf \in [0..1 -> [Buffer -> Word]] /\ cfg.step \in Nat /\ 1 - b \in 0..1 /\ 1 - b # b
      /\ LastWord = patch_words - 1 /\ patch_words \in 1 .. BufWords - 1 /\ BufWords \in Nat
  BY Sizes DEF TypeInv, TypeOK, DataTypes
<1>2. PICK f \in Nat : f = w * cfg.step
  BY <1>1
<1>3. hrdata = InWord(w, n)
  <2>1. f + 4 * n \in Nat /\ (f + 4 * n) % 4 = 0 /\ "src" \in Array
    BY <1>1, <1>2 DEF Array
  <2>2. dphase = [haddr |-> [of |-> "src", at |-> f + 4 * n], hwrite |-> FALSE]
    BY <1>2 DEF InWord
  <2>3. hrdata = [of |-> "src", at |-> f + 4 * n]
    BY <2>1, <2>2, ReadAt
  <2>4. QED
    BY <1>2, <2>3 DEF InWord
<1>4. \A v, x : InWord(v, x)' = InWord(v, x)
  BY DEF InWord
<1>5. ASSUME NEW x \in 0 .. n PROVE in_buf'[b][x] = InWord(w, x)
  <2>1. x \in Buffer /\ n \in Buffer
    BY <1>1 DEF Buffer
  <2>2. CASE x = n
    BY <1>1, <1>3, <2>1, <2>2
  <2>3. CASE x # n
    <3>1. x \in 0 .. n - 1
      BY <1>1, <2>3
    <3>2. in_buf[b][x] = InWord(w, x)
      BY <3>1 DEF PatchIn
    <3>3. QED
      BY <1>1, <2>1, <2>3, <3>2
  <2>4. QED
    BY <2>2, <2>3
<1>6. PatchIn(b, w, n + 1)'
  <2>1. (n + 1) - 1 = n
    BY <1>1
  <2>2. QED
    BY <1>4, <1>5, <2>1 DEF PatchIn
<1>7. in_buf'[1 - b] = in_buf[1 - b]
  BY <1>1
<1>8. \A v \in Nat, m \in Nat : PatchIn(1 - b, v, m) => PatchIn(1 - b, v, m)'
  BY <1>4, <1>7 DEF PatchIn
<1>9. QED
  BY <1>6, <1>8

\* The words of the patch of the next position, in whichever buffer is not multiplied.
LEMMA PatchesStep ==
    ASSUME InputsAligned, TypeInv, Bursts, InputsLoaded, S_IDLE \/ Busy
    PROVE  InputsLoaded'
<1>1. /\ cfg' = cfg /\ patch_words' = patch_words /\ LastWord' = LastWord /\ last_w' = last_w
  BY CfgStays
<1>2. /\ w_pos \in Nat /\ buf_idx \in Nat /\ buf_sel \in 0..1 /\ cfg \in Configs
      /\ cfg.step \in Nat /\ cfg.step % 4 = 0 /\ last_w \in Nat /\ BufWords \in Nat
      /\ LastIn = patch_words - 1 /\ LastWord = patch_words - 1 /\ patch_words \in 1 .. BufWords - 1
  BY Sizes DEF TypeInv, TypeOK, InputsAligned, last_w
<1>3. PICK b \in 0..1, w \in Nat, n \in Nat, p \in Nat :
          b = buf_sel /\ w = w_pos /\ n = buf_idx /\ p = patch_words
  BY <1>2
<1>4. in_buf' = in_buf => \A a, v, k : PatchIn(a, v, k)' = PatchIn(a, v, k)
  BY <1>1 DEF PatchIn, InWord
<1>5. CASE S_IN_ADDR
  <2>1. state' = "IN_DATA" /\ buf_idx' = 0
    BY <1>5 DEF S_IN_ADDR
  <2>2. PatchIn(buf_sel, 0, buf_idx)'
    BY <2>1 DEF PatchIn
  <2>3. QED
    BY <2>1, <2>2 DEF InputsLoaded
<1>6. CASE S_IN_DATA
  <2>1. /\ state = "IN_DATA" /\ PatchIn(b, 0, n) /\ n <= LastIn /\ Burst("src", 0, 4, n) /\ w = 0
        /\ buf_sel' = b /\ w_pos' = w
    BY <1>3, <1>6 DEF S_IN_DATA, InputsLoaded, Bursts, TypeInv, Loops, FirstPosition
  <2>2. CASE ~Arrived
    <3>1. state' = "IN_DATA" /\ buf_idx' = n /\ in_buf' = in_buf
      BY <1>3, <1>6, <2>1, <2>2 DEF S_IN_DATA
    <3>2. PatchIn(b, 0, n)'
      BY <1>4, <2>1, <3>1
    <3>3. PatchIn(buf_sel, 0, buf_idx)'
      BY <2>1, <3>1, <3>2 DEF PatchIn, InWord
    <3>4. QED
      BY <3>1, <3>3 DEF InputsLoaded
  <2>3. CASE Arrived
    <3>1. in_buf' = [in_buf EXCEPT ![b][n] = hrdata]
      BY <1>3, <1>6, <2>3 DEF S_IN_DATA, Accepted, Arrived
    <3>2. dphase = [haddr |-> InWord(0, n), hwrite |-> FALSE]
      <4>1. dphase = [haddr |-> [of |-> "src", at |-> 0 + 4 * n], hwrite |-> FALSE]
        BY <2>1, <2>3 DEF Burst, Arrived
      <4>2. 0 * cfg.step = 0
        BY <1>2
      <4>3. QED
        BY <4>1, <4>2 DEF InWord
    <3>3. (0 * cfg.step) % 4 = 0 /\ n \in 0 .. LastWord /\ 0 \in Nat
      BY <1>2, <1>3, <2>1
    <3>4. PatchIn(b, 0, n + 1)'
      BY <1>1, <2>1, <3>1, <3>2, <3>3, PatchStore
    <3>5. CASE buf_idx # LastIn
      <4>1. state' = "IN_DATA" /\ buf_idx' = (n + 1) % (2 * BufWords)
        BY <1>3, <1>6, <2>1, <2>3, <3>5 DEF S_IN_DATA, Accepted, Arrived
      <4>2. buf_idx' = n + 1
        BY <1>2, <1>3, <2>1, <3>5, <4>1, Increment
      <4>3. PatchIn(buf_sel, 0, buf_idx)'
        BY <2>1, <3>4, <4>2 DEF PatchIn, InWord
      <4>4. QED
        BY <4>1, <4>3 DEF InputsLoaded
    <3>6. CASE buf_idx = LastIn
      <4>1. n + 1 = p
        BY <1>2, <1>3, <3>6
      <4>2. PatchIn(b, w, p)'
        BY <2>1, <3>4, <4>1
      <4>3. PatchIn(buf_sel, w_pos, patch_words)'
        BY <1>1, <1>3, <2>1, <4>2 DEF PatchIn, InWord
      <4>4. CASE cfg.w_out > 1
        <5>1. state' = "MAC_OVLP" /\ load_done' = FALSE /\ buf_idx' = 0
          BY <1>6, <2>3, <3>6, <4>4 DEF S_IN_DATA, Accepted, Arrived, Overlap
        <5>2. PatchIn(inactive, w_pos + 1, IF load_done THEN patch_words ELSE buf_idx)'
          BY <5>1 DEF PatchIn
        <5>3. QED
          BY <4>3, <5>1, <5>2 DEF InputsLoaded
      <4>5. CASE ~(cfg.w_out > 1)
        <5>1. state' = "MAC"
          BY <1>6, <2>3, <3>6, <4>5 DEF S_IN_DATA, Accepted, Arrived
        <5>2. QED
          BY <4>3, <5>1 DEF InputsLoaded
      <4>6. QED
        BY <4>4, <4>5
    <3>7. QED
      BY <3>5, <3>6
  <2>4. QED
    BY <2>2, <2>3
<1>7. CASE S_MAC
  <2>1. /\ state = "MAC" /\ state' \in {"MAC", "WRITE_ADDR"} /\ in_buf' = in_buf
        /\ buf_sel' = buf_sel /\ w_pos' = w_pos
    BY <1>7 DEF S_MAC, buffers, flags
  <2>2. w_pos = last_w
    BY <2>1 DEF TypeInv, Loops
  <2>3. PatchIn(buf_sel, w_pos, patch_words)'
    BY <1>1, <2>1 DEF InputsLoaded, PatchIn, InWord
  <2>4. QED
    BY <1>1, <1>2, <2>1, <2>2, <2>3 DEF InputsLoaded
<1>8. CASE S_WRITE_ADDR \/ S_WRITE_DATA
  <2>1. /\ state \in {"WRITE_ADDR", "WRITE_DATA"} /\ state' \in {"WRITE_DATA", "ADVANCE"}
        /\ in_buf' = in_buf /\ buf_sel' = buf_sel /\ w_pos' = w_pos
    BY <1>8 DEF S_WRITE_ADDR, S_WRITE_DATA, buffers, flags, counters
  <2>2. w_pos < last_w => PatchIn(inactive, w_pos + 1, patch_words)'
    BY <1>1, <2>1 DEF InputsLoaded, PatchIn, InWord, inactive
  <2>3. QED
    BY <1>1, <2>1, <2>2 DEF InputsLoaded
<1>9. CASE S_ADVANCE
  <2>1. state = "ADVANCE" /\ in_buf' = in_buf
    BY <1>9 DEF S_ADVANCE, buffers
  <2>2. CASE w_pos < last_w
    <3>1. /\ w_pos' = w_pos + 1 /\ buf_sel' = inactive
          /\ state' = "MAC" \/ (state' = "MAC_OVLP" /\ buf_idx' = 0 /\ ~load_done')
      BY <1>9, <2>2 DEF S_ADVANCE, Overlap, inactive
    <3>2. PatchIn(inactive, w_pos + 1, patch_words)
      BY <2>1, <2>2 DEF InputsLoaded
    <3>3. PatchIn(buf_sel, w_pos, patch_words)'
      BY <1>1, <2>1, <3>1, <3>2 DEF PatchIn, InWord
    <3>4. state' = "MAC_OVLP" =>
              PatchIn(inactive, w_pos + 1, IF load_done THEN patch_words ELSE buf_idx)'
      BY <3>1 DEF PatchIn
    <3>5. QED
      BY <3>1, <3>3, <3>4 DEF InputsLoaded
  <2>3. CASE ~(w_pos < last_w)
    BY <1>9, <2>3 DEF S_ADVANCE, InputsLoaded
  <2>4. QED
    BY <2>2, <2>3
<1>10. CASE S_MAC_OVLP
  <2>1. /\ state = "MAC_OVLP" /\ buf_sel' = b /\ w_pos' = w /\ w < last_w
        /\ PatchIn(b, w, p) /\ 1 - b \in 0..1 /\ 1 - (1 - b) = b
        /\ PatchIn(1 - b, w + 1, IF load_done THEN p ELSE n)
    BY <1>3, <1>10 DEF S_MAC_OVLP, InputsLoaded, TypeInv, Loops, inactive
  <2>2. /\ state' \in {"MAC_OVLP", "WRITE_ADDR"} /\ LoadSide
        /\ state' = "WRITE_ADDR" => load_done
    BY <1>10, <2>1 DEF S_MAC_OVLP, OverlapEnds
  <2>3. /\ PatchIn(b, w, p)'
        /\ \E k \in Nat : PatchIn(1 - b, w + 1, k)' /\ k = IF load_done' THEN p ELSE buf_idx'
        /\ load_done => load_done'
    <3>1. CASE load_done \/ ~Arrived
      <4>1. buf_idx' = n /\ in_buf' = in_buf /\ load_done' = load_done
        BY <1>3, <2>2, <3>1 DEF LoadSide, Arrived
      <4>2. QED
        BY <1>2, <1>3, <1>4, <2>1, <4>1
    <3>2. CASE ~load_done /\ Arrived
      <4>1. in_buf' = [in_buf EXCEPT ![1 - b][n] = hrdata]
        BY <1>3, <2>2, <3>2 DEF LoadSide, Arrived, inactive
      <4>2. n <= LastIn /\ Burst("src", (w + 1) * cfg.step, 4, n)
        BY <1>3, <2>1, <3>2 DEF Bursts
      <4>3. dphase = [haddr |-> InWord(w + 1, n), hwrite |-> FALSE]
        BY <3>2, <4>2 DEF Burst, Arrived, InWord
      <4>4. w + 1 \in Nat /\ n \in 0 .. LastWord
        BY <1>2, <1>3, <4>2
      <4>5. ((w + 1) * cfg.step) % 4 = 0
        BY <1>2, <4>4, AlignedProduct
      <4>6. PatchIn(1 - b, w + 1, n)
        BY <2>1, <3>2
      <4>7. /\ PatchIn(1 - b, w + 1, n + 1)'
            /\ \A v \in Nat, m \in Nat : PatchIn(1 - (1 - b), v, m) /\ m <= patch_words
                                             => PatchIn(1 - (1 - b), v, m)'
        BY <1>1, <2>1, <4>1, <4>3, <4>4, <4>5, <4>6, PatchStore
      <4>8. PatchIn(b, w, p)'
        BY <1>2, <1>3, <2>1, <4>7
      <4>9. IF buf_idx = LastIn THEN load_done' /\ n + 1 = p
            ELSE ~load_done' /\ buf_idx' = n + 1
        <5>1. CASE buf_idx = LastIn
          BY <1>2, <1>3, <2>2, <3>2, <5>1 DEF LoadSide, Arrived
        <5>2. CASE buf_idx # LastIn
          <6>1. load_done' = load_done /\ buf_idx' = (n + 1) % (2 * BufWords)
            BY <1>3, <2>2, <3>2, <5>2 DEF LoadSide, Arrived
          <6>2. (n + 1) % (2 * BufWords) = n + 1
            BY <1>2, <1>3, <4>2, <5>2, Increment
          <6>3. QED
            BY <3>2, <5>2, <6>1, <6>2
        <5>3. QED
          BY <5>1, <5>2
      <4>10. n + 1 \in Nat /\ (n + 1 = IF load_done' THEN p ELSE buf_idx')
        <5>1. CASE buf_idx = LastIn
          BY <4>9, <5>1
        <5>2. CASE buf_idx # LastIn
          BY <4>9, <5>2
        <5>3. QED
          BY <5>1, <5>2
      <4>11. QED
        BY <3>2, <4>7, <4>8, <4>10
    <3>3. QED
      BY <3>1, <3>2
  <2>4. PatchIn(buf_sel, w_pos, patch_words)'
    BY <1>1, <1>3, <2>1, <2>3 DEF PatchIn, InWord
  <2>5. PatchIn(inactive, w_pos + 1, IF load_done THEN patch_words ELSE buf_idx)'
    <3>1. PICK k \in Nat : PatchIn(1 - b, w + 1, k)' /\ k = IF load_done' THEN p ELSE buf_idx'
      BY <2>3
    <3>2. inactive' = 1 - b /\ w_pos' + 1 = w + 1
          /\ k = IF load_done' THEN patch_words' ELSE buf_idx'
      BY <1>1, <1>3, <2>1, <3>1 DEF inactive
    <3>3. QED
      BY <3>1, <3>2 DEF PatchIn, InWord
  <2>6. state' = "WRITE_ADDR" => PatchIn(inactive, w_pos + 1, patch_words)'
    BY <2>2, <2>3, <2>5
  <2>7. QED
    BY <2>2, <2>4, <2>5, <2>6 DEF InputsLoaded
<1>11. CASE ~(S_IN_ADDR \/ S_IN_DATA \/ S_MAC \/ S_MAC_OVLP \/ S_WRITE_ADDR \/ S_WRITE_DATA \/ S_ADVANCE)
  BY <1>11 DEF Busy, S_IDLE, S_INIT, S_WT_ADDR, S_WT_DATA_W, S_WT_DATA, S_BIAS_ADDR, S_BIAS_DATA,
     S_SHIFT_DATA, S_DONE, InputsLoaded
<1>12. QED
  BY <1>5, <1>6, <1>7, <1>8, <1>9, <1>10, <1>11

\* One step of the multiplication adds the products of one word, without those that pad it.
LEMMA MacStep ==
    ASSUME TypeInv, mac_idx <= LastWord, acc = FirstProducts(4 * mac_idx),
           in_buf[buf_sel][mac_idx] = InWord(w_pos, mac_idx),
           \A l \in 0..3 : wt_buf[mac_idx][l] = WtByte(mac_idx, l)
    PROVE  /\ mac_idx = LastWord => mac4 = FirstProducts(cfg.patch_bytes)
           /\ mac_idx # LastWord => mac4 = FirstProducts(4 * (mac_idx + 1))
<1>1. /\ mac_idx \in Nat /\ cfg.patch_bytes \in Nat /\ w_pos \in Nat /\ cfg.step \in Nat
      /\ LastWord = patch_words - 1 /\ patch_words \in Nat
      /\ cfg.patch_bytes > 4 * (patch_words - 1) /\ cfg.patch_bytes <= 4 * patch_words
      /\ wt_addr \in Nat
  <2>1. wt_addr \in Nat /\ cfg \in Configs
    BY WtAddr
  <2>2. mac_idx \in Nat /\ w_pos \in Nat
    BY <2>1, Sizes DEF TypeInv, TypeOK, Buffer
  <2>3. /\ cfg.patch_bytes \in Nat /\ cfg.step \in Nat
        /\ LastWord = patch_words - 1 /\ patch_words \in Nat
        /\ cfg.patch_bytes > 4 * (patch_words - 1) /\ cfg.patch_bytes <= 4 * patch_words
    BY <2>1, Sizes
  <2>4. QED
    BY <2>1, <2>2, <2>3
<1>2. PICK x \in Nat, f \in Nat, g \in Nat : x = mac_idx /\ f = w_pos * cfg.step /\ g = wt_addr
  <2>1. w_pos * cfg.step \in Nat
    BY <1>1
  <2>2. QED
    BY <1>1, <2>1
<1>3. PICK k \in Nat : /\ 4 * x < k /\ k <= 4 * x + 4 /\ k <= cfg.patch_bytes
                       /\ mac_idx = LastWord => k = cfg.patch_bytes
                       /\ mac_idx # LastWord => k = 4 * (mac_idx + 1)
  <2>1. CASE mac_idx = LastWord
    BY <1>1, <1>2, <2>1
  <2>2. CASE mac_idx # LastWord
    <3>1. 4 * (mac_idx + 1) \in Nat /\ 4 * (mac_idx + 1) <= cfg.patch_bytes
      BY <1>1, <2>2
    <3>2. QED
      BY <1>1, <1>2, <2>2, <3>1
  <2>3. QED
    BY <2>1, <2>2
<1>4. \A l \in 0..3 : 4 * x + l < cfg.patch_bytes <=> 4 * x + l < k
  BY <1>1, <1>2, <1>3
<1>5. \A l \in 0..3 : wt_buf[mac_idx][l] =
          IF 4 * x + l < k THEN [of |-> "wt", at |-> g + 4 * x + l] ELSE Zero
  BY <1>2, <1>4 DEF WtByte
<1>6. \A l \in 0..3 : [of |-> "wt", at |-> g + 4 * x + l] # Zero
  <2>1. \A l \in 0..3 : [of |-> "wt", at |-> g + 4 * x + l] \in Word
    BY DEF Word
  <2>2. QED
    BY <2>1, ZeroAssumption
<1>7. lanes = {l \in 0..3 : 4 * x + l < k}
  BY <1>5, <1>6 DEF lanes
<1>8. \A l \in 0..3 : Lane(in_buf[buf_sel][mac_idx], l) = [of |-> "src", at |-> f + 4 * x + l]
  BY <1>2 DEF InWord, Lane
<1> DEFINE Pair(b) == <<[of |-> "src", at |-> f + b], [of |-> "wt", at |-> g + b]>>
<1>9. \A b : Product(b) = Pair(b)
  BY <1>2 DEF Product
<1>10. \A l \in lanes :
          <<Lane(in_buf[buf_sel][mac_idx], l), wt_buf[mac_idx][l]>> = Pair(4 * x + l)
  <2> SUFFICES ASSUME NEW l \in lanes
               PROVE  <<Lane(in_buf[buf_sel][mac_idx], l), wt_buf[mac_idx][l]>> = Pair(4 * x + l)
    OBVIOUS
  <2>1. l \in 0..3 /\ 4 * x + l < k
    BY <1>7
  <2>2. /\ Lane(in_buf[buf_sel][mac_idx], l) = [of |-> "src", at |-> f + 4 * x + l]
        /\ wt_buf[mac_idx][l] = [of |-> "wt", at |-> g + 4 * x + l]
    BY <1>5, <1>8, <2>1
  <2>3. f + 4 * x + l = f + (4 * x + l) /\ g + 4 * x + l = g + (4 * x + l)
    BY <2>1
  <2>4. QED
    BY <2>2, <2>3
<1>11. acc.n = 4 * x /\ acc.pairs = {Pair(b) : b \in 0 .. 4 * x - 1}
  BY <1>2, <1>9 DEF FirstProducts
<1> HIDE DEF Pair
<1>12. mac4.n = k
  BY <1>3, <1>7, <1>11 DEF mac4
<1>13. mac4.pairs = {Pair(b) : b \in 0 .. k - 1}
  <2>1. mac4.pairs = {Pair(b) : b \in 0 .. 4 * x - 1} \cup {Pair(4 * x + l) : l \in lanes}
    <3>1. {<<Lane(in_buf[buf_sel][mac_idx], l), wt_buf[mac_idx][l]>> : l \in lanes}
             = {Pair(4 * x + l) : l \in lanes}
      BY <1>10
    <3>2. QED
      BY <1>11, <3>1 DEF mac4
  <2>2. ASSUME NEW b \in 0 .. k - 1
        PROVE  Pair(b) \in {Pair(e) : e \in 0 .. 4 * x - 1} \cup {Pair(4 * x + l) : l \in lanes}
    <3>1. CASE b < 4 * x
      BY <3>1
    <3>2. CASE b >= 4 * x
      <4>1. b - 4 * x \in lanes /\ b = 4 * x + (b - 4 * x)
        BY <1>3, <1>7, <3>2
      <4>2. Pair(b) = Pair(4 * x + (b - 4 * x))
        BY <4>1
      <4>3. QED
        BY <4>1, <4>2
    <3>3. QED
      BY <3>1, <3>2
  <2>3. ASSUME NEW b \in 0 .. 4 * x - 1 PROVE b \in 0 .. k - 1
    BY <1>3
  <2>4. ASSUME NEW l \in lanes PROVE 4 * x + l \in 0 .. k - 1
    BY <1>7
  <2>5. QED
    BY <2>1, <2>2, <2>3, <2>4
<1>14. mac4 = FirstProducts(k)
  <2>1. mac4 = [n |-> mac4.n, pairs |-> mac4.pairs]
    BY DEF mac4
  <2>2. FirstProducts(k) = [n |-> k, pairs |-> {Pair(b) : b \in 0 .. k - 1}]
    BY <1>9 DEF FirstProducts, Pair
  <2>3. QED
    BY <1>12, <1>13, <2>1, <2>2
<1>15. QED
  BY <1>3, <1>14

LEMMA AccumulatedStep ==
    ASSUME TypeInv, WeightsLoaded, InputsLoaded, Accumulated, S_IDLE \/ Busy
    PROVE  Accumulated'
<1>1. cfg' = cfg /\ LastWord' = LastWord
  BY CfgStays
<1>2. w_pos' = w_pos /\ c_pos' = c_pos => \A n : FirstProducts(n)' = FirstProducts(n)
  BY <1>1 DEF FirstProducts, Product, wt_addr
<1>3. NoProducts = FirstProducts(4 * 0) /\ NoProducts = FirstProducts(4 * 0)'
  <2>1. 4 * 0 = 0 /\ 0 .. 0 - 1 = {}
    OBVIOUS
  <2>2. QED
    BY <2>1 DEF NoProducts, FirstProducts
<1>4. /\ mac_idx \in Nat /\ BufWords \in Nat /\ mac_done \in BOOLEAN /\ buf_sel \in 0..1
      /\ LastWord = patch_words - 1 /\ patch_words \in 1 .. BufWords - 1
  BY Sizes DEF TypeInv, TypeOK, Buffer
<1>5. PICK x \in Nat : x = mac_idx
  BY <1>4
<1>6. ASSUME state \in {"MAC", "MAC_OVLP"}, state = "MAC_OVLP" => ~mac_done
      PROVE  /\ x <= LastWord
             /\ x = LastWord => mac4 = FirstProducts(cfg.patch_bytes)
             /\ x # LastWord => mac4 = FirstProducts(4 * (x + 1)) /\ (x + 1) % BufWords = x + 1
  <2>1. mac_idx <= LastWord
    BY <1>6 DEF TypeInv, Loops
  <2>2. acc = FirstProducts(4 * mac_idx)
    BY <1>6 DEF Accumulated
  <2>3. in_buf[buf_sel][mac_idx] = InWord(w_pos, mac_idx)
    <3>1. mac_idx \in 0 .. patch_words - 1
      BY <1>4, <2>1
    <3>2. QED
      BY <1>6, <3>1 DEF InputsLoaded, PatchIn
  <2>4. \A l \in 0..3 : wt_buf[mac_idx][l] = WtByte(mac_idx, l)
    <3>1. mac_idx \in 0 .. LastWord
      BY <1>4, <2>1
    <3>2. QED
      BY <1>6, <3>1 DEF WeightsLoaded, Biased
  <2>5. /\ mac_idx = LastWord => mac4 = FirstProducts(cfg.patch_bytes)
        /\ mac_idx # LastWord => mac4 = FirstProducts(4 * (mac_idx + 1))
    BY <2>1, <2>2, <2>3, <2>4, MacStep
  <2>6. x # LastWord => (x + 1) % BufWords = x + 1
    BY <1>4, <1>5, <2>1, Increment DEF Buffer, TypeInv, TypeOK
  <2>7. QED
    BY <1>5, <2>1, <2>5, <2>6
<1>7. CASE S_MAC
  <2>1. state = "MAC" /\ acc' = mac4 /\ w_pos' = w_pos /\ c_pos' = c_pos
    BY <1>7 DEF S_MAC
  <2>2. CASE x = LastWord
    <3>1. state' = "WRITE_ADDR"
      BY <1>5, <1>7, <2>2 DEF S_MAC
    <3>2. QED
      BY <1>1, <1>2, <1>6, <2>1, <2>2, <3>1 DEF Accumulated
  <2>3. CASE x # LastWord
    <3>1. state' = "MAC" /\ mac_idx' = x + 1
      BY <1>5, <1>6, <1>7, <2>1, <2>3 DEF S_MAC
    <3>2. acc' = FirstProducts(4 * (x + 1))'
      BY <1>2, <1>6, <2>1, <2>3
    <3>3. QED
      BY <3>1, <3>2 DEF Accumulated, FirstProducts, Product
  <2>4. QED
    BY <2>2, <2>3
<1>8. CASE S_MAC_OVLP
  <2>1. /\ state = "MAC_OVLP" /\ w_pos' = w_pos /\ c_pos' = c_pos
        /\ state' \in {"MAC_OVLP", "WRITE_ADDR"}
        /\ state' = "WRITE_ADDR" => mac_done
    BY <1>8 DEF S_MAC_OVLP, OverlapEnds
  <2>2. CASE mac_done
    <3>1. acc' = acc /\ mac_done'
      BY <1>8, <2>2 DEF S_MAC_OVLP, MacSide
    <3>2. acc = FirstProducts(cfg.patch_bytes)
      BY <2>1, <2>2 DEF Accumulated
    <3>3. PICK n : n = cfg.patch_bytes /\ n = cfg'.patch_bytes
      BY <1>1
    <3>4. acc' = FirstProducts(n)'
      BY <1>2, <2>1, <3>1, <3>2, <3>3
    <3>5. acc' = FirstProducts(cfg.patch_bytes)'
      BY <3>3, <3>4 DEF FirstProducts, Product
    <3>6. QED
      BY <2>1, <3>1, <3>5 DEF Accumulated
  <2>3. CASE ~mac_done
    <3>1. acc' = mac4 /\ state' = "MAC_OVLP"
      BY <1>8, <2>1, <2>3 DEF S_MAC_OVLP, MacSide
    <3>2. CASE x = LastWord
      <4>1. mac_done'
        BY <1>5, <1>8, <2>3, <3>2 DEF S_MAC_OVLP, MacSide
      <4>2. QED
        BY <1>1, <1>2, <1>6, <2>1, <2>3, <3>1, <3>2, <4>1 DEF Accumulated
    <3>3. CASE x # LastWord
      <4>1. ~mac_done' /\ mac_idx' = x + 1
        BY <1>5, <1>6, <1>8, <2>1, <2>3, <3>3 DEF S_MAC_OVLP, MacSide
      <4>2. acc' = FirstProducts(4 * (x + 1))'
        BY <1>2, <1>6, <2>1, <2>3, <3>1, <3>3
      <4>3. QED
        BY <3>1, <4>1, <4>2 DEF Accumulated, FirstProducts, Product
    <3>4. QED
      BY <3>2, <3>3
  <2>4. QED
    BY <2>2, <2>3
<1>9. CASE S_SHIFT_DATA \/ S_IN_ADDR \/ S_IN_DATA \/ S_ADVANCE
  <2>1. /\ state' \in {"SHIFT_DATA", "IN_ADDR", "IN_DATA", "MAC", "MAC_OVLP", "WT_ADDR", "DONE"}
        /\ state' \in {"IN_ADDR", "IN_DATA", "MAC", "MAC_OVLP"} => acc' = NoProducts
        /\ state' \in {"MAC", "MAC_OVLP"} => mac_idx' = 0
        /\ state' = "MAC_OVLP" => ~mac_done'
    BY <1>9 DEF S_SHIFT_DATA, S_IN_ADDR, S_IN_DATA, S_ADVANCE, Overlap, Accumulated, datapath
  <2>2. QED
    BY <1>3, <2>1 DEF Accumulated, FirstProducts, Product
<1>10. CASE ~(S_MAC \/ S_MAC_OVLP \/ S_SHIFT_DATA \/ S_IN_ADDR \/ S_IN_DATA \/ S_ADVANCE)
  <2>1. state' \notin {"IN_ADDR", "IN_DATA", "MAC", "MAC_OVLP", "WRITE_ADDR"}
    BY <1>10 DEF Busy, S_IDLE, S_INIT, S_WT_ADDR, S_WT_DATA_W, S_WT_DATA, S_BIAS_ADDR,
       S_BIAS_DATA, S_WRITE_ADDR, S_WRITE_DATA, S_DONE
  <2>2. QED
    BY <2>1 DEF Accumulated
<1>11. QED
  BY <1>7, <1>8, <1>9, <1>10

LEMMA ScaledStep ==
    ASSUME TypeInv, Bursts, Scaled, S_IDLE \/ Busy
    PROVE  Scaled'
<1>1. cfg' = cfg
  BY CfgStays
<1>2. c_pos \in Nat /\ cfg.shift \in Nat /\ "bias" \in Array /\ "shift" \in Array
  BY Sizes DEF TypeInv, TypeOK, Array
<1>3. CASE S_BIAS_DATA
  <2>1. CASE ~Arrived
    <3>1. state' = "BIAS_DATA"
      BY <1>3, <2>1 DEF S_BIAS_DATA
    <3>2. QED
      BY <3>1 DEF Scaled, Biased, Shifted
  <2>2. CASE Arrived
    <3>1. /\ state = "BIAS_DATA" /\ state' = "SHIFT_DATA" /\ bias_val' = hrdata /\ c_pos' = c_pos
      BY <1>3, <2>2 DEF S_BIAS_DATA, counters, Accepted, Arrived
    <3>2. PICK p \in Nat : p = 4 * c_pos /\ p % 4 = 0
      BY <1>2
    <3>3. dphase = [haddr |-> [of |-> "bias", at |-> p], hwrite |-> FALSE]
      BY <2>2, <3>1, <3>2 DEF Bursts, Single, Arrived
    <3>4. hrdata = [of |-> "bias", at |-> p]
      BY <1>2, <3>2, <3>3, ReadAt
    <3>5. QED
      BY <3>1, <3>2, <3>4 DEF Scaled, Biased, Shifted
  <2>3. QED
    BY <2>1, <2>2
<1>4. CASE S_SHIFT_DATA
  <2>0. state = "SHIFT_DATA" /\ bias_val' = bias_val /\ c_pos' = c_pos
    BY <1>4 DEF S_SHIFT_DATA, counters
  <2>1. CASE ~Arrived
    <3>1. state' = "SHIFT_DATA"
      BY <1>4, <2>0, <2>1 DEF S_SHIFT_DATA
    <3>2. QED
      BY <2>0, <3>1 DEF Scaled, Biased, Shifted
  <2>2. CASE Arrived
    <3>1. PICK p \in Nat : p = cfg.shift + c_pos
      BY <1>2
    <3>2. cur_shift' = Byte(p)
      BY <1>4, <2>2, <3>1 DEF S_SHIFT_DATA, Accepted, Arrived
    <3>3. dphase = [haddr |-> [of |-> "shift", at |-> p], hwrite |-> FALSE]
      BY <2>0, <2>2, <3>1 DEF Bursts, Single, Arrived
    <3>4. Byte(p) = [of |-> "shift", at |-> p]
      BY <1>2, <3>3, ReadAt
    <3>5. QED
      BY <1>1, <2>0, <3>1, <3>2, <3>4 DEF Scaled, Biased, Shifted
  <2>3. QED
    BY <2>1, <2>2
<1>5. CASE ~(S_BIAS_DATA \/ S_SHIFT_DATA)
  <2>1. /\ Biased' => Biased /\ bias_val' = bias_val /\ c_pos' = c_pos
        /\ Shifted' => Shifted /\ cur_shift' = cur_shift
    BY <1>5 DEF Busy, S_IDLE, S_INIT, S_WT_ADDR, S_WT_DATA_W, S_WT_DATA, S_BIAS_ADDR, S_IN_ADDR,
       S_IN_DATA, S_MAC, S_MAC_OVLP, S_WRITE_ADDR, S_WRITE_DATA, S_ADVANCE, S_DONE, Overlap,
       OverlapEnds, datapath, counters, Biased, Shifted
  <2>2. QED
    BY <1>1, <2>1 DEF Scaled, Shifted
<1>6. QED
  BY <1>3, <1>4, <1>5

\* The result that is put on the bus.
LEMMA ResultStarts ==
    ASSUME TypeInv, Accumulated, Scaled, S_WRITE_ADDR
    PROVE  bus'.hwdata = Expected(w_pos, c_pos)
<1>1. /\ state = "WRITE_ADDR"
      /\ bus'.hwdata = [acc |-> acc, bias |-> bias_val, shift |-> cur_shift]
  BY DEF S_WRITE_ADDR
<1>2. acc = FirstProducts(cfg.patch_bytes)
  BY <1>1 DEF Accumulated
<1>3. /\ bias_val = [of |-> "bias", at |-> 4 * c_pos]
      /\ cur_shift = [of |-> "shift", at |-> cfg.shift + c_pos]
  BY <1>1 DEF Scaled, Biased, Shifted
<1>4. QED
  BY <1>1, <1>2, <1>3 DEF Expected, FirstProducts, Product, wt_addr

\* Every result that is on the bus or in memory is the right one for its place.
LEMMA ResultsStep ==
    ASSUME ShortWrites, ControlInv, Accumulated, Scaled, ResultsCorrect, Next
    PROVE  ResultsCorrect'
<1>0. TypeInv /\ WriteWaits /\ OutputsWritten
  BY DEF ControlInv
<1>1. CASE StartLayer
  <2>1. OutputsWritten' /\ ~InFlight'
    BY <1>0, <1>1, StartOutputs
  <2>2. state' = "INIT"
    BY <1>1 DEF StartLayer, Start
  <2>3. QED
    BY <2>1, <2>2 DEF OutputsWritten, ResultsCorrect, Issued
<1>2. CASE ~StartLayer
  <2>1. (S_IDLE \/ Busy) /\ cfg \in Configs
    BY <1>0, <1>2, NextCases DEF TypeInv, TypeOK
  <2>2. /\ Position' = Position /\ Channel' = Channel
        /\ \A w, c : Place(w, c)' = Place(w, c)
        /\ \A w, c : Expected(w, c)' = Expected(w, c)
    BY <2>1, CfgStays DEF Expected
  <2>3. Started' => Started
    BY <2>1 DEF Started, Busy, S_IDLE, flags, S_INIT, S_WT_ADDR, S_WT_DATA_W, S_WT_DATA, S_BIAS_ADDR,
       S_BIAS_DATA, S_SHIFT_DATA, S_IN_ADDR, S_IN_DATA, S_MAC, S_MAC_OVLP, S_WRITE_ADDR,
       S_WRITE_DATA, S_ADVANCE, S_DONE
  <2>4. state = "WRITE_DATA" => w_pos \in Position /\ c_pos \in Channel
    BY <1>0, <2>1, Sizes DEF TypeInv, TypeOK, Position, Channel
  <2>5. state' = "WRITE_DATA" => bus'.hwdata = Expected(w_pos, c_pos)'
    <3> SUFFICES ASSUME state' = "WRITE_DATA" PROVE bus'.hwdata = Expected(w_pos, c_pos)'
      OBVIOUS
    <3>1. CASE S_WRITE_ADDR
      <4>1. w_pos' = w_pos /\ c_pos' = c_pos /\ cfg' = cfg
        BY <3>1 DEF S_WRITE_ADDR, counters
      <4>2. bus'.hwdata = Expected(w_pos, c_pos)
        BY <1>0, <3>1, ResultStarts
      <4>3. QED
        BY <4>1, <4>2 DEF Expected
    <3>2. CASE S_WRITE_DATA
      <4>1. w_pos' = w_pos /\ c_pos' = c_pos /\ cfg' = cfg /\ bus' = bus /\ state = "WRITE_DATA"
        BY <3>2 DEF S_WRITE_DATA, counters
      <4>2. bus.hwdata = Expected(w_pos, c_pos)
        BY <4>1 DEF ResultsCorrect
      <4>3. QED
        BY <4>1, <4>2 DEF Expected
    <3>3. CASE ~S_WRITE_ADDR /\ ~S_WRITE_DATA
      BY <2>1, <3>3 DEF Busy, S_IDLE, S_INIT, S_WT_ADDR, S_WT_DATA_W, S_WT_DATA, S_BIAS_ADDR,
         S_BIAS_DATA, S_SHIFT_DATA, S_IN_ADDR, S_IN_DATA, S_MAC, S_MAC_OVLP, S_ADVANCE, S_DONE, Overlap
    <3>4. QED
      BY <3>1, <3>2, <3>3
  <2>6. /\ InFlight' => \A w \in Position, c \in Channel :
                           dphase'.haddr.at = Place(w, c) => bus'.hwdata = Expected(w, c)
        /\ Started => \A w \in Position, c \in Channel :
                           out'[Place(w, c)] # None => out'[Place(w, c)] = Expected(w, c)
    <3>1. CASE /\ state = "WRITE_DATA" /\ hready /\ ~InFlight /\ out' = out
               /\ InFlight' /\ dphase' = [haddr |-> bus.haddr, hwrite |-> TRUE]
               /\ bus'.hwdata = bus.hwdata
      <4>0. PICK v \in Position, d \in Channel : v = w_pos /\ d = c_pos
        BY <2>4, <3>1
      <4>1. dphase'.haddr.at = Place(v, d)
        BY <1>0, <3>1, <4>0 DEF OutputsWritten, Started
      <4>2. bus'.hwdata = Expected(v, d)
        BY <3>1, <4>0 DEF ResultsCorrect
      <4>3. \A w \in Position, c \in Channel :
               dphase'.haddr.at = Place(w, c) => w = v /\ c = d
        BY <2>1, <4>1, PlaceUnique
      <4>4. QED
        BY <3>1, <4>2, <4>3 DEF ResultsCorrect
    <3>2. CASE /\ InFlight /\ hready /\ state # "WRITE_DATA" /\ ~InFlight'
               /\ out' = [out EXCEPT ![dphase.haddr.at] = bus.hwdata]
      <4>1. ASSUME Started, NEW w \in Position, NEW c \in Channel, out'[Place(w, c)] # None
            PROVE  out'[Place(w, c)] = Expected(w, c)
        <5>1. out \in [0 .. cfg.w_out * cfg.c_out - 1 -> Result \cup {None}]
          BY <1>0, <4>1 DEF OutputsWritten
        <5>2. Place(w, c) \in 0 .. cfg.w_out * cfg.c_out - 1
          BY <2>1, PlaceIn
        <5>3. CASE dphase.haddr.at = Place(w, c)
          <6>1. out'[Place(w, c)] = bus.hwdata
            BY <3>2, <5>1, <5>2, <5>3
          <6>2. QED
            BY <3>2, <5>3, <6>1 DEF ResultsCorrect
        <5>4. CASE dphase.haddr.at # Place(w, c)
          <6>1. out'[Place(w, c)] = out[Place(w, c)]
            BY <3>2, <5>1, <5>2, <5>4
          <6>2. QED
            BY <4>1, <6>1 DEF ResultsCorrect
        <5>5. QED
          BY <5>3, <5>4
      <4>2. QED
        BY <3>2, <4>1
    <3>3. CASE /\ InFlight /\ ~hready /\ state # "WRITE_DATA" /\ out' = out
               /\ InFlight' /\ dphase' = dphase
      <4>1. bus'.hwdata = bus.hwdata
        BY <2>1, <3>3, WriteDataStays
      <4>2. QED
        BY <3>3, <4>1 DEF ResultsCorrect
    <3>4. CASE /\ ~InFlight /\ ~(state = "WRITE_DATA" /\ hready) /\ ~InFlight' /\ out' = out
      BY <3>4 DEF ResultsCorrect
    <3>5. QED
      BY <1>0, <1>2, <3>1, <3>2, <3>3, <3>4, WriteMoves
  <2>7. QED
    BY <2>2, <2>3, <2>5, <2>6 DEF ResultsCorrect
<1>3. QED
  BY <1>1, <1>2

LEMMA InitData == Init => DataInv
<1> SUFFICES ASSUME Init PROVE DataInv
  OBVIOUS
<1>1. state = "IDLE" /\ ~r_done /\ dphase = None
  BY DEF Init
<1>2. ~Started /\ ~InFlight
  BY <1>1 DEF Started, InFlight
<1>3. QED
  BY <1>1, <1>2, InitControl
     DEF DataInv, Bursts, WeightsLoaded, InputsLoaded, Accumulated, Scaled, Biased, Shifted, ResultsCorrect

LEMMA StepData ==
    ASSUME ShortWrites, BytewiseFits, InputsAligned, DataInv, [Next]_vars
    PROVE  DataInv'
<1>0. /\ ControlInv /\ TypeInv /\ Bursts /\ WeightsLoaded /\ InputsLoaded /\ Accumulated /\ Scaled
      /\ ResultsCorrect
  BY DEF DataInv, ControlInv
<1>1. ControlInv'
  BY <1>0, StepControl
<1>2. CASE Next
  <2>1. (S_IDLE \/ Busy \/ StartLayer) /\ BusStep
    BY <1>2, NextCases
  <2>2. Bursts' /\ ResultsCorrect'
    BY <1>0, <1>2, <2>1, BurstsStep, ResultsStep
  <2>3. CASE S_IDLE \/ Busy
    <3>1. WeightsLoaded' /\ InputsLoaded' /\ Accumulated' /\ Scaled'
      BY <1>0, <2>3, WeightsStep, PatchesStep, AccumulatedStep, ScaledStep
    <3>2. QED
      BY <1>1, <2>2, <3>1 DEF DataInv
  <2>4. CASE StartLayer
    <3>1. state' = "INIT"
      BY <2>4 DEF StartLayer, Start
    <3>2. WeightsLoaded' /\ InputsLoaded' /\ Accumulated' /\ Scaled'
      BY <3>1 DEF WeightsLoaded, InputsLoaded, Accumulated, Scaled, Biased, Shifted
    <3>3. QED
      BY <1>1, <2>2, <3>2 DEF DataInv
  <2>5. QED
    BY <2>1, <2>3, <2>4
<1>3. CASE UNCHANGED vars
  <2>1. Bursts' /\ WeightsLoaded'
    <3>1. Bursts'
      BY <1>0, <1>3 DEF vars, counters, flags, Bursts, Burst, Single, wt_addr, LastWord, LastIn,
         patch_words
    <3>2. WeightsLoaded'
      BY <1>0, <1>3 DEF vars, counters, buffers, flags, wt_addr, LastWord, patch_words,
         WeightsLoaded, Biased, WtByte
    <3>3. QED
      BY <3>1, <3>2
  <2>2. InputsLoaded'
    BY <1>0, <1>3 DEF vars, counters, buffers, flags, InputsLoaded, PatchIn, InWord, inactive,
       patch_words, last_w
  <2>3. Accumulated' /\ Scaled'
    BY <1>0, <1>3 DEF vars, counters, flags, datapath, Accumulated, FirstProducts, Product,
       wt_addr, Scaled, Biased, Shifted
  <2>4. ResultsCorrect'
    BY <1>0, <1>3 DEF vars, counters, flags, ResultsCorrect, InFlight, Started, Position, Channel,
       Place, Expected
  <2>5. QED
    BY <1>1, <2>1, <2>2, <2>3, <2>4 DEF DataInv
<1>4. QED
  BY <1>2, <1>3

\* What the registers, the buffers and memory hold, for any wait states of the loads.
THEOREM DataInvariant ==
    ShortWrites /\ BytewiseFits /\ InputsAligned => (Spec => []DataInv)
<1> SUFFICES ASSUME ShortWrites, BytewiseFits, InputsAligned PROVE Spec => []DataInv
  OBVIOUS
<1>1. DataInv /\ [Next]_vars => DataInv'
  BY StepData
<1>2. QED
  BY InitData, <1>1, PTL DEF Spec

\* When a layer is done, memory holds the convolution: every output is made of its own
\* patch, filter, bias and shift. accel_conv1d.h:64-66.
THEOREM LayersCorrect ==
    ShortWrites /\ BytewiseFits /\ InputsAligned => (Spec => []OutputsCorrect)
<1> SUFFICES ASSUME ShortWrites, BytewiseFits, InputsAligned PROVE Spec => []OutputsCorrect
  OBVIOUS
<1>1. ASSUME DataInv PROVE OutputsCorrect
  <2> SUFFICES ASSUME r_done, dphase = None, NEW w \in Position, NEW c \in Channel
               PROVE  out[Place(w, c)] = Expected(w, c)
    BY DEF OutputsCorrect, Place, Position, Channel
  <2>1. state = "IDLE" /\ Started /\ ~InFlight
    BY <1>1 DEF DataInv, ControlInv, TypeInv, Loops, Started, InFlight
  <2>2. out[Place(w, c)] # None
    BY <1>1, <2>1 DEF DataInv, ControlInv, OutputsWritten, Issued
  <2>3. QED
    BY <1>1, <2>1, <2>2 DEF DataInv, ResultsCorrect
<1>2. QED
  BY <1>1, DataInvariant, PTL

\* When the done bit is set, what is not in memory is the last output only, and its
\* result is on the bus for as long as its write takes. Nothing bounds that wait for
\* a layer of one output position, and only the time of the next result for others.
THEOREM DoneKeepsLastWrite ==
    ShortWrites /\ BytewiseFits /\ InputsAligned => (Spec => []DoneLeavesLastWrite)
<1> SUFFICES ASSUME ShortWrites, BytewiseFits, InputsAligned
             PROVE  Spec => []DoneLeavesLastWrite
  OBVIOUS
<1>1. ASSUME DataInv, LastWrite PROVE DoneLeavesLastWrite
  <2> SUFFICES ASSUME r_done, NEW o \in DOMAIN out, out[o] = None
               PROVE  /\ o = cfg.w_out * cfg.c_out - 1
                      /\ dphase # None /\ dphase.hwrite /\ dphase.haddr.at = o
                      /\ bus.hwdata = Expected(cfg.w_out - 1, cfg.c_out - 1)
    BY DEF DoneLeavesLastWrite
  <2>1. state = "IDLE" /\ Started /\ cfg \in Configs /\ ControlInv
    BY <1>1 DEF DataInv, ControlInv, TypeInv, TypeOK, Loops, Started
  <2>2. o \in 0 .. cfg.w_out * cfg.c_out - 1
    BY <2>1 DEF ControlInv, OutputsWritten
  <2>3. PICK w \in Position, c \in Channel : o = Place(w, c)
    <3> DEFINE n == cfg.c_out
               m == cfg.w_out
    <3>1. n \in Nat \ {0} /\ m \in Nat /\ o \in 0 .. m * n - 1
      BY <2>1, <2>2, Sizes
    <3> HIDE DEF n, m
    <3>2. \E w \in 0 .. m - 1, c \in 0 .. n - 1 : o = w * n + c
      BY <3>1, TableHasPlace
    <3>3. QED
      BY <3>2 DEF n, m, Position, Channel, Place
  <2>4. InFlight /\ dphase.haddr.at = o
    BY <2>1, <2>3 DEF ControlInv, OutputsWritten, Issued
  <2>5. o = Place(last_w, last_c)
    BY <1>1, <2>1, <2>4 DEF LastWrite
  <2>6. last_w \in Position /\ last_c \in Channel
    BY <2>1, Sizes DEF last_w, last_c, Position, Channel
  <2>7. bus.hwdata = Expected(last_w, last_c)
    BY <1>1, <2>4, <2>5, <2>6 DEF DataInv, ResultsCorrect
  <2>8. o = cfg.w_out * cfg.c_out - 1
    <3> DEFINE n == cfg.c_out
               m == cfg.w_out
    <3>1. n \in Nat /\ m \in Nat /\ o = (m - 1) * n + (n - 1)
      BY <2>1, <2>5, Sizes DEF Place, last_w, last_c
    <3> HIDE DEF n, m
    <3>2. o = m * n - 1
      BY <3>1
    <3>3. QED
      BY <3>2 DEF n, m
  <2>9. QED
    BY <2>4, <2>7, <2>8 DEF InFlight, last_w, last_c
<1>2. QED
  BY <1>1, DataInvariant, LastWriteInv, PTL
=============================================================================
