--------------------------- MODULE AudioRingProofs ---------------------------
(***************************************************************************)
(* Theorems about the audio capture, for any size of clip, ring and step,  *)
(* and counters of any width that is a multiple of two rings.              *)
(***************************************************************************)
EXTENDS AudioRing, TLAPS

-----------------------------------------------------------------------------
(* Division with remainder for any divisor, which the provers know only    *)
(* for constants.                                                          *)

\* Quotient and remainder, by definition.
LEMMA DivMod ==
    ASSUME NEW n \in Nat \ {0}, NEW a \in Int
    PROVE  /\ a \div n \in Int /\ a % n \in 0 .. n - 1
           /\ a = (n * (a \div n)) + (a % n)
OBVIOUS

\* A positive multiple is at least the number.
LEMMA MultipleIsLarge ==
    ASSUME NEW n \in Nat \ {0}, NEW d \in Int, d >= 1
    PROVE  n * d >= n
OBVIOUS

\* A number has one remainder.
LEMMA RemainderUnique ==
    ASSUME NEW n \in Nat \ {0}, NEW p \in Int, NEW q \in Int,
           NEW r \in 0 .. n - 1, NEW s \in 0 .. n - 1, n * p + r = n * q + s
    PROVE  r = s
<1>1. CASE q - p >= 1
  <2>1. n * (q - p) = r - s
    OBVIOUS
  <2>2. QED
    BY <1>1, <2>1, MultipleIsLarge
<1>2. CASE p - q >= 1
  <2>1. n * (p - q) = s - r
    OBVIOUS
  <2>2. QED
    BY <1>2, <2>1, MultipleIsLarge
<1>3. CASE p = q
  BY <1>3
<1>4. QED
  BY <1>1, <1>2, <1>3

\* Adding a multiple of the divisor does not change the remainder.
LEMMA AddMultiple ==
    ASSUME NEW n \in Nat \ {0}, NEW a \in Int, NEW q \in Int
    PROVE  (a + (n * q)) % n = a % n
<1> DEFINE b == a + (n * q)
           c == a \div n
           d == b \div n
           r == a % n
           s == b % n
<1>1. c \in Int /\ a = (n * c) + r /\ r \in 0 .. n - 1
  BY DivMod
<1>2. d \in Int /\ b = (n * d) + s /\ s \in 0 .. n - 1
  <2>1. b \in Int
    OBVIOUS
  <2> HIDE DEF b, c, r
  <2>2. QED
    BY <2>1, DivMod
<1> HIDE DEF c, d, r, s
<1>3. n * (c + q) = (n * c) + (n * q) /\ c + q \in Int
  BY <1>1
<1>4. (n * d) + s = (n * (c + q)) + r
  BY <1>1, <1>2, <1>3
<1>5. s = r
  <2> DEFINE e == c + q
  <2>1. e \in Int /\ (n * d) + s = (n * e) + r
    BY <1>3, <1>4
  <2> HIDE DEF e
  <2>2. QED
    BY <1>1, <1>2, <2>1, RemainderUnique
<1>6. QED
  BY <1>5 DEF r, s

\* A remainder may be taken before adding.
LEMMA ModThenAdd ==
    ASSUME NEW n \in Nat \ {0}, NEW a \in Int, NEW b \in Int
    PROVE  ((a % n) + b) % n = (a + b) % n
<1> DEFINE c == a \div n
           r == a % n
<1>1. c \in Int /\ a = (n * c) + r /\ r \in 0 .. n - 1
  BY DivMod
<1> HIDE DEF c, r
<1>2. a + b = (r + b) + (n * c) /\ r + b \in Int
  BY <1>1
<1>3. QED
  BY <1>1, <1>2, AddMultiple DEF r

-----------------------------------------------------------------------------
(* The inductive invariant.                                                *)

\* How far the capture is past the end of the window, and the number of bursts
\* since the start of the window whose slot the DMA has begun to overwrite.
Lag == Diff(bytes_written, bytes_at_next_inference)

Started == Lag + Clip + (IF irq THEN 1 ELSE 0)

\* The counters never get so far apart that their signed difference wraps, and the
\* end of the window has been captured once the loop has stopped waiting for it.
LagBounded ==
    /\ -Clip <= Lag
    /\ Lag <= MaxLag \/ Lag <= 1
    /\ irq => Lag < MaxLag \/ Lag <= 0
    /\ pc \notin {"WAIT", "SLEEP", "WFI"} => Lag >= 0
    /\ pc \in {"LOSS", "RESYNC"} => Lag > Clip

\* The ring holds the newest of these bursts, as many as it has slots.
RingHolds ==
    \A k \in 0 .. Started - 1 : Started - k <= Ring =>
        audio_ring[Plus(snap_start, k) % Ring] = Plus(snap_start, k)

\* A clip and the burst in flight at most are behind the window at the guard.
CopyInTime ==
    /\ pc = "COPY" => j < Clip /\ arrived <= CopyBursts /\ Started <= 2 * Clip + 1 + arrived
    /\ pc = "INFER" => j = Clip

\* One burst at most is counted on the way from the test to WFI.
SleepInTime ==
    /\ pc = "SLEEP" => arrived <= 1 /\ Started < Clip + arrived
    /\ pc = "WFI" => Lag <= 0

\* Where the window is relative to the one before.
WindowFollows ==
    /\ pc = "RESYNC" => reported
    /\ pc = "STEP" => last_end = bytes_at_next_inference
    /\ last_end # None /\ pc \in {"WAIT", "SLEEP", "WFI", "START", "GUARD", "LOSS", "RESYNC"} =>
          Diff(bytes_at_next_inference, last_end) \in 1 .. Clip
    /\ last_end # None /\ pc \in {"COPY", "INFER"} =>
          /\ Diff(bytes_at_next_inference, last_end) > 0
          /\ Diff(snap_start, last_end) > 0 => reported

IndInv == TypeOK /\ LagBounded /\ RingHolds /\ CopyInTime /\ SleepInTime /\ WindowFollows

\* The ring has room for the window, for the clip the guard lets pass, for the burst
\* in flight and for what arrives during the copy.
Room == 2 * Clip + CopyBursts < Ring

\* What is copied already.
Copied ==
    pc \in {"COPY", "INFER"} => \A k \in 0 .. j - 1 : window[k] = Plus(snap_start, k)

-----------------------------------------------------------------------------
(* Counters and slots.                                                     *)

LEMMA Sizes ==
    /\ Clip \in Nat \ {0} /\ Ring \in Nat \ {0} /\ MinStep \in 1 .. Clip
    /\ CopyBursts \in Nat /\ MaxLag \in Nat /\ Clip < Ring
    /\ Wrap \in Nat \ {0} /\ 2 * (MaxLag + Clip) < Wrap
    /\ \E q \in Int : Wrap = Ring * q
    /\ 2 * (MaxLag + Clip) + 2 <= Wrap
<1>1. /\ Clip \in Nat \ {0} /\ Ring \in Nat \ {0} /\ MinStep \in 1 .. Clip
      /\ CopyBursts \in Nat /\ MaxLag \in Nat /\ Clip < Ring
      /\ Wrap \in Nat \ {0} /\ 2 * (MaxLag + Clip) < Wrap
  BY SizeAssumption, WrapAssumption
<1>2. PICK p \in Int : Wrap = (2 * Ring) * p
  <2> DEFINE n == 2 * Ring
  <2>1. n \in Nat \ {0} /\ Wrap \in Int /\ Wrap % n = 0
    BY <1>1, WrapAssumption
  <2> HIDE DEF n
  <2>2. Wrap \div n \in Int /\ Wrap = (n * (Wrap \div n)) + (Wrap % n)
    BY <2>1, DivMod
  <2>3. Wrap = n * (Wrap \div n)
    BY <2>1, <2>2
  <2>4. QED
    BY <2>2, <2>3 DEF n
<1>3. Wrap = Ring * (2 * p) /\ Wrap = 2 * (Ring * p) /\ Ring * p \in Int
  BY <1>1, <1>2
<1>4. 2 * (MaxLag + Clip) + 2 <= Wrap
  BY <1>1, <1>3
<1>5. QED
  BY <1>1, <1>2, <1>3, <1>4

\* The counter wraps at a multiple of the ring, so the slot of a burst is its number.
LEMMA SlotOf ==
    ASSUME NEW a \in Int
    PROVE  a % Wrap \in Counter /\ (a % Wrap) % Ring = a % Ring /\ a % Ring \in Slot
<1> DEFINE c == a \div Wrap
           r == a % Wrap
<1>1. c \in Int /\ a = (Wrap * c) + r /\ r \in 0 .. Wrap - 1 /\ a % Ring \in 0 .. Ring - 1
  BY DivMod, Sizes
<1> HIDE DEF c, r
<1>2. PICK q \in Int : Wrap = Ring * q
  BY Sizes
<1>3. a = r + (Ring * (q * c)) /\ q * c \in Int
  BY <1>1, <1>2, Sizes
<1>4. a % Ring = r % Ring
  <2> DEFINE e == q * c
  <2>1. e \in Int /\ a = r + (Ring * e)
    BY <1>3
  <2> HIDE DEF e
  <2>2. (r + (Ring * e)) % Ring = r % Ring
    <3>1. Ring \in Nat \ {0} /\ r \in Int
      BY <1>1, Sizes
    <3>2. QED
      BY <2>1, <3>1, AddMultiple
  <2>3. QED
    BY <2>1, <2>2
<1>5. QED
  BY <1>1, <1>4 DEF r, Counter, Slot

LEMMA SlotsDiffer ==
    ASSUME NEW a \in Int, NEW d \in 1 .. Ring - 1
    PROVE  (a + d) % Ring # a % Ring
<1> SUFFICES ASSUME (a + d) % Ring = a % Ring PROVE FALSE
  OBVIOUS
<1> DEFINE b == a + d
           p == a \div Ring
           q == b \div Ring
<1>1. /\ p \in Int /\ a = (Ring * p) + (a % Ring) /\ a % Ring \in 0 .. Ring - 1
      /\ q \in Int /\ b = (Ring * q) + (b % Ring)
  BY DivMod, Sizes
<1> HIDE DEF p, q
<1>2. d = Ring * (q - p)
  BY <1>1, Sizes
<1>3. q - p >= 1
  BY <1>1, <1>2, Sizes
<1>4. QED
  BY <1>1, <1>2, <1>3, MultipleIsLarge, Sizes

LEMMA NextSlot ==
    ASSUME NEW a \in Int, daddr = a % Ring
    PROVE  next_daddr = (a + 1) % Ring
<1>1. ((a % Ring) + 1) % Ring = (a + 1) % Ring /\ a % Ring \in 0 .. Ring - 1
  <2>1. Ring \in Nat \ {0} /\ 1 \in Int
    BY Sizes
  <2>2. ((a % Ring) + 1) % Ring = (a + 1) % Ring
    BY <2>1, ModThenAdd
  <2>3. QED
    BY <2>1, <2>2, DivMod
<1> DEFINE r == a % Ring
<1> HIDE DEF r
<1>2. (r + 1) % Ring = IF r + 1 >= Ring THEN 0 ELSE r + 1
  BY <1>1, Sizes DEF r
<1>3. QED
  BY <1>1, <1>2 DEF r, next_daddr

LEMMA CounterOps ==
    ASSUME NEW a \in Counter, NEW b \in Counter
    PROVE  /\ Minus(a, b) = IF a >= b THEN a - b ELSE a - b + Wrap
           /\ Plus(a, b) = IF a + b < Wrap THEN a + b ELSE a + b - Wrap
           /\ Minus(a, b) \in Counter /\ Plus(a, b) \in Counter
BY Sizes DEF Counter, Minus, Plus

\* The signed difference is the number in the half-open range of that width which
\* is congruent to the difference.
LEMMA DiffRange ==
    ASSUME NEW a \in Counter, NEW b \in Counter
    PROVE  /\ Diff(a, b) \in Int /\ -Wrap <= 2 * Diff(a, b) /\ 2 * Diff(a, b) < Wrap
           /\ a - b - Diff(a, b) \in {-Wrap, 0, Wrap}
<1> DEFINE m == Minus(a, b)
<1>1. m = (IF a >= b THEN a - b ELSE a - b + Wrap) /\ m \in Counter
  BY CounterOps
<1> HIDE DEF m
<1>2. QED
  BY <1>1, Sizes DEF Counter, Diff, m

LEMMA DiffUnique ==
    ASSUME NEW a \in Counter, NEW b \in Counter, NEW d \in Int, -Wrap <= 2 * d, 2 * d < Wrap,
           a - b - d \in {-2 * Wrap, -Wrap, 0, Wrap, 2 * Wrap}
    PROVE  Diff(a, b) = d
<1> DEFINE e == Diff(a, b)
<1>1. e \in Int /\ -Wrap <= 2 * e /\ 2 * e < Wrap /\ a - b - e \in {-Wrap, 0, Wrap}
  BY DiffRange
<1> HIDE DEF e
<1>2. e = d
  BY <1>1, Sizes DEF Counter
<1>3. QED
  BY <1>2 DEF e

\* Counting on either side moves the signed difference, as long as it fits.
LEMMA DiffMoves ==
    ASSUME NEW a \in Counter, NEW b \in Counter, NEW s \in 0 .. Clip
    PROVE  /\ 2 * (Diff(a, b) + s) < Wrap => Diff(Plus(a, s), b) = Diff(a, b) + s
           /\ -Wrap <= 2 * (Diff(a, b) - s) =>
                 Diff(a, Plus(b, s)) = Diff(a, b) - s /\ Diff(Minus(a, s), b) = Diff(a, b) - s
<1> DEFINE d == Diff(a, b)
           x == Plus(a, s)
           y == Plus(b, s)
           z == Minus(a, s)
<1>1. s \in Counter
  BY Sizes DEF Counter
<1>2. d \in Int /\ -Wrap <= 2 * d /\ 2 * d < Wrap /\ a - b - d \in {-Wrap, 0, Wrap}
  BY DiffRange
<1>3. /\ x \in Counter /\ x - a - s \in {-Wrap, 0}
      /\ y \in Counter /\ y - b - s \in {-Wrap, 0}
      /\ z \in Counter /\ z - a + s \in {0, Wrap}
  <2>1. /\ x = IF a + s < Wrap THEN a + s ELSE a + s - Wrap
        /\ y = IF b + s < Wrap THEN b + s ELSE b + s - Wrap
        /\ z = IF a >= s THEN a - s ELSE a - s + Wrap
        /\ x \in Counter /\ y \in Counter /\ z \in Counter
    BY <1>1, CounterOps
  <2> HIDE DEF x, y, z
  <2>2. QED
    BY <1>1, <2>1, Sizes DEF Counter
<1> HIDE DEF d, x, y, z
<1>4. ASSUME 2 * (d + s) < Wrap PROVE Diff(x, b) = d + s
  <2>1. x - b - (d + s) \in {-2 * Wrap, -Wrap, 0, Wrap, 2 * Wrap}
    BY <1>2, <1>3, Sizes DEF Counter
  <2>2. QED
    <3> DEFINE e == d + s
    <3>1. e \in Int /\ -Wrap <= 2 * e /\ 2 * e < Wrap
      BY <1>2, <1>4, Sizes
    <3> HIDE DEF e
    <3>2. x - b - e \in {-2 * Wrap, -Wrap, 0, Wrap, 2 * Wrap} => Diff(x, b) = e
      BY <1>3, <3>1, DiffUnique
    <3>3. QED
      BY <2>1, <3>2 DEF e
<1>5. ASSUME -Wrap <= 2 * (d - s) PROVE Diff(a, y) = d - s /\ Diff(z, b) = d - s
  <2>1. /\ a - y - (d - s) \in {-2 * Wrap, -Wrap, 0, Wrap, 2 * Wrap}
        /\ z - b - (d - s) \in {-2 * Wrap, -Wrap, 0, Wrap, 2 * Wrap}
    BY <1>2, <1>3, Sizes DEF Counter
  <2> DEFINE e == d - s
  <2>2. e \in Int /\ -Wrap <= 2 * e /\ 2 * e < Wrap
    BY <1>2, <1>5, Sizes
  <2> HIDE DEF e
  <2>3. /\ a - y - e \in {-2 * Wrap, -Wrap, 0, Wrap, 2 * Wrap} => Diff(a, y) = e
        /\ z - b - e \in {-2 * Wrap, -Wrap, 0, Wrap, 2 * Wrap} => Diff(z, b) = e
    BY <1>3, <2>2, DiffUnique
  <2>4. QED
    BY <2>1, <2>3 DEF e
<1>6. QED
  BY <1>4, <1>5 DEF d, x, y, z
-----------------------------------------------------------------------------
(* Type correctness.                                                       *)

LEMMA StepBytes ==
    ASSUME TypeOK
    PROVE  step_bytes \in MinStep .. Clip
<1>1. Minus(bytes_written, iter_start_bw) \in Counter
  BY CounterOps DEF TypeOK
<1>2. QED
  BY <1>1, Sizes DEF step_bytes, Counter

LEMMA ClipCounter == Clip \in Counter /\ 0 \in Counter /\ 0 \in Slot /\ 0 % Ring = 0
BY Sizes DEF Counter, Slot

LEMMA SnapType == TypeOK => snap_start \in Counter
BY ClipCounter, CounterOps DEF TypeOK, snap_start

LEMMA InitType == Init => TypeOK
<1> SUFFICES ASSUME Init PROVE TypeOK
  OBVIOUS
<1>1. j \in 0 .. Clip /\ arrived \in Nat
  BY Sizes DEF Init
<1>2. audio_ring \in [Slot -> Counter \cup {None}] /\ window \in [0 .. Clip - 1 -> Counter \cup {None}]
  BY DEF Init
<1>3. QED
  BY <1>1, <1>2, ClipCounter DEF Init, TypeOK

LEMMA StepType == TypeOK /\ CopyInTime /\ [Next]_vars => TypeOK'
<1> SUFFICES ASSUME TypeOK, CopyInTime, [Next]_vars PROVE TypeOK'
  OBVIOUS
<1> USE DEF TypeOK, loop, capture
<1>1. CASE DmaBurst
  BY <1>1 DEF DmaBurst, Slot
<1>2. CASE kws_trap_handler
  <2>1. bytes_written + 1 \in Int /\ bytes_written \in Int
    BY DEF Counter
  <2>2. bytes_written' = (bytes_written + 1) % Wrap /\ daddr' = (bytes_written + 1) % Ring
    BY <1>2, <2>1, NextSlot DEF kws_trap_handler, Plus
  <2>3. bytes_written' \in Counter /\ daddr' = bytes_written' % Ring /\ daddr' \in Slot
    BY <2>1, <2>2, SlotOf
  <2>4. QED
    BY <1>2, <2>3 DEF kws_trap_handler
<1>3. CASE Wait \/ Wfi
  <2>1. arrived' \in Nat
    BY <1>3 DEF Wait, Wfi
  <2>2. QED
    BY <1>3, <2>1 DEF Wait, Wfi
<1>4. CASE IterStart
  BY <1>4 DEF IterStart
<1>5. CASE Guard
  BY <1>5, Sizes DEF Guard, StartCopy
<1>6. CASE ReportLoss
  BY <1>6 DEF ReportLoss
<1>7. CASE Resync
  BY <1>7, Sizes DEF Resync, StartCopy
<1>8. CASE Snapshot
  <2>1. snap_start \in Counter
    BY SnapType
  <2>2. (snap_start + j) % Ring \in Slot
    BY <2>1, SlotOf DEF Counter
  <2>3. j + 1 \in 0 .. Clip
    BY <1>8, Sizes DEF Snapshot, CopyInTime
  <2>4. audio_ring[(snap_start + j) % Ring] \in Counter \cup {None}
    BY <2>2
  <2>5. window' \in [0 .. Clip - 1 -> Counter \cup {None}]
    BY <1>8, <2>4 DEF Snapshot
  <2>6. QED
    BY <1>8, <2>3, <2>5 DEF Snapshot
<1>9. CASE Infer
  BY <1>9 DEF Infer
<1>10. CASE Step
  <2>1. step_bytes \in Counter
    BY StepBytes, Sizes DEF Counter
  <2>2. bytes_at_next_inference' \in Counter
    BY <1>10, <2>1, CounterOps DEF Step
  <2>3. QED
    BY <1>10, <2>2 DEF Step
<1>11. CASE UNCHANGED vars
  BY <1>11 DEF vars
<1>12. QED
  BY <1>1, <1>2, <1>3, <1>4, <1>5, <1>6, <1>7, <1>8, <1>9, <1>10, <1>11 DEF Next, Main

-----------------------------------------------------------------------------
(* The distance between the counters.                                      *)

LEMMA LagType ==
    ASSUME TypeOK
    PROVE  /\ Lag \in Int /\ Started \in Int
           /\ bytes_written = (bytes_at_next_inference + Lag) % Wrap
<1> DEFINE d == Diff(bytes_written, bytes_at_next_inference)
<1>1. bytes_written \in Counter /\ bytes_at_next_inference \in Counter
  BY DEF TypeOK
<1>2. d \in Int /\ bytes_written - bytes_at_next_inference - d \in {-Wrap, 0, Wrap}
  BY <1>1, DiffRange
<1> HIDE DEF d
<1>3. PICK m \in {-1, 0, 1} : bytes_at_next_inference + d = bytes_written + (Wrap * m)
  <2>1. PICK m \in {-1, 0, 1} : bytes_written - bytes_at_next_inference - d = -(Wrap * m)
    BY <1>2, Sizes
  <2>2. Wrap * m \in Int
    BY Sizes
  <2>3. bytes_at_next_inference + d = bytes_written + (Wrap * m)
    BY <1>1, <1>2, <2>1, <2>2, Sizes DEF Counter
  <2>4. QED
    BY <2>3
<1>4. (bytes_written + (Wrap * m)) % Wrap = bytes_written % Wrap
  <2>1. Wrap \in Nat \ {0} /\ bytes_written \in Int /\ m \in Int
    BY <1>1, Sizes DEF Counter
  <2>2. QED
    BY <2>1, AddMultiple
<1>5. bytes_written % Wrap = bytes_written
  BY <1>1, Sizes DEF Counter
<1>6. QED
  BY <1>2, <1>3, <1>4, <1>5, Sizes DEF Lag, Started, d

LEMMA LagMoves ==
    ASSUME TypeOK, LagBounded
    PROVE  /\ DmaBurst => Lag' = Lag /\ Started' = Started + 1
           /\ kws_trap_handler => Lag' = Lag + 1 /\ Started' = Started
           /\ Resync => Lag' = 0 /\ Started' = Started - Lag
           /\ Step => Lag' = Lag - step_bytes /\ Started' = Started - step_bytes
           /\ UNCHANGED <<bytes_written, bytes_at_next_inference, irq>> =>
                 Lag' = Lag /\ Started' = Started
<1>1. Lag \in Int
  BY LagType
<1>2. bytes_written \in Counter /\ bytes_at_next_inference \in Counter
  BY DEF TypeOK
<1>3. ASSUME DmaBurst PROVE Lag' = Lag /\ Started' = Started + 1
  <2>1. ~irq /\ irq' /\ Lag' = Lag
    BY <1>3 DEF DmaBurst, Lag, Diff, Minus, loop
  <2>2. QED
    BY <1>1, <2>1, Sizes DEF Started
<1>4. ASSUME kws_trap_handler PROVE Lag' = Lag + 1 /\ Started' = Started
  <2>1. irq /\ ~irq' /\ bytes_written' = Plus(bytes_written, 1)
        /\ bytes_at_next_inference' = bytes_at_next_inference
    BY <1>4 DEF kws_trap_handler
  <2>2. 2 * (Lag + 1) < Wrap /\ 1 \in 0 .. Clip
    BY <1>1, <2>1, Sizes DEF LagBounded
  <2>3. Diff(Plus(bytes_written, 1), bytes_at_next_inference) = Lag + 1
    BY <1>2, <2>2, DiffMoves DEF Lag
  <2>4. Lag' = Lag + 1
    BY <2>1, <2>3 DEF Lag, Diff, Minus
  <2>5. QED
    BY <1>1, <2>1, <2>4, Sizes DEF Started
<1>5. ASSUME Resync PROVE Lag' = 0 /\ Started' = Started - Lag
  <2>1. bytes_at_next_inference' = bytes_written /\ UNCHANGED <<bytes_written, irq>>
    BY <1>5 DEF Resync, capture
  <2>2. bytes_written - bytes_written - 0 = 0 /\ 0 \in Int /\ -Wrap <= 2 * 0 /\ 2 * 0 < Wrap
    BY <1>2, Sizes DEF Counter
  <2>3. Diff(bytes_written, bytes_written) = 0
    BY <1>2, <2>2, DiffUnique
  <2>4. Lag' = 0
    BY <2>1, <2>3 DEF Lag, Diff, Minus
  <2>5. QED
    BY <1>1, <2>1, <2>4, Sizes DEF Started
<1>6. ASSUME Step PROVE Lag' = Lag - step_bytes /\ Started' = Started - step_bytes
  <2>1. /\ bytes_at_next_inference' = Plus(bytes_at_next_inference, step_bytes)
        /\ UNCHANGED <<bytes_written, irq>>
    BY <1>6 DEF Step, capture
  <2>2. step_bytes \in 0 .. Clip
    BY StepBytes, Sizes
  <2>3. -Wrap <= 2 * (Lag - step_bytes)
    BY <1>1, <1>6, <2>2, Sizes DEF LagBounded, Step
  <2>4. Diff(bytes_written, Plus(bytes_at_next_inference, step_bytes)) = Lag - step_bytes
    BY <1>2, <2>2, <2>3, DiffMoves DEF Lag
  <2>5. Lag' = Lag - step_bytes
    BY <2>1, <2>4 DEF Lag, Diff, Minus
  <2>6. QED
    BY <1>1, <2>1, <2>2, <2>5, Sizes DEF Started
<1>7. UNCHANGED <<bytes_written, bytes_at_next_inference, irq>> => Lag' = Lag /\ Started' = Started
  BY DEF Lag, Started, Diff, Minus
<1>8. QED
  BY <1>3, <1>4, <1>5, <1>6, <1>7
-----------------------------------------------------------------------------
(* The contents of the ring.                                               *)

\* The burst at position k of the window, and of a window further on.
LEMMA BurstAt ==
    ASSUME TypeOK, NEW k \in Int
    PROVE  Plus(snap_start, k) = (bytes_at_next_inference + (k - Clip)) % Wrap
<1> DEFINE a == bytes_at_next_inference - Clip
<1>1. a \in Int /\ Wrap \in Nat \ {0} /\ a + k = bytes_at_next_inference + (k - Clip)
  BY Sizes DEF TypeOK, Counter
<1>2. Plus(snap_start, k) = ((a % Wrap) + k) % Wrap
  BY DEF Plus, snap_start, Minus
<1> HIDE DEF a
<1>3. ((a % Wrap) + k) % Wrap = (a + k) % Wrap
  BY <1>1, ModThenAdd
<1>4. QED
  BY <1>1, <1>2, <1>3

LEMMA WindowShift ==
    ASSUME TypeOK, TypeOK', NEW s \in Int, NEW k \in Int,
           bytes_at_next_inference' = (bytes_at_next_inference + s) % Wrap
    PROVE  Plus(snap_start', k) = Plus(snap_start, k + s)
<1> DEFINE a == bytes_at_next_inference + s
           d == k - Clip
<1>1. a \in Int /\ d \in Int /\ k + s \in Int /\ Wrap \in Nat \ {0}
      /\ a + d = bytes_at_next_inference + ((k + s) - Clip)
  BY Sizes DEF TypeOK, Counter
<1>2. Plus(snap_start, k)' = (bytes_at_next_inference' + (k - Clip)) % Wrap
  <2>1. (TypeOK => Plus(snap_start, k) = (bytes_at_next_inference + (k - Clip)) % Wrap)'
    BY BurstAt, PTL
  <2>2. QED
    BY <2>1
<1>3. Plus(snap_start', k) = ((a % Wrap) + d) % Wrap
  BY <1>2 DEF Plus
<1>4. Plus(snap_start, k + s) = (a + d) % Wrap
  BY <1>1, BurstAt
<1> HIDE DEF a, d
<1>5. QED
  BY <1>1, <1>3, <1>4, ModThenAdd

LEMMA SlotAt ==
    ASSUME TypeOK, NEW k \in Int
    PROVE  Plus(snap_start, k) % Ring = (snap_start + k) % Ring /\ Plus(snap_start, k) \in Counter
           /\ Plus(snap_start, k) % Ring \in Slot
<1>1. snap_start + k \in Int
  BY SnapType DEF Counter
<1>2. QED
  BY <1>1, SlotOf DEF Plus

\* The burst the DMA writes next is the first the window does not count yet.
LEMMA NextBurst ==
    ASSUME TypeOK, ~irq
    PROVE  bytes_written = Plus(snap_start, Started)
<1>1. Started - Clip = Lag /\ Started \in Int
  BY LagType, Sizes DEF Started
<1>2. QED
  BY <1>1, LagType, BurstAt

LEMMA AdvanceKeepsRing ==
    ASSUME TypeOK, TypeOK', RingHolds, NEW s \in Nat, Started' = Started - s,
           bytes_at_next_inference' = (bytes_at_next_inference + s) % Wrap, UNCHANGED audio_ring
    PROVE  RingHolds'
<1>1. Started \in Int
  BY LagType
<1>2. SUFFICES ASSUME NEW k \in 0 .. Started' - 1, Started' - k <= Ring
               PROVE  audio_ring'[Plus(snap_start', k) % Ring] = Plus(snap_start', k)
  BY DEF RingHolds, Plus
<1>3. k + s \in 0 .. Started - 1 /\ Started - (k + s) <= Ring /\ k \in Int
  BY <1>1, <1>2
<1>4. Plus(snap_start', k) = Plus(snap_start, k + s)
  BY <1>3, WindowShift
<1>5. QED
  BY <1>3, <1>4 DEF RingHolds

LEMMA BurstKeepsRing ==
    ASSUME TypeOK, LagBounded, RingHolds, DmaBurst
    PROVE  RingHolds'
<1>1. /\ Started \in Int /\ Started' = Started + 1
      /\ ~irq /\ audio_ring' = [audio_ring EXCEPT ![daddr] = bytes_written]
      /\ UNCHANGED <<bytes_written, bytes_at_next_inference, snap_start>>
  BY LagType, LagMoves DEF DmaBurst, loop, snap_start, Minus
<1>2. SUFFICES ASSUME NEW k \in 0 .. Started, Started + 1 - k <= Ring
               PROVE  audio_ring'[Plus(snap_start, k) % Ring] = Plus(snap_start, k)
  BY <1>1 DEF RingHolds, Plus
<1>3. daddr = (snap_start + Started) % Ring /\ daddr \in Slot
  BY <1>1, NextBurst, SlotAt DEF TypeOK
<1>4. CASE k = Started
  BY <1>1, <1>3, <1>4, NextBurst DEF TypeOK
<1>5. CASE k < Started
  <2> DEFINE d == Started - k
             a == snap_start + k
  <2>1. d \in 1 .. Ring - 1 /\ a \in Int /\ a + d = snap_start + Started
    BY <1>1, <1>2, <1>5, SnapType, Sizes DEF Counter
  <2> HIDE DEF d, a
  <2>2. (a + d) % Ring # a % Ring
    BY <2>1, SlotsDiffer
  <2>3. Plus(snap_start, k) % Ring = a % Ring /\ Plus(snap_start, k) % Ring \in Slot
    BY <1>2, SlotAt DEF a
  <2>4. audio_ring'[Plus(snap_start, k) % Ring] = audio_ring[Plus(snap_start, k) % Ring]
    BY <1>1, <1>3, <2>1, <2>2, <2>3 DEF TypeOK
  <2>5. k \in 0 .. Started - 1 /\ Started - k <= Ring
    BY <1>1, <1>2, <1>5, Sizes
  <2>6. QED
    BY <2>4, <2>5 DEF RingHolds
<1>6. QED
  BY <1>1, <1>2, <1>4, <1>5

LEMMA StepKeepsRing ==
    ASSUME TypeOK, TypeOK', LagBounded, RingHolds, [Next]_vars
    PROVE  RingHolds'
<1>1. CASE DmaBurst
  BY <1>1, BurstKeepsRing
<1>2. CASE kws_trap_handler
  <2>1. Started' = Started /\ UNCHANGED <<audio_ring, snap_start>>
    BY <1>2, LagMoves DEF kws_trap_handler, snap_start, Minus
  <2>2. QED
    BY <2>1 DEF RingHolds, Plus
<1>3. CASE Step
  <2>1. /\ step_bytes \in Nat /\ Started' = Started - step_bytes /\ UNCHANGED audio_ring
        /\ bytes_at_next_inference' = (bytes_at_next_inference + step_bytes) % Wrap
    BY <1>3, LagMoves, StepBytes, Sizes DEF Step, capture, Plus
  <2>2. QED
    BY <2>1, AdvanceKeepsRing
<1>4. CASE Resync
  <2>1. Lag \in Nat
    BY <1>4, LagType, Sizes DEF Resync, LagBounded
  <2>2. /\ Started' = Started - Lag /\ UNCHANGED audio_ring
        /\ bytes_at_next_inference' = (bytes_at_next_inference + Lag) % Wrap
    BY <1>4, LagMoves, LagType DEF Resync, capture
  <2>3. QED
    BY <2>1, <2>2, AdvanceKeepsRing
<1>5. ASSUME UNCHANGED <<capture, bytes_at_next_inference>> PROVE RingHolds'
  <2>1. Started' = Started /\ UNCHANGED <<audio_ring, snap_start>>
    BY <1>5, LagMoves DEF capture, snap_start, Minus
  <2>2. QED
    BY <2>1 DEF RingHolds, Plus
<1>6. QED
  BY <1>1, <1>2, <1>3, <1>4, <1>5
     DEF Next, Main, Wait, Wfi, IterStart, Guard, ReportLoss, Snapshot, Infer, vars, loop
-----------------------------------------------------------------------------
(* The bounds, and the window relative to the one before.                  *)

\* The actions of the main loop that only move on.
MoveOn == IterStart \/ ReportLoss \/ Snapshot \/ Infer

LEMMA StepKeepsLag ==
    ASSUME TypeOK, LagBounded, [Next]_vars
    PROVE  LagBounded'
<1>1. Lag \in Int
  BY LagType
<1>2. CASE DmaBurst
  BY <1>1, <1>2, LagMoves DEF DmaBurst, LagBounded, Lag, loop
<1>3. CASE kws_trap_handler
  <2>1. irq /\ ~irq' /\ Lag' = Lag + 1 /\ pc' = IF pc = "WFI" THEN "WAIT" ELSE pc
    BY <1>3, LagMoves DEF kws_trap_handler
  <2>2. -Clip <= Lag' /\ (Lag' <= MaxLag \/ Lag' <= 1)
    BY <1>1, <2>1, Sizes DEF LagBounded
  <2>3. /\ pc' \notin {"WAIT", "SLEEP", "WFI"} => Lag' >= 0
        /\ pc' \in {"LOSS", "RESYNC"} => Lag' > Clip
    BY <1>1, <2>1, Sizes DEF LagBounded
  <2>4. QED
    BY <2>1, <2>2, <2>3 DEF LagBounded
<1>4. CASE Wait \/ Wfi
  <2>1. /\ Lag' = Lag /\ UNCHANGED irq
        /\ pc \in {"WAIT", "SLEEP"} /\ pc' \in {"WAIT", "SLEEP", "WFI", "START"}
        /\ pc' = "START" => Lag >= 0
    BY <1>1, <1>4, LagMoves DEF Wait, Wfi, Behind, Lag, capture
  <2>2. QED
    BY <1>1, <2>1 DEF LagBounded
<1>5. CASE Guard
  <2>1. Lag' = Lag /\ UNCHANGED irq
    BY <1>5, LagMoves DEF Guard, capture
  <2>2. pc = "GUARD" /\ pc' \in {"LOSS", "COPY"} /\ (pc' = "LOSS" => Lag > Clip)
    BY <1>5 DEF Guard, Overrun, StartCopy, Lag
  <2>3. QED
    BY <1>1, <2>1, <2>2 DEF LagBounded
<1>6. CASE Resync
  BY <1>6, LagMoves, Sizes DEF Resync, StartCopy, LagBounded
<1>7. CASE Step
  <2>1. /\ Lag' = Lag - step_bytes /\ step_bytes \in 0 .. Clip /\ Lag >= 0
        /\ pc' = "WAIT" /\ UNCHANGED irq
    BY <1>7, LagMoves, StepBytes, Sizes DEF Step, LagBounded, capture
  <2>2. QED
    BY <1>1, <2>1, Sizes DEF LagBounded
<1>8. ASSUME MoveOn \/ UNCHANGED vars PROVE LagBounded'
  <2>1. Lag' = Lag /\ UNCHANGED irq
    BY <1>8, LagMoves DEF MoveOn, IterStart, ReportLoss, Snapshot, Infer, capture, vars, loop
  <2>2. \/ pc' = pc
        \/ pc \notin {"WAIT", "SLEEP", "WFI"} /\ pc' \notin {"LOSS", "RESYNC"}
        \/ pc = "LOSS"
    BY <1>8 DEF MoveOn, IterStart, ReportLoss, Snapshot, Infer, vars, loop
  <2>3. QED
    BY <1>1, <2>1, <2>2 DEF LagBounded
<1>9. QED
  BY <1>2, <1>3, <1>4, <1>5, <1>6, <1>7, <1>8 DEF Next, Main, MoveOn

LEMMA StepKeepsTime ==
    ASSUME TypeOK, LagBounded, CopyInTime, [Next]_vars
    PROVE  CopyInTime'
<1>1. Lag \in Int /\ Started \in Int
  BY LagType
<1>2. CASE DmaBurst
  <2>1. Started' = Started + 1 /\ UNCHANGED <<pc, j>> /\ arrived \in Nat
    BY <1>2, LagMoves DEF DmaBurst, loop, TypeOK
  <2>2. pc = "COPY" => arrived' = arrived + 1 /\ arrived < CopyBursts
    BY <1>2 DEF DmaBurst
  <2>3. QED
    BY <1>1, <2>1, <2>2, Sizes DEF CopyInTime
<1>3. CASE kws_trap_handler
  BY <1>1, <1>3, LagMoves DEF kws_trap_handler, CopyInTime
<1>4. CASE Guard
  <2>1. Started' = Started /\ pc' \in {"LOSS", "COPY"}
    BY <1>4, LagMoves DEF Guard, StartCopy, capture
  <2>2. pc' = "COPY" => Lag <= Clip /\ j' = 0 /\ arrived' = 0
    BY <1>1, <1>4, Sizes DEF Guard, Overrun, StartCopy, Lag
  <2>3. Lag <= Clip => Started <= 2 * Clip + 1
    BY <1>1, Sizes DEF Started
  <2>4. QED
    BY <1>1, <2>1, <2>2, <2>3, Sizes DEF CopyInTime
<1>5. CASE Resync
  <2>1. Started' = Started - Lag /\ pc' = "COPY" /\ j' = 0 /\ arrived' = 0
    BY <1>5, LagMoves DEF Resync, StartCopy
  <2>2. Started - Lag <= 2 * Clip + 1
    BY <1>1, Sizes DEF Started
  <2>3. QED
    BY <1>1, <2>1, <2>2, Sizes DEF CopyInTime
<1>6. CASE Snapshot
  <2>1. /\ Started' = Started /\ arrived' = arrived /\ pc = "COPY" /\ j' = j + 1
        /\ pc' = IF j + 1 = Clip THEN "INFER" ELSE "COPY"
    BY <1>6, LagMoves DEF Snapshot, capture
  <2>2. QED
    BY <2>1, Sizes DEF CopyInTime, TypeOK
<1>7. ASSUME \/ Wait \/ Wfi \/ IterStart \/ ReportLoss \/ Infer \/ Step
      PROVE  CopyInTime'
  BY <1>7 DEF Wait, Wfi, IterStart, ReportLoss, Infer, Step, CopyInTime
<1>8. CASE UNCHANGED vars
  <2>1. Started' = Started /\ UNCHANGED <<pc, j, arrived>>
    BY <1>8, LagMoves DEF vars, loop, capture
  <2>2. QED
    BY <2>1 DEF CopyInTime
<1>9. QED
  BY <1>2, <1>3, <1>4, <1>5, <1>6, <1>7, <1>8 DEF Next, Main

LEMMA StepKeepsSleep ==
    ASSUME TypeOK, LagBounded, SleepInTime, [Next]_vars
    PROVE  SleepInTime'
<1>1. Lag \in Int /\ Started \in Int /\ arrived \in Nat
  BY LagType DEF TypeOK
<1>2. CASE DmaBurst
  <2>1. Started' = Started + 1 /\ Lag' = Lag /\ UNCHANGED pc
    BY <1>2, LagMoves DEF DmaBurst, loop
  <2>2. pc = "SLEEP" => arrived = 0 /\ arrived' = 1
    BY <1>2 DEF DmaBurst
  <2>3. QED
    BY <1>1, <2>1, <2>2, Sizes DEF SleepInTime
<1>3. CASE kws_trap_handler
  <2>1. Started' = Started /\ UNCHANGED arrived /\ pc' # "WFI" /\ (pc' = "SLEEP" => pc = "SLEEP")
    BY <1>3, LagMoves DEF kws_trap_handler
  <2>2. QED
    BY <2>1 DEF SleepInTime
<1>4. CASE Wait
  <2>1. Started' = Started /\ pc' # "WFI"
    BY <1>4, LagMoves DEF Wait, capture
  <2>2. pc' = "SLEEP" => Lag < 0 /\ arrived' = IF irq THEN 1 ELSE 0
    BY <1>4 DEF Wait, Behind, Lag
  <2>3. pc' = "SLEEP" => Started < Clip + arrived'
    BY <1>1, <2>2, Sizes DEF Started
  <2>4. QED
    BY <2>1, <2>2, <2>3 DEF SleepInTime
<1>5. CASE Wfi
  <2>1. Lag' = Lag /\ pc = "SLEEP" /\ pc' # "SLEEP" /\ (pc' = "WFI" => ~irq)
    BY <1>5, LagMoves DEF Wfi, capture
  <2>2. ~irq => Lag <= 0
    BY <1>1, <2>1, Sizes DEF SleepInTime, Started
  <2>3. QED
    BY <2>1, <2>2 DEF SleepInTime
<1>6. ASSUME \/ IterStart \/ Guard \/ ReportLoss \/ Resync \/ Snapshot \/ Infer \/ Step
      PROVE  SleepInTime'
  BY <1>6 DEF IterStart, Guard, StartCopy, ReportLoss, Resync, Snapshot, Infer, Step, SleepInTime
<1>7. CASE UNCHANGED vars
  <2>1. Lag' = Lag /\ Started' = Started /\ UNCHANGED <<pc, arrived>>
    BY <1>7, LagMoves DEF vars, loop, capture
  <2>2. QED
    BY <2>1 DEF SleepInTime
<1>8. QED
  BY <1>2, <1>3, <1>4, <1>5, <1>6, <1>7 DEF Next, Main

\* The differences to the end of the window before.
LEMMA AfterLast ==
    ASSUME TypeOK, last_end # None
    PROVE  /\ Diff(bytes_at_next_inference, last_end) \in Int
           /\ Diff(bytes_at_next_inference, last_end) \in 1 .. Clip =>
                 Diff(snap_start, last_end) <= 0
<1>1. bytes_at_next_inference \in Counter /\ last_end \in Counter /\ Clip \in 0 .. Clip
  BY Sizes DEF TypeOK
<1> DEFINE d == Diff(bytes_at_next_inference, last_end)
<1>2. d \in Int
  BY <1>1, DiffRange
<1>3. -Wrap <= 2 * (d - Clip) => Diff(snap_start, last_end) = d - Clip
  BY <1>1, DiffMoves DEF snap_start
<1> HIDE DEF d
<1>4. d \in 1 .. Clip => Diff(snap_start, last_end) <= 0
  BY <1>2, <1>3, Sizes
<1>5. QED
  BY <1>2, <1>4 DEF d

\* The step forward ends the new window a step after the last one.
LEMMA StepForward ==
    ASSUME TypeOK, WindowFollows, Step
    PROVE  Diff(bytes_at_next_inference, last_end)' \in 1 .. Clip
<1>1. /\ bytes_at_next_inference' = Plus(bytes_at_next_inference, step_bytes)
      /\ last_end' = bytes_at_next_inference
      /\ step_bytes \in 1 .. Clip /\ step_bytes \in 0 .. Clip
      /\ bytes_at_next_inference \in Counter
  BY StepBytes, Sizes DEF Step, WindowFollows, TypeOK
<1>2. Diff(bytes_at_next_inference, bytes_at_next_inference) = 0
  <2>1. 0 \in Int /\ -Wrap <= 2 * 0 /\ 2 * 0 < Wrap
        /\ bytes_at_next_inference - bytes_at_next_inference - 0 = 0
    BY <1>1, Sizes DEF Counter
  <2>2. QED
    BY <1>1, <2>1, DiffUnique
<1>3. 2 * (0 + step_bytes) < Wrap /\ 0 + step_bytes = step_bytes
  BY <1>1, Sizes
<1>4. Diff(Plus(bytes_at_next_inference, step_bytes), bytes_at_next_inference) = step_bytes
  BY <1>1, <1>2, <1>3, DiffMoves
<1>5. QED
  BY <1>1, <1>4 DEF Diff, Minus

\* The resynchronised window ends where the capture is, which is further on.
LEMMA ResyncForward ==
    ASSUME TypeOK, LagBounded, WindowFollows, Resync, last_end # None
    PROVE  Diff(bytes_at_next_inference, last_end)' > 0
<1> DEFINE d == Diff(bytes_at_next_inference, last_end)
           g == Diff(bytes_written, bytes_at_next_inference)
           e == d + g
<1>1. /\ bytes_at_next_inference' = bytes_written /\ UNCHANGED last_end
      /\ d \in 1 .. Clip /\ g > Clip /\ (g <= MaxLag \/ g <= 1)
      /\ bytes_written \in Counter /\ bytes_at_next_inference \in Counter /\ last_end \in Counter
  BY DEF Resync, WindowFollows, LagBounded, Lag, TypeOK
<1>2. /\ g \in Int /\ bytes_written - bytes_at_next_inference - g \in {-Wrap, 0, Wrap}
      /\ d \in Int /\ bytes_at_next_inference - last_end - d \in {-Wrap, 0, Wrap}
  BY <1>1, DiffRange
<1> HIDE DEF d, g
<1>3. /\ e \in Int /\ e > 0 /\ -Wrap <= 2 * e /\ 2 * e < Wrap
      /\ bytes_written - last_end - e \in {-2 * Wrap, -Wrap, 0, Wrap, 2 * Wrap}
  BY <1>1, <1>2, Sizes DEF Counter
<1> HIDE DEF e
<1>4. Diff(bytes_written, last_end) = e
  BY <1>1, <1>3, DiffUnique
<1>5. QED
  BY <1>1, <1>3, <1>4 DEF Diff, Minus

LEMMA StepKeepsWindow ==
    ASSUME TypeOK, LagBounded, WindowFollows, [Next]_vars
    PROVE  WindowFollows'
<1>1. CASE Step
  BY <1>1, StepForward DEF Step, WindowFollows
<1>2. CASE Resync
  BY <1>2, ResyncForward DEF Resync, StartCopy, WindowFollows
<1>3. CASE Guard
  <2>1. /\ pc = "GUARD" /\ pc' \in {"LOSS", "COPY"}
        /\ UNCHANGED <<bytes_at_next_inference, last_end, snap_start>>
    BY <1>3 DEF Guard, StartCopy, snap_start, Minus
  <2>2. last_end # None =>
           /\ Diff(bytes_at_next_inference, last_end) \in 1 .. Clip
           /\ Diff(bytes_at_next_inference, last_end) > 0
           /\ ~(Diff(snap_start, last_end) > 0)
    <3>1. last_end # None => Diff(bytes_at_next_inference, last_end) \in 1 .. Clip
      BY <2>1 DEF WindowFollows
    <3>2. last_end # None => Diff(snap_start, last_end) \in Int
      BY SnapType, DiffRange DEF TypeOK
    <3>3. QED
      BY <3>1, <3>2, AfterLast, Sizes
  <2>3. QED
    BY <2>1, <2>2 DEF WindowFollows, Diff, Minus
<1>4. ASSUME \/ DmaBurst \/ kws_trap_handler \/ Wait \/ Wfi \/ IterStart \/ ReportLoss \/ Snapshot
             \/ UNCHANGED vars
      PROVE  WindowFollows'
  <2>1. UNCHANGED <<bytes_at_next_inference, last_end, snap_start>>
    BY <1>4 DEF DmaBurst, kws_trap_handler, Wait, Wfi, IterStart, ReportLoss, Snapshot, vars, loop,
                snap_start, Minus
  <2>2. /\ pc' = "RESYNC" => reported'
        /\ pc' = "STEP" => pc = "STEP"
        /\ pc' \in {"COPY", "INFER"} => pc \in {"COPY", "INFER"} /\ reported' = reported
        /\ pc' \notin {"COPY", "INFER"} => pc \notin {"COPY", "INFER"}
        /\ pc' # "STEP" => pc # "STEP"
    BY <1>4 DEF DmaBurst, kws_trap_handler, Wait, Wfi, IterStart, ReportLoss, Snapshot, vars, loop,
                WindowFollows
  <2>3. pc \in {"WAIT", "SLEEP", "WFI", "START", "GUARD", "LOSS", "RESYNC", "COPY", "INFER", "STEP"}
    BY DEF TypeOK
  <2>4. QED
    BY <2>1, <2>2, <2>3 DEF WindowFollows, Diff, Minus
<1>5. CASE Infer
  BY <1>5 DEF Infer, WindowFollows
<1>6. QED
  BY <1>1, <1>2, <1>3, <1>4, <1>5 DEF Next, Main
-----------------------------------------------------------------------------
(* The copy.                                                               *)

LEMMA StepKeepsCopied ==
    ASSUME Room, IndInv, Copied, [Next]_vars
    PROVE  Copied'
<1> USE DEF IndInv
<1>1. CASE Snapshot
  <2>1. /\ pc = "COPY" /\ j' = j + 1 /\ j \in 0 .. Clip - 1
        /\ window' = [window EXCEPT ![j] = audio_ring[(snap_start + j) % Ring]]
        /\ window \in [0 .. Clip - 1 -> Counter \cup {None}]
        /\ UNCHANGED snap_start
    BY <1>1, Sizes DEF Snapshot, CopyInTime, TypeOK, snap_start, Minus
  <2>2. Started \in Int /\ Started >= Clip /\ Started - j <= Ring
    <3>1. Started \in Int /\ Started >= Clip
      BY <2>1, LagType, Sizes DEF Started, LagBounded
    <3>2. Started <= 2 * Clip + 1 + CopyBursts
      BY <2>1, <3>1, Sizes DEF CopyInTime, TypeOK
    <3>3. QED
      BY <2>1, <3>1, <3>2, Sizes DEF Room
  <2>3. j \in 0 .. Started - 1 /\ j \in Int
    BY <2>1, <2>2, Sizes
  <2>4. audio_ring[Plus(snap_start, j) % Ring] = Plus(snap_start, j)
    BY <2>2, <2>3 DEF RingHolds
  <2>5. window'[j] = Plus(snap_start, j)
    BY <2>1, <2>3, <2>4, SlotAt
  <2>6. ASSUME NEW k \in 0 .. j' - 1 PROVE window'[k] = Plus(snap_start', k)
    <3>1. UNCHANGED snap_start /\ k \in 0 .. Clip - 1 /\ (k = j \/ k \in 0 .. j - 1)
      BY <2>1, <2>6, Sizes
    <3>2. CASE k = j
      BY <2>5, <3>1, <3>2
    <3>3. CASE k \in 0 .. j - 1
      <4>1. k # j /\ window[k] = Plus(snap_start, k)
        BY <2>1, <3>3 DEF Copied
      <4>2. window'[k] = window[k]
        BY <2>1, <3>1, <4>1
      <4>3. QED
        BY <3>1, <4>1, <4>2
    <3>4. QED
      BY <3>1, <3>2, <3>3
  <2>7. QED
    BY <2>6 DEF Copied, Plus
<1>2. CASE Guard \/ Resync
  BY <1>2 DEF Guard, Resync, StartCopy, Copied
<1>3. CASE Wait \/ Wfi \/ IterStart \/ ReportLoss \/ Infer \/ Step
  BY <1>3 DEF Wait, Wfi, IterStart, ReportLoss, Infer, Step, Copied
<1>4. ASSUME DmaBurst \/ kws_trap_handler \/ UNCHANGED vars PROVE Copied'
  <2>1. /\ UNCHANGED <<window, j, snap_start>>
        /\ pc' \in {"COPY", "INFER"} => pc \in {"COPY", "INFER"}
    BY <1>4 DEF DmaBurst, kws_trap_handler, vars, loop, snap_start, Minus
  <2>2. QED
    BY <2>1 DEF Copied, Plus
<1>5. QED
  BY <1>1, <1>2, <1>3, <1>4 DEF Next, Main

-----------------------------------------------------------------------------
(* The theorems.                                                           *)

LEMMA InitInv == Init => IndInv /\ Copied
<1> SUFFICES ASSUME Init PROVE IndInv /\ Copied
  OBVIOUS
<1>1. Lag = -Clip
  <2> DEFINE d == -Clip
  <2>1. /\ 0 - Clip - d = 0 /\ d \in Int /\ -Wrap <= 2 * d /\ 2 * d < Wrap
    BY Sizes
  <2> HIDE DEF d
  <2>2. Diff(0, Clip) = d
    BY <2>1, ClipCounter, DiffUnique
  <2>3. QED
    BY <2>2 DEF Init, Lag, d
<1>2. Started = 0
  BY <1>1, Sizes DEF Init, Started
<1>3. LagBounded /\ RingHolds
  BY <1>1, <1>2, Sizes DEF Init, LagBounded, RingHolds
<1>4. CopyInTime /\ SleepInTime /\ WindowFollows /\ Copied
  BY DEF Init, CopyInTime, SleepInTime, WindowFollows, Copied
<1>5. QED
  BY <1>3, <1>4, InitType DEF IndInv

LEMMA StepInv == IndInv /\ [Next]_vars => IndInv'
BY StepType, StepKeepsRing, StepKeepsLag, StepKeepsTime, StepKeepsSleep, StepKeepsWindow DEF IndInv

\* The inductive invariant holds in every reachable state.
THEOREM Invariant == Spec => []IndInv
<1>1. Init => IndInv
  BY InitInv
<1>2. QED
  BY <1>1, StepInv, PTL DEF Spec

\* Every variable keeps to its values; the DMA address is the counter's slot.
THEOREM TypeCorrect == Spec => []TypeOK
<1>1. IndInv => TypeOK
  BY DEF IndInv
<1>2. QED
  BY <1>1, Invariant, PTL

\* With room for two clips, the burst in flight and what arrives during the copy, the
\* window inference runs on is one clip of the recording without a gap or a tear.
THEOREM WindowsWhole == Room => (Spec => []WindowIsOneClip)
<1> SUFFICES ASSUME Room PROVE Spec => []WindowIsOneClip
  OBVIOUS
<1>1. Init => IndInv /\ Copied
  BY InitInv
<1>2. IndInv /\ Copied /\ [Next]_vars => (IndInv /\ Copied)'
  BY StepInv, StepKeepsCopied
<1>3. IndInv /\ Copied => WindowIsOneClip
  BY DEF IndInv, Copied, CopyInTime, WindowIsOneClip
<1>4. QED
  BY <1>1, <1>2, <1>3, PTL DEF Spec

\* A wake-up lost between the test and WFI costs one burst, for any sizes: the loop
\* sleeps with no more captured than the window it waits for.
THEOREM OneBurstLate == Spec => []LostWakeUpCostsOneBurst
<1>1. IndInv => LostWakeUpCostsOneBurst
  BY DEF IndInv, SleepInTime, LostWakeUpCostsOneBurst, Lag
<1>2. QED
  BY <1>1, Invariant, PTL

\* Even where the ring has no such room: windows only move forward, and audio left out between
\* two of them has been reported.
THEOREM GapsReported == Spec => []NoSilentGap
<1>1. IndInv => NoSilentGap
  BY DEF IndInv, WindowFollows, NoSilentGap
<1>2. QED
  BY <1>1, Invariant, PTL
=============================================================================
