------------------------------ MODULE AudioRing ------------------------------
(***************************************************************************)
(* The audio capture of the keyword-spotting firmware                      *)
(* (test/common/kws_bare_main.c): the DMA controller writes the samples of *)
(* the microphone into audio_ring burst by burst, an interrupt handler     *)
(* counts the bursts, and the main loop copies sliding windows of one clip *)
(* out of the ring while the DMA goes on writing.                          *)
(*                                                                         *)
(* The unit of all sizes and counters is one DMA burst: clip, ring and     *)
(* minimum step are multiples of it (8000, 16384 and 160 bytes of 32).     *)
(* Counters are unsigned and wrap at Wrap (2^32 bytes). A burst is named   *)
(* by the value bytes_written has when it arrives. Every read of the       *)
(* volatile bytes_written is a step of its own.                            *)
(***************************************************************************)
EXTENDS Integers

CONSTANTS Clip,        \* RING_SAMPLES_PER_CLIP
          Ring,        \* KWS_RING_SAMPLES
          MinStep,     \* KWS_MIN_STEP_RING_BYTES
          Wrap,        \* the counters are taken modulo Wrap
          CopyBursts,  \* bursts that may start from the loss guard to the end of the copy
          MaxLag,      \* how far the DMA may run ahead of the next window
          None         \* a slot that was not written yet, no window yet

ASSUME SizeAssumption ==
    /\ Clip \in Nat \ {0} /\ Ring \in Nat /\ Ring > Clip
    /\ MinStep \in 1 .. Clip /\ CopyBursts \in Nat
ASSUME WrapAssumption ==
    /\ Wrap \in Nat /\ Wrap % (2 * Ring) = 0
    /\ MaxLag \in Nat /\ 2 * (MaxLag + Clip) < Wrap

Counter == 0 .. Wrap - 1
Slot == 0 .. Ring - 1

ASSUME NoneAssumption == None \notin Counter

VARIABLES
    audio_ring,
    daddr,           \* the slot the DMA controller writes next
    irq,             \* dmac_irq: a burst is in the ring and not yet counted
    bytes_written,
    pc,              \* where the main loop is
    bytes_at_next_inference,
    iter_start_bw,   \* bytes_written at the start of the iteration
    j,               \* the next slot of the window to copy
    window,          \* nnom_input_data
    arrived,         \* bursts that started since the loss guard, or the test, was passed
    last_end,        \* where the window before this one ended
    reported         \* AUDIO_LOSS was printed in this iteration

capture == <<audio_ring, daddr, irq, bytes_written>>
loop == <<pc, bytes_at_next_inference, iter_start_bw, j, window, last_end, reported>>
vars == <<capture, loop, arrived>>

Plus(a, b) == (a + b) % Wrap
Minus(a, b) == (a - b) % Wrap

\* (int32_t)(a - b)
Diff(a, b) == IF 2 * Minus(a, b) >= Wrap THEN Minus(a, b) - Wrap ELSE Minus(a, b)

-----------------------------------------------------------------------------
Init ==
    /\ audio_ring = [s \in Slot |-> None]
    /\ daddr = 0 /\ irq = FALSE /\ bytes_written = 0
    /\ pc = "WAIT" /\ bytes_at_next_inference = Clip /\ iter_start_bw = 0
    /\ j = 0 /\ window = [k \in 0 .. Clip - 1 |-> None]
    /\ arrived = 0 /\ last_end = None /\ reported = FALSE

\* A burst starts to overwrite its slot. The handler has served the burst before;
\* the copy takes less time than CopyBursts + 1 bursts, the instructions from the
\* test to WFI less than one, and the main loop is never further behind than MaxLag.
DmaBurst ==
    /\ ~irq
    /\ pc = "COPY" => arrived < CopyBursts
    /\ pc = "SLEEP" => arrived = 0
    /\ Diff(bytes_written, bytes_at_next_inference) < MaxLag
    /\ audio_ring' = [audio_ring EXCEPT ![daddr] = bytes_written]
    /\ irq' = TRUE
    /\ arrived' = IF pc \in {"COPY", "SLEEP"} THEN arrived + 1 ELSE 0
    /\ UNCHANGED <<daddr, bytes_written, loop>>

\* MUTANT: the address runs one burst past the end of the ring.
next_daddr_Late == IF daddr + 1 > Ring THEN 0 ELSE daddr + 1

next_daddr == IF daddr + 1 >= Ring THEN 0 ELSE daddr + 1

\* The handler counts the burst; the interrupt wakes a main loop that sleeps.
kws_trap_handler ==
    /\ irq /\ irq' = FALSE
    /\ daddr' = next_daddr
    /\ bytes_written' = Plus(bytes_written, 1)
    /\ pc' = IF pc = "WFI" THEN "WAIT" ELSE pc
    /\ UNCHANGED <<audio_ring, bytes_at_next_inference, iter_start_bw, j, window, arrived,
                   last_end, reported>>

\* MUTANT: the loop waits for the end of the window exactly.
Behind_Exact == bytes_written # bytes_at_next_inference

\* MUTANT: the loop waits for more than the window.
Behind_OffByOne == Diff(bytes_written, bytes_at_next_inference) <= 0

Behind == Diff(bytes_written, bytes_at_next_inference) < 0

\* The test. A burst that is being written counts against the way to WFI.
Wait ==
    /\ pc = "WAIT"
    /\ IF Behind THEN pc' = "SLEEP" /\ arrived' = (IF irq THEN 1 ELSE 0)
       ELSE pc' = "START" /\ UNCHANGED arrived
    /\ UNCHANGED <<capture, bytes_at_next_inference, iter_start_bw, j, window, last_end, reported>>

\* WFI does not sleep when an interrupt is pending, but one that was served after the
\* test no longer is.
Wfi ==
    /\ pc = "SLEEP" /\ pc' = IF irq THEN "WAIT" ELSE "WFI"
    /\ UNCHANGED <<capture, bytes_at_next_inference, iter_start_bw, j, window, arrived,
                   last_end, reported>>

IterStart ==
    /\ pc = "START" /\ pc' = "GUARD"
    /\ iter_start_bw' = bytes_written /\ reported' = FALSE
    /\ UNCHANGED <<capture, bytes_at_next_inference, j, window, arrived, last_end>>

\* MUTANT: the guard is missing.
Overrun_Never == FALSE

Overrun == Diff(bytes_written, bytes_at_next_inference) > Clip

StartCopy == pc' = "COPY" /\ j' = 0 /\ arrived' = 0

Guard ==
    /\ pc = "GUARD"
    /\ IF Overrun THEN pc' = "LOSS" /\ UNCHANGED <<j, arrived>> ELSE StartCopy
    /\ UNCHANGED <<capture, bytes_at_next_inference, iter_start_bw, window, last_end, reported>>

\* AUDIO_LOSS is printed, and the window moved to the end of what was captured.
ReportLoss ==
    /\ pc = "LOSS" /\ pc' = "RESYNC" /\ reported' = TRUE
    /\ UNCHANGED <<capture, bytes_at_next_inference, iter_start_bw, j, window, arrived, last_end>>

Resync ==
    /\ pc = "RESYNC" /\ StartCopy
    /\ bytes_at_next_inference' = bytes_written
    /\ UNCHANGED <<capture, iter_start_bw, window, last_end, reported>>

snap_start == Minus(bytes_at_next_inference, Clip)

Snapshot ==
    /\ pc = "COPY"
    /\ window' = [window EXCEPT ![j] = audio_ring[(snap_start + j) % Ring]]
    /\ j' = j + 1
    /\ pc' = IF j + 1 = Clip THEN "INFER" ELSE "COPY"
    /\ UNCHANGED <<capture, bytes_at_next_inference, iter_start_bw, arrived, last_end, reported>>

\* Inference, vote and output, while any number of bursts arrive.
Infer ==
    /\ pc = "INFER" /\ pc' = "STEP"
    /\ last_end' = bytes_at_next_inference
    /\ UNCHANGED <<capture, bytes_at_next_inference, iter_start_bw, j, window, arrived, reported>>

\* MUTANT: the step has no ceiling.
step_bytes_NoCeiling ==
    LET iter_bytes == Minus(bytes_written, iter_start_bw)
    IN IF iter_bytes < MinStep THEN MinStep ELSE iter_bytes

step_bytes ==
    LET iter_bytes == Minus(bytes_written, iter_start_bw)
    IN IF iter_bytes < MinStep THEN MinStep
       ELSE IF iter_bytes > Clip THEN Clip ELSE iter_bytes

Step ==
    /\ pc = "STEP" /\ pc' = "WAIT"
    /\ bytes_at_next_inference' = Plus(bytes_at_next_inference, step_bytes)
    /\ UNCHANGED <<capture, iter_start_bw, j, window, arrived, last_end, reported>>

Main == Wait \/ Wfi \/ IterStart \/ Guard \/ ReportLoss \/ Resync \/ Snapshot \/ Infer \/ Step

Next == DmaBurst \/ kws_trap_handler \/ Main

Spec == Init /\ [][Next]_vars

\* The microphone never stops, interrupts are enabled, and the main loop runs.
LiveSpec == Spec /\ WF_vars(DmaBurst) /\ WF_vars(kws_trap_handler) /\ WF_vars(Main)

-----------------------------------------------------------------------------
TypeOK ==
    /\ audio_ring \in [Slot -> Counter \cup {None}]
    /\ daddr \in Slot /\ irq \in BOOLEAN /\ bytes_written \in Counter
    /\ daddr = bytes_written % Ring
    /\ pc \in {"WAIT", "SLEEP", "WFI", "START", "GUARD", "LOSS", "RESYNC", "COPY", "INFER", "STEP"}
    /\ bytes_at_next_inference \in Counter /\ iter_start_bw \in Counter
    /\ j \in 0 .. Clip /\ window \in [0 .. Clip - 1 -> Counter \cup {None}]
    /\ arrived \in Nat /\ last_end \in Counter \cup {None} /\ reported \in BOOLEAN

\* The window inference runs on is one contiguous clip of the recording, in order
\* and without a sample of another time, although the DMA never stops writing the
\* ring it is copied from. kws_bare_main.c:349-372,681-713.
WindowIsOneClip ==
    pc = "INFER" => \A k \in 0 .. Clip - 1 : window[k] = Plus(snap_start, k)

\* Every window ends later than the one before it, and it leaves no audio out after
\* that one unless AUDIO_LOSS was printed. kws_bare_main.c:378-395,964-980.
NoSilentGap ==
    pc = "INFER" /\ last_end # None =>
        /\ Diff(bytes_at_next_inference, last_end) > 0
        /\ Diff(snap_start, last_end) > 0 => reported

\* The loop may test for the end of the window, have the last burst of it counted by
\* the handler, and sleep all the same. It then never sleeps with more captured than
\* the window: the next burst wakes it, one burst late. kws_bare_main.c:589,662-664.
LostWakeUpCostsOneBurst ==
    pc = "WFI" => Diff(bytes_written, bytes_at_next_inference) <= 0

\* Inference never stops, although wake-ups are lost between the test and WFI.
\* kws_bare_main.c:660-664.
InferenceRecurs == []<>(pc = "INFER")
=============================================================================
