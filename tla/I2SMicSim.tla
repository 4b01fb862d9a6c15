----------------------------- MODULE I2SMicSim ------------------------------
(***************************************************************************)
(* The benches' microphone, sim/i2s_mic_sim.cpp: step() is called once per *)
(* clock with the SoC's I2S clock and word select. The I2S receiver is     *)
(* external: it changes WS with the falling SCK and takes a bit at each    *)
(* falling SCK, the first of a left word at the one after WS fell          *)
(* (peris/xip/xip_sample_player.v:8-12). A bit is named by its word and    *)
(* its place in it.                                                        *)
(***************************************************************************)
EXTENDS Integers

CONSTANT AudioWords  \* the size of m_audio_data

ASSUME AudioAssumption == AudioWords \in Nat

VARIABLES m_current_word_idx, m_bit_idx, m_mic_last_sck, m_ws_delayed,
          m_current_word, m_sd_out,
          i2s_sck, i2s_ws,
          rx_slot,  \* receiver: the number of falls of WS
          rx_pos,   \* receiver: falling edges of SCK since WS changed
          rx_bit    \* receiver: the bit taken last

mic == <<m_current_word_idx, m_bit_idx, m_mic_last_sck, m_ws_delayed, m_current_word, m_sd_out>>
receiver == <<i2s_sck, i2s_ws, rx_slot, rx_pos, rx_bit>>

Default == 0  \* words of the file are 1 .. AudioWords
SlotBits == 32

MicTypeOK ==
    /\ m_current_word_idx \in 0 .. AudioWords /\ m_bit_idx \in 0 .. SlotBits - 1
    /\ m_mic_last_sck \in {0, 1} /\ m_ws_delayed \in {0, 1}
    /\ m_current_word \in 0 .. AudioWords

MicInit ==
    /\ m_current_word_idx = 0 /\ m_bit_idx = 0 /\ m_mic_last_sck = 1 /\ m_ws_delayed = 0
    /\ m_current_word = Default /\ m_sd_out = <<Default, 0>>
    /\ i2s_sck \in {0, 1} /\ i2s_ws \in {0, 1}
    /\ rx_slot = 0 /\ rx_pos = 0 /\ rx_bit = <<Default, 0>>

\* MUTANT: every change of WS fetches a word.
Fetches_BothSlots(ws) == TRUE

\* A left word starts.
Fetches(ws) == ws = 0

\* MUTANT: the bit index is counted down past the last bit.
NextBit_NoFloor == m_bit_idx - 1

\* A longer slot repeats the last bit.
NextBit == IF m_bit_idx > 0 THEN m_bit_idx - 1 ELSE 0

FetchWord(ws) ==
    IF ~Fetches(ws) THEN UNCHANGED <<m_current_word, m_current_word_idx>>
    ELSE IF m_current_word_idx < AudioWords
    THEN m_current_word_idx' = m_current_word_idx + 1 /\ m_current_word' = m_current_word_idx + 1
    ELSE m_current_word' = Default /\ UNCHANGED m_current_word_idx

\* I2SMicSim::step.
MicStep(sck, ws) ==
    /\ m_mic_last_sck' = sck
    /\ IF sck = 0 /\ m_mic_last_sck = 1
       THEN /\ IF ws # m_ws_delayed
               THEN FetchWord(ws) /\ m_bit_idx' = SlotBits - 1
               ELSE /\ m_bit_idx' = NextBit
                    /\ UNCHANGED <<m_current_word, m_current_word_idx>>
            /\ m_ws_delayed' = ws
            /\ m_sd_out' = <<m_current_word', m_bit_idx'>>
       ELSE UNCHANGED <<m_bit_idx, m_ws_delayed, m_current_word, m_current_word_idx, m_sd_out>>

\* Slots have 32 clocks, or one more. The run ends with the third word past the file.
ReceiverStep ==
    /\ i2s_sck' \in {0, 1}
    /\ IF i2s_sck = 1 /\ i2s_sck' = 0
       THEN /\ rx_bit' = m_sd_out
            /\ i2s_ws' \in (IF rx_pos < SlotBits THEN {i2s_ws}
                            ELSE IF rx_pos = SlotBits /\ i2s_ws = 0 THEN {0, 1} ELSE {1 - i2s_ws})
            /\ rx_pos' = IF i2s_ws' # i2s_ws THEN 0 ELSE rx_pos + 1
            /\ rx_slot' = IF i2s_ws = 1 /\ i2s_ws' = 0 /\ rx_slot < AudioWords + 3
                          THEN rx_slot + 1 ELSE rx_slot
       ELSE UNCHANGED <<i2s_ws, rx_slot, rx_pos, rx_bit>>

MicClock == ReceiverStep /\ MicStep(i2s_sck', i2s_ws')

-----------------------------------------------------------------------------
\* The n-th left word the receiver assembles is the n-th word of the file, bit 31
\* first, and the default once the file is used up: no word is skipped, repeated or
\* shifted. i2s_mic_sim.cpp:26-55.
MicSendsAudio ==
    i2s_ws = 0 /\ rx_slot \in 1 .. AudioWords + 2 /\ rx_pos \in 1 .. SlotBits =>
        rx_bit = <<IF rx_slot <= AudioWords THEN rx_slot ELSE Default, SlotBits - rx_pos>>
=============================================================================
