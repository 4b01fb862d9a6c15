------------------------------ MODULE XipCache ------------------------------
(***************************************************************************)
(* The execute-in-place port: the direct-mapped read-only cache ro_dmc     *)
(* (peris/xip/ro_cache.v) with critical-word-first restart and a one-line  *)
(* prefetch buffer, the AHB wrapper with its fetch handshake               *)
(* (ahbl_flash_ctrl_eb_cache.v), and the QSPI controller (flash_ctrl_eb.v) *)
(* that fills a line word by word.                                         *)
(*                                                                         *)
(* One step is one clock cycle of all three, or a reset. The address phase *)
(* on the bus, and whether the bus holds HREADY low although this slave is *)
(* ready, are inputs of the step. Serial phases (command, address, mode,   *)
(* dummy and data ticks) take any number of cycles. The flash content of a *)
(* word is named by the line it belongs to.                                *)
(***************************************************************************)
EXTENDS Naturals

CONSTANTS Tag, Index,  \* an address is a tag, a cache line number and a word
          Words,       \* words per line (LW/32)
          None,        \* no address phase, no data phase, no hint
          Junk         \* content that is no word of the flash

ASSUME WordsAssumption == Words \in Nat \ {0}

Word == 0 .. Words - 1
Line == [tag : Tag, index : Index]
Addr == [line : Line, word : Word]
Content == [Word -> Line \cup {Junk}]

ASSUME NoneAssumption == None \notin Line /\ None \notin Addr
ASSUME JunkAssumption == Junk \notin Line

VARIABLES
    dphase,          \* wrapper: dphase_active and dphase_addr
    state,           \* ro_dmc: ST_IDLE or ST_FETCH
    miss_addr,       \* ro_dmc: the line being fetched
    m_start,         \* ro_dmc: start pulse to the wrapper
    fetch_is_pf,     \* ro_dmc: the fetch is a prefetch
    VALID, TAG, DATA,
    fwv,             \* ro_dmc: the words of this fetch that have landed
    m_word_done_d,   \* ro_dmc: word_done one cycle ago
    prefetch_en,     \* the accelerator's PREFETCH_CTRL bit
    prefetch_en_d,   \* ro_dmc: prefetch_en one cycle ago
    pf_pending,      \* ro_dmc: the hinted line, until its fetch is dispatched
    pf_line,         \* ro_dmc: the line in the prefetch buffer, if pf_valid
    pf_data,
    wrapper,         \* wrapper: state of the fetch handshake
    flash_start,     \* wrapper: start pulse to the flash controller
    m_done,          \* wrapper: done pulse to ro_dmc
    phase,           \* flash controller: IDLE, CMD (to DUMMY), DATA, DONE_WAIT
    landed,          \* flash controller: the number of words that have landed
    word_done,       \* flash controller: level bits, one per word
    data_reg,        \* flash controller: the line buffer
    done             \* flash controller: done level

cache == <<state, miss_addr, m_start, fetch_is_pf, VALID, TAG, DATA, fwv, m_word_done_d>>
prefetcher == <<prefetch_en, prefetch_en_d, pf_pending, pf_line, pf_data>>
handshake == <<wrapper, flash_start, m_done>>
flash == <<phase, landed, word_done, data_reg, done>>
vars == <<dphase, cache, prefetcher, handshake, flash>>

-----------------------------------------------------------------------------
(* Hit logic.                                                              *)

hit_full(a) == VALID[a.line.index] /\ TAG[a.line.index] = a.line.tag

hit_cwf(a) ==
    state = "FETCH" /\ ~fetch_is_pf /\ a.line = miss_addr /\ a.word \in fwv

hit_pf(a) == prefetch_en /\ pf_line = a.line

hit(a) == hit_full(a) \/ hit_cwf(a) \/ hit_pf(a)

cpu_data(a) == IF hit_pf(a) THEN pf_data[a.word] ELSE DATA[a.line.index][a.word]

HREADYOUT == dphase # None => hit(dphase)

\* The two ways a demand miss starts a fetch: a new address phase, and a data
\* phase whose address phase came while another fetch was running.
fresh_miss(req, hready) == req # None /\ hready /\ ~hit(req)
deferred_miss == dphase # None /\ ~hit(dphase)

-----------------------------------------------------------------------------
Init ==
    /\ dphase = None
    /\ state = "IDLE" /\ miss_addr \in Line /\ m_start = FALSE /\ fetch_is_pf = FALSE
    /\ VALID = [x \in Index |-> FALSE]
    /\ TAG \in [Index -> Tag]
    /\ DATA = [x \in Index |-> [w \in Word |-> Junk]]
    /\ fwv = {} /\ m_word_done_d = {}
    /\ prefetch_en = FALSE /\ prefetch_en_d = FALSE /\ pf_pending = None
    /\ pf_line = None /\ pf_data = [w \in Word |-> Junk]
    /\ wrapper = "IDLE" /\ flash_start = FALSE /\ m_done = FALSE
    /\ phase = "IDLE" /\ landed = 0 /\ word_done = {} /\ done = FALSE
    /\ data_reg = [w \in Word |-> Junk]

\* Wrapper: the data phase follows the address phase when HREADY is high.
DphaseStep(req, hready) == dphase' = IF hready THEN req ELSE dphase

\* ro_dmc in ST_IDLE: a demand miss first, a pending prefetch after that.
StartFetch(line, pf) ==
    /\ state' = "FETCH" /\ miss_addr' = line /\ m_start' = TRUE /\ fetch_is_pf' = pf
    /\ VALID' = IF pf THEN VALID ELSE [VALID EXCEPT ![line.index] = FALSE]
    /\ UNCHANGED <<TAG, DATA>>

\* MUTANT: no rescue of a data phase that missed during another fetch.
IdleStep_NoRescue(req, hready) ==
    IF fresh_miss(req, hready) THEN StartFetch(req.line, FALSE)
    ELSE IF pf_pending # None THEN StartFetch(pf_pending, TRUE)
    ELSE UNCHANGED <<state, miss_addr, m_start, fetch_is_pf, VALID, TAG, DATA>>

IdleStep(req, hready) ==
    IF fresh_miss(req, hready) THEN StartFetch(req.line, FALSE)
    ELSE IF deferred_miss THEN StartFetch(dphase.line, FALSE)
    ELSE IF pf_pending # None THEN StartFetch(pf_pending, TRUE)
    ELSE UNCHANGED <<state, miss_addr, m_start, fetch_is_pf, VALID, TAG, DATA>>

\* MUTANT: a prefetch is mirrored into the cache as well.
Mirrored_Prefetch == TRUE

\* The line buffer is mirrored into the cache throughout a demand fetch.
Mirrored == ~fetch_is_pf

\* MUTANT: the start is a level that lasts until the fetch is done.
m_start_fetch_Level == ~m_done

\* The start is a pulse of one cycle.
m_start_fetch == FALSE

FetchStep ==
    /\ m_start' = m_start_fetch
    /\ DATA' = IF Mirrored THEN [DATA EXCEPT ![miss_addr.index] = data_reg] ELSE DATA
    /\ state' = IF m_done THEN "IDLE" ELSE "FETCH"
    /\ IF m_done /\ ~fetch_is_pf
       THEN /\ TAG' = [TAG EXCEPT ![miss_addr.index] = miss_addr.tag]
            /\ VALID' = [VALID EXCEPT ![miss_addr.index] = TRUE]
       ELSE UNCHANGED <<TAG, VALID>>
    /\ UNCHANGED <<miss_addr, fetch_is_pf>>

\* MUTANT: the landed words are kept when a deferred miss starts a fetch.
fwv_nxt_FreshOnly(req, hready) ==
    IF state = "IDLE" /\ fresh_miss(req, hready) THEN {}
    ELSE IF state = "FETCH" THEN fwv \cup (word_done \ m_word_done_d)
    ELSE fwv

\* Rising edges of word_done, from the start of the fetch on.
fwv_nxt(req, hready) ==
    IF state = "IDLE" /\ (fresh_miss(req, hready) \/ deferred_miss) THEN {}
    ELSE IF state = "FETCH" THEN fwv \cup (word_done \ m_word_done_d)
    ELSE fwv

CacheStep(req, hready) ==
    /\ IF state = "IDLE" THEN IdleStep(req, hready) ELSE FetchStep
    /\ fwv' = fwv_nxt(req, hready)
    /\ m_word_done_d' = word_done

\* A rising edge of prefetch_en with a length arms a prefetch of the line at the
\* base, unless the length is 0; the dispatch disarms it. The buffer is filled at
\* the end of the fetch. Firmware writes enable, base and length at any time.
PrefetchStep(req, hready) ==
    /\ prefetch_en' \in BOOLEAN
    /\ prefetch_en_d' = prefetch_en
    /\ \/ prefetch_en /\ ~prefetch_en_d /\ pf_pending' \in Line
       \/ pf_pending' = IF state = "IDLE" /\ ~fresh_miss(req, hready) /\ ~deferred_miss
                        THEN None ELSE pf_pending
    /\ IF state = "FETCH" /\ m_done /\ fetch_is_pf
       THEN pf_line' = miss_addr /\ pf_data' = data_reg
       ELSE UNCHANGED <<pf_line, pf_data>>

\* Wrapper: ST_IDLE, ST_START_CMD, ST_WAIT_LOW, ST_WAIT_HIGH.
WrapperStep ==
    /\ flash_start' = (wrapper = "IDLE" /\ m_start)
    /\ m_done' = (wrapper = "WAIT_HIGH" /\ done)
    /\ wrapper' = CASE wrapper = "IDLE"      -> IF m_start THEN "START_CMD" ELSE "IDLE"
                    [] wrapper = "START_CMD" -> "WAIT_LOW"
                    [] wrapper = "WAIT_LOW"  -> IF done THEN "WAIT_LOW" ELSE "WAIT_HIGH"
                    [] wrapper = "WAIT_HIGH" -> IF done THEN "IDLE" ELSE "WAIT_HIGH"

\* Flash controller. Without a tick the serial phase goes on; while a word is
\* arriving its place in the line buffer may hold only some of its bytes.
FlashPhase(tick) ==
    phase' = CASE phase = "IDLE"      -> IF flash_start THEN "CMD" ELSE "IDLE"
               [] phase = "CMD"       -> IF tick THEN "DATA" ELSE "CMD"
               [] phase = "DATA"      -> IF tick /\ landed + 1 = Words THEN "DONE_WAIT" ELSE "DATA"
               [] phase = "DONE_WAIT" -> IF tick THEN "IDLE" ELSE "DONE_WAIT"

\* MUTANT: the position in the line is not reset when a fetch starts.
landed_start_Keep == landed

landed_start == 0

FlashData(tick) ==
    IF flash_start
    THEN landed' = landed_start /\ word_done' = {} /\ UNCHANGED data_reg
    ELSE IF phase = "DATA" /\ tick
    THEN /\ data_reg' = [data_reg EXCEPT ![landed] = miss_addr]
         /\ word_done' = word_done \cup {landed}
         /\ landed' = landed + 1
    ELSE /\ data_reg' \in IF phase = "DATA" THEN {data_reg, [data_reg EXCEPT ![landed] = Junk]}
                          ELSE {data_reg}
         /\ UNCHANGED <<landed, word_done>>

FlashStep(tick) ==
    /\ FlashPhase(tick)
    /\ FlashData(tick)
    /\ done' = IF flash_start THEN FALSE ELSE done \/ (phase = "DONE_WAIT" /\ tick)

Clock(tick) ==
    /\ WrapperStep
    /\ FlashStep(tick)
    /\ \E req \in Addr \cup {None}, hready \in {HREADYOUT, FALSE} :
          /\ DphaseStep(req, hready)
          /\ CacheStep(req, hready)
          /\ PrefetchStep(req, hready)

\* A reset of the processor's domain resets every register but VALID, TAG and DATA;
\* prefetch_en is a register of the accelerator, which only the SoC's reset clears.
Reset ==
    /\ dphase' = None
    /\ state' = "IDLE" /\ m_start' = FALSE /\ fetch_is_pf' = FALSE
    /\ fwv' = {} /\ m_word_done_d' = {}
    /\ prefetch_en' \in {prefetch_en, FALSE} /\ prefetch_en_d' = FALSE /\ pf_pending' = None
    /\ pf_line' = None /\ pf_data' = [w \in Word |-> Junk]
    /\ wrapper' = "IDLE" /\ flash_start' = FALSE /\ m_done' = FALSE
    /\ phase' = "IDLE" /\ landed' = 0 /\ word_done' = {} /\ done' = FALSE
    /\ data_reg' = [w \in Word |-> Junk]
    /\ UNCHANGED <<miss_addr, VALID, TAG, DATA>>

Next == (\E tick \in BOOLEAN : Clock(tick)) \/ Reset

Spec == Init /\ [][Next]_vars

\* The clock runs and every serial phase of the flash controller ends.
LiveSpec == Spec /\ WF_vars(Clock(TRUE))

-----------------------------------------------------------------------------
TypeOK ==
    /\ dphase \in Addr \cup {None}
    /\ state \in {"IDLE", "FETCH"}
    /\ miss_addr \in Line
    /\ m_start \in BOOLEAN /\ fetch_is_pf \in BOOLEAN
    /\ VALID \in [Index -> BOOLEAN] /\ TAG \in [Index -> Tag] /\ DATA \in [Index -> Content]
    /\ fwv \in SUBSET Word /\ m_word_done_d \in SUBSET Word
    /\ prefetch_en \in BOOLEAN /\ prefetch_en_d \in BOOLEAN
    /\ pf_pending \in Line \cup {None} /\ pf_line \in Line \cup {None} /\ pf_data \in Content
    /\ wrapper \in {"IDLE", "START_CMD", "WAIT_LOW", "WAIT_HIGH"}
    /\ flash_start \in BOOLEAN /\ m_done \in BOOLEAN
    /\ phase \in {"IDLE", "CMD", "DATA", "DONE_WAIT"}
    /\ landed \in 0 .. Words /\ word_done \in SUBSET Word /\ data_reg \in Content
    /\ done \in BOOLEAN

\* Whatever a master reads is the word of the flash at its address: through the
\* early restart of a running fetch, through the prefetch buffer (also when it is
\* disabled or refilled under the read) and after resets in mid-fetch.
ReadsAreCorrect ==
    dphase # None /\ HREADYOUT => cpu_data(dphase) = dphase.line

\* A line that is valid, and the prefetch buffer, hold all words of their line.
ValidLinesAreComplete ==
    /\ \A x \in Index : VALID[x] =>
          DATA[x] = [w \in Word |-> [tag |-> TAG[x], index |-> x]]
    /\ pf_line # None => pf_data = [w \in Word |-> pf_line]

\* No pulse of the handshake is lost or taken twice: a start finds the wrapper and
\* the flash controller idle, a done finds ro_dmc waiting for it.
NoPulseLost ==
    /\ m_start => state = "FETCH" /\ wrapper = "IDLE" /\ phase = "IDLE"
    /\ flash_start => phase = "IDLE" /\ state = "FETCH"
    /\ m_done => state = "FETCH" /\ wrapper = "IDLE" /\ phase = "IDLE"

\* No read stalls the bus forever.
EveryReadEnds == []<>HREADYOUT
=============================================================================
