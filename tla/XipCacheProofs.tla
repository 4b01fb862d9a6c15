--------------------------- MODULE XipCacheProofs ---------------------------
(***************************************************************************)
(* Theorems about the XIP port, for any tags, cache lines and words per    *)
(* line, with prefetches, bus holds and resets at any time.                *)
(***************************************************************************)
EXTENDS XipCache, TLAPS

-----------------------------------------------------------------------------
(* The inductive invariant.                                                *)

\* The three state machines are in one of seven positions of a fetch together.
Handshake(st, ms, wr, fs, md) ==
    state = st /\ m_start = ms /\ wrapper = wr /\ flash_start = fs /\ m_done = md

AtRest    == Handshake("IDLE", FALSE, "IDLE", FALSE, FALSE) /\ phase = "IDLE"
Started   == Handshake("FETCH", TRUE, "IDLE", FALSE, FALSE) /\ phase = "IDLE"
Commanded == Handshake("FETCH", FALSE, "START_CMD", TRUE, FALSE) /\ phase = "IDLE"
Accepted  == Handshake("FETCH", FALSE, "WAIT_LOW", FALSE, FALSE) /\ phase = "CMD" /\ ~done
Filling   == Handshake("FETCH", FALSE, "WAIT_HIGH", FALSE, FALSE) /\ phase # "IDLE" /\ ~done
Filled    == Handshake("FETCH", FALSE, "WAIT_HIGH", FALSE, FALSE) /\ phase = "IDLE" /\ done
Answered  == Handshake("FETCH", FALSE, "IDLE", FALSE, TRUE) /\ phase = "IDLE" /\ done

Quiet == AtRest \/ Started \/ Commanded
Running == Accepted \/ Filling \/ Filled \/ Answered

InStep == Quiet \/ Running

\* Before the flash controller has taken the start, its word bits are those of the
\* fetch before and show no edge; after that they and the line buffer are this fetch's.
BufferFollows ==
    /\ Quiet => m_word_done_d = word_done
    /\ Running =>
          /\ word_done = {w \in Word : w < landed}
          /\ \A w \in word_done : data_reg[w] = miss_addr
          /\ phase = "CMD" => landed = 0
          /\ phase = "DATA" => landed < Words
          /\ phase \in {"DONE_WAIT", "IDLE"} => landed = Words

\* A demand fetch has taken its line out of the cache, and the words it may restart
\* the master with are this fetch's and are mirrored already.
DemandFetch ==
    state = "FETCH" /\ ~fetch_is_pf =>
        /\ ~VALID[miss_addr.index]
        /\ Quiet => fwv = {}
        /\ Running => fwv \subseteq word_done
        /\ \A w \in fwv : DATA[miss_addr.index][w] = miss_addr

IndInv == TypeOK /\ InStep /\ BufferFollows /\ DemandFetch /\ ValidLinesAreComplete

\* A clock cycle with its inputs.
Cycle(tick, req, hready) ==
    /\ WrapperStep /\ FlashStep(tick)
    /\ DphaseStep(req, hready) /\ CacheStep(req, hready) /\ PrefetchStep(req, hready)

LEMMA NextCases ==
    ASSUME Next
    PROVE  \/ Reset
           \/ \E tick \in BOOLEAN, req \in Addr \cup {None}, hready \in BOOLEAN :
                 Cycle(tick, req, hready)
<1>1. ASSUME NEW tick \in BOOLEAN, Clock(tick)
      PROVE  \E req \in Addr \cup {None}, hready \in BOOLEAN : Cycle(tick, req, hready)
  <2>1. PICK req \in Addr \cup {None}, hready \in {HREADYOUT, FALSE} :
           /\ DphaseStep(req, hready) /\ CacheStep(req, hready) /\ PrefetchStep(req, hready)
    BY <1>1 DEF Clock
  <2>2. HREADYOUT \in BOOLEAN
    BY DEF HREADYOUT, hit, hit_full, hit_cwf, hit_pf
  <2>3. hready \in BOOLEAN
    BY <2>2
  <2>4. Cycle(tick, req, hready)
    BY <1>1, <2>1 DEF Clock, Cycle
  <2>5. QED
    BY <2>3, <2>4
<1>2. QED
  BY <1>1 DEF Next

-----------------------------------------------------------------------------
(* Type correctness.                                                       *)

LEMMA JunkContent == [w \in Word |-> Junk] \in Content
BY DEF Content

LEMMA InitType == Init => TypeOK
<1> SUFFICES ASSUME Init PROVE TypeOK
  OBVIOUS
<1>1. /\ VALID \in [Index -> BOOLEAN] /\ TAG \in [Index -> Tag] /\ DATA \in [Index -> Content]
      /\ pf_data \in Content /\ data_reg \in Content
  BY JunkContent DEF Init
<1>2. landed \in 0 .. Words
  BY WordsAssumption DEF Init
<1>3. QED
  BY <1>1, <1>2 DEF Init, TypeOK

LEMMA CycleType ==
    ASSUME TypeOK, NEW tick \in BOOLEAN, NEW req \in Addr \cup {None}, NEW hready \in BOOLEAN,
           Cycle(tick, req, hready), phase = "DATA" => landed < Words
    PROVE  TypeOK'
<1> USE DEF Cycle
<1>1. dphase' \in Addr \cup {None}
  BY DEF DphaseStep, TypeOK
<1>2. /\ state' \in {"IDLE", "FETCH"} /\ miss_addr' \in Line
      /\ m_start' \in BOOLEAN /\ fetch_is_pf' \in BOOLEAN
      /\ VALID' \in [Index -> BOOLEAN] /\ TAG' \in [Index -> Tag] /\ DATA' \in [Index -> Content]
  <2>1. CASE state = "IDLE"
    <3>1. fresh_miss(req, hready) => req.line \in Line
      BY NoneAssumption DEF fresh_miss, Addr
    <3>2. deferred_miss => dphase.line \in Line
      BY NoneAssumption DEF deferred_miss, Addr, TypeOK
    <3>3. pf_pending # None => pf_pending \in Line
      BY DEF TypeOK
    <3>4. ASSUME NEW line \in Line, NEW pf \in BOOLEAN, StartFetch(line, pf)
          PROVE  <1>2!:
      BY <3>4 DEF StartFetch, TypeOK
    <3>5. CASE UNCHANGED <<state, miss_addr, m_start, fetch_is_pf, VALID, TAG, DATA>>
      BY <3>5 DEF TypeOK
    <3>6. QED
      BY <2>1, <3>1, <3>2, <3>3, <3>4, <3>5 DEF CacheStep, IdleStep
  <2>2. CASE state # "IDLE"
    <3>1. FetchStep
      BY <2>2 DEF CacheStep
    <3>2. miss_addr.tag \in Tag /\ miss_addr.index \in Index /\ data_reg \in Content
      BY DEF TypeOK, Line
    <3>3. QED
      BY <3>1, <3>2 DEF FetchStep, m_start_fetch, TypeOK
  <2>3. QED
    BY <2>1, <2>2
<1>3. fwv' \in SUBSET Word /\ m_word_done_d' \in SUBSET Word
  BY DEF CacheStep, fwv_nxt, TypeOK
<1>4. /\ prefetch_en' \in BOOLEAN /\ prefetch_en_d' \in BOOLEAN
      /\ pf_pending' \in Line \cup {None} /\ pf_line' \in Line \cup {None} /\ pf_data' \in Content
  BY DEF PrefetchStep, TypeOK
<1>5. /\ wrapper' \in {"IDLE", "START_CMD", "WAIT_LOW", "WAIT_HIGH"}
      /\ flash_start' \in BOOLEAN /\ m_done' \in BOOLEAN
  BY DEF WrapperStep, TypeOK
<1>6. phase' \in {"IDLE", "CMD", "DATA", "DONE_WAIT"} /\ done' \in BOOLEAN
  BY DEF FlashStep, FlashPhase, TypeOK
<1>7. landed' \in 0 .. Words /\ word_done' \in SUBSET Word /\ data_reg' \in Content
  <2>1. landed \in Nat /\ Words \in Nat /\ (phase = "DATA" => landed \in Word)
    BY WordsAssumption DEF TypeOK, Word
  <2>2. landed' \in 0 .. Words
    BY <2>1, WordsAssumption DEF FlashStep, FlashData, landed_start, TypeOK, Word
  <2>3. word_done' \in SUBSET Word
    BY <2>1 DEF FlashStep, FlashData, TypeOK
  <2>4. data_reg' \in Content
    <3>1. ASSUME NEW w \in Word, NEW c \in Line \cup {Junk}
          PROVE  [data_reg EXCEPT ![w] = c] \in Content
      BY DEF TypeOK, Content
    <3>2. miss_addr \in Line /\ data_reg \in Content
      BY DEF TypeOK
    <3>3. QED
      BY <2>1, <3>1, <3>2 DEF FlashStep, FlashData
  <2>5. QED
    BY <2>2, <2>3, <2>4
<1>8. QED
  BY <1>1, <1>2, <1>3, <1>4, <1>5, <1>6, <1>7 DEF TypeOK

LEMMA ResetType == TypeOK /\ Reset => TypeOK'
<1> SUFFICES ASSUME TypeOK, Reset PROVE TypeOK'
  OBVIOUS
<1>1. /\ miss_addr' \in Line /\ VALID' \in [Index -> BOOLEAN] /\ TAG' \in [Index -> Tag]
      /\ DATA' \in [Index -> Content] /\ pf_data' \in Content /\ data_reg' \in Content
  BY JunkContent DEF Reset, TypeOK
<1>2. landed' \in 0 .. Words
  BY WordsAssumption DEF Reset
<1>3. prefetch_en' \in BOOLEAN
  BY DEF Reset, TypeOK
<1>4. QED
  BY <1>1, <1>2, <1>3 DEF Reset, TypeOK
-----------------------------------------------------------------------------
(* One clock cycle keeps the inductive invariant.                          *)

\* The fetch moves from one position to the next.
LEMMA CycleMoves ==
    ASSUME TypeOK, NEW tick \in BOOLEAN, NEW req \in Addr \cup {None}, NEW hready \in BOOLEAN,
           Cycle(tick, req, hready)
    PROVE  /\ AtRest => AtRest' \/ Started'
           /\ Started => Commanded'
           /\ Commanded => Accepted'
           /\ Accepted => Filling'
           /\ Filling => Filling' \/ Filled'
           /\ Filled => Answered'
           /\ Answered => AtRest'
<1> USE DEF Cycle, WrapperStep, FlashStep, FlashPhase, Handshake
<1>1. ASSUME AtRest PROVE AtRest' \/ Started'
  <2>1. /\ wrapper' = "IDLE" /\ flash_start' = FALSE /\ m_done' = FALSE /\ phase' = "IDLE"
    BY <1>1 DEF AtRest
  <2>2. \/ state' = "FETCH" /\ m_start' = TRUE
        \/ state' = "IDLE" /\ m_start' = FALSE
    BY <1>1 DEF AtRest, CacheStep, IdleStep, StartFetch
  <2>3. QED
    BY <2>1, <2>2 DEF AtRest, Started
<1>2. ASSUME state = "FETCH"
      PROVE  m_start' = FALSE /\ state' = IF m_done THEN "IDLE" ELSE "FETCH"
  BY <1>2 DEF CacheStep, FetchStep, m_start_fetch
<1>3. Started => Commanded'
  BY <1>2 DEF Started, Commanded
<1>4. Commanded => Accepted'
  BY <1>2 DEF Commanded, Accepted
<1>5. Accepted => Filling'
  BY <1>2 DEF Accepted, Filling
<1>6. Filling => Filling' \/ Filled'
  BY <1>2 DEF Filling, Filled, TypeOK
<1>7. Filled => Answered'
  BY <1>2 DEF Filled, Answered
<1>8. Answered => AtRest'
  BY <1>2 DEF Answered, AtRest
<1>9. QED
  BY <1>1, <1>3, <1>4, <1>5, <1>6, <1>7, <1>8

LEMMA CycleInStep ==
    ASSUME TypeOK, InStep, NEW tick \in BOOLEAN, NEW req \in Addr \cup {None},
           NEW hready \in BOOLEAN, Cycle(tick, req, hready)
    PROVE  InStep'
BY CycleMoves DEF InStep, Quiet, Running

\* The last position a position can have been reached from.
LEMMA CycleComesFrom ==
    ASSUME TypeOK, InStep, NEW tick \in BOOLEAN, NEW req \in Addr \cup {None},
           NEW hready \in BOOLEAN, Cycle(tick, req, hready)
    PROVE  /\ Quiet' => AtRest \/ Started \/ Answered
           /\ Running' => Commanded \/ Accepted \/ Filling \/ Filled
           /\ state' = "FETCH" => AtRest \/ ~m_done
<1> USE DEF Quiet, Running, AtRest, Started, Commanded, Accepted, Filling, Filled, Answered, Handshake
<1>1. ~(Quiet /\ Running)'
  OBVIOUS
<1>2. InStep
  OBVIOUS
<1>3. QED
  BY <1>1, <1>2, CycleMoves DEF InStep

LEMMA CycleBuffer ==
    ASSUME TypeOK, InStep, BufferFollows, NEW tick \in BOOLEAN, NEW req \in Addr \cup {None},
           NEW hready \in BOOLEAN, Cycle(tick, req, hready)
    PROVE  BufferFollows'
<1> USE WordsAssumption DEF Cycle, FlashStep, FlashPhase, FlashData
<1>1. ASSUME Quiet' PROVE m_word_done_d' = word_done'
  <2>1. ~flash_start /\ phase = "IDLE"
    BY <1>1, CycleComesFrom DEF AtRest, Started, Answered, Handshake
  <2>2. QED
    BY <2>1 DEF CacheStep
<1>2. ASSUME Commanded
      PROVE  landed' = 0 /\ word_done' = {} /\ phase' = "CMD"
  BY <1>2 DEF Commanded, Handshake, landed_start
<1>3. ASSUME Accepted \/ Filling \/ Filled
      PROVE  /\ word_done' = {w \in Word : w < landed'}
             /\ \A w \in word_done' : data_reg'[w] = miss_addr'
             /\ phase' = "CMD" => landed' = 0
             /\ phase' = "DATA" => landed' < Words
             /\ phase' \in {"DONE_WAIT", "IDLE"} => landed' = Words
  <2>1. ~flash_start /\ state = "FETCH" /\ Running
    BY <1>3 DEF Running, Accepted, Filling, Filled, Handshake
  <2>2. miss_addr' = miss_addr
    BY <2>1 DEF CacheStep, FetchStep
  <2>3. /\ landed \in Nat /\ landed <= Words /\ data_reg \in [Word -> Line \cup {Junk}]
        /\ phase \in {"IDLE", "CMD", "DATA", "DONE_WAIT"}
    BY DEF TypeOK, Content
  <2>4. /\ word_done = {w \in Word : w < landed}
        /\ \A w \in word_done : data_reg[w] = miss_addr
        /\ phase = "CMD" => landed = 0
        /\ phase = "DATA" => landed < Words
        /\ phase \in {"DONE_WAIT", "IDLE"} => landed = Words
    BY <2>1 DEF BufferFollows
  <2>5. CASE phase = "DATA" /\ tick
    <3>1. /\ data_reg' = [data_reg EXCEPT ![landed] = miss_addr]
          /\ word_done' = word_done \cup {landed} /\ landed' = landed + 1
      BY <2>1, <2>5
    <3>2. landed \in Word
      BY <2>3, <2>4, <2>5 DEF Word
    <3>3. word_done' = {w \in Word : w < landed'}
      BY <3>1, <3>2, <2>3, <2>4 DEF Word
    <3>4. \A w \in word_done' : data_reg'[w] = miss_addr'
      BY <3>1, <3>2, <2>2, <2>3, <2>4
    <3>5. phase' = IF landed + 1 = Words THEN "DONE_WAIT" ELSE "DATA"
      BY <2>1, <2>5
    <3>6. QED
      BY <3>1, <3>3, <3>4, <3>5, <2>3, <2>4, <2>5
  <2>6. CASE ~(phase = "DATA" /\ tick)
    <3>1. /\ landed' = landed /\ word_done' = word_done
          /\ data_reg' = data_reg \/ data_reg' = [data_reg EXCEPT ![landed] = Junk]
      BY <2>1, <2>6
    <3>2. \A w \in word_done' : data_reg'[w] = miss_addr'
      BY <3>1, <2>2, <2>3, <2>4 DEF Word
    <3>3. /\ phase' = "CMD" => phase = "CMD"
          /\ phase' = "DATA" => phase \in {"DATA", "CMD"}
          /\ phase' \in {"DONE_WAIT", "IDLE"} => phase \in {"DONE_WAIT", "IDLE"}
      BY <2>1, <2>3, <2>6
    <3>4. QED
      BY <3>1, <3>2, <3>3, <2>3, <2>4
  <2>7. QED
    BY <2>5, <2>6
<1>4. ASSUME Running'
      PROVE  /\ word_done' = {w \in Word : w < landed'}
             /\ \A w \in word_done' : data_reg'[w] = miss_addr'
             /\ phase' = "CMD" => landed' = 0
             /\ phase' = "DATA" => landed' < Words
             /\ phase' \in {"DONE_WAIT", "IDLE"} => landed' = Words
  <2>1. Commanded => {w \in Word : w < landed'} = {}
    BY <1>2 DEF Word
  <2>2. QED
    BY <1>2, <1>3, <1>4, <2>1, CycleComesFrom
<1>5. QED
  BY <1>1, <1>4 DEF BufferFollows
\* What the fetch logic of ro_dmc does with the line it is fetching.
LEMMA FetchKeepsLine ==
    ASSUME TypeOK, state = "FETCH", NEW tick \in BOOLEAN, NEW req \in Addr \cup {None},
           NEW hready \in BOOLEAN, Cycle(tick, req, hready)
    PROVE  /\ miss_addr' = miss_addr /\ fetch_is_pf' = fetch_is_pf
           /\ fwv' = fwv \cup (word_done \ m_word_done_d)
           /\ ~fetch_is_pf => DATA'[miss_addr.index] = data_reg
           /\ ~m_done => VALID' = VALID
<1>1. miss_addr.index \in Index /\ DATA \in [Index -> Content]
  BY DEF TypeOK, Line
<1>2. QED
  BY <1>1 DEF Cycle, CacheStep, FetchStep, Mirrored, fwv_nxt

LEMMA CycleDemand ==
    ASSUME TypeOK, InStep, BufferFollows, DemandFetch, NEW tick \in BOOLEAN,
           NEW req \in Addr \cup {None}, NEW hready \in BOOLEAN, Cycle(tick, req, hready)
    PROVE  DemandFetch'
<1> SUFFICES ASSUME state' = "FETCH", ~fetch_is_pf'
    PROVE  /\ ~VALID'[miss_addr'.index]
           /\ Quiet' => fwv' = {}
           /\ Running' => fwv' \subseteq word_done'
           /\ \A w \in fwv' : DATA'[miss_addr'.index][w] = miss_addr'
  BY DEF DemandFetch
<1>1. CASE state = "IDLE"
  <2>1. PICK line \in Line : StartFetch(line, FALSE) /\ fwv' = {}
    <3>1. fresh_miss(req, hready) => req.line \in Line
      BY NoneAssumption DEF fresh_miss, Addr
    <3>2. deferred_miss => dphase.line \in Line
      BY NoneAssumption DEF deferred_miss, Addr, TypeOK
    <3>3. fresh_miss(req, hready) \/ deferred_miss
      BY <1>1 DEF Cycle, CacheStep, IdleStep, StartFetch
    <3>4. fwv' = {}
      BY <1>1, <3>3 DEF Cycle, CacheStep, fwv_nxt
    <3>5. QED
      BY <1>1, <3>1, <3>2, <3>3, <3>4 DEF Cycle, CacheStep, IdleStep
  <2>2. line.index \in Index
    BY DEF Line
  <2>3. ~VALID'[miss_addr'.index]
    BY <2>1, <2>2 DEF StartFetch, TypeOK
  <2>4. QED
    BY <2>1, <2>3
<1>2. CASE state # "IDLE"
  <2>1. state = "FETCH"
    BY <1>2 DEF TypeOK
  <2>2. ~fetch_is_pf /\ miss_addr' = miss_addr /\ DATA'[miss_addr.index] = data_reg
    BY <2>1, FetchKeepsLine
  <2>3. ~m_done /\ VALID' = VALID
    BY <2>1, FetchKeepsLine, CycleComesFrom DEF AtRest, Handshake
  <2>4. /\ ~VALID[miss_addr.index]
        /\ Quiet => fwv = {} /\ m_word_done_d = word_done
        /\ Running => fwv \subseteq word_done /\ \A w \in word_done : data_reg[w] = miss_addr
    BY <2>1, <2>2 DEF DemandFetch, BufferFollows
  <2>5. Quiet => fwv' = {}
    BY <2>1, <2>4, FetchKeepsLine
  <2>6. Running => /\ fwv' \subseteq word_done
                   /\ \A w \in fwv' : DATA'[miss_addr.index][w] = miss_addr
    BY <2>1, <2>2, <2>4, FetchKeepsLine
  <2>7. Quiet' => Started
    BY <2>1, <2>3, CycleComesFrom DEF AtRest, Answered, Handshake
  <2>8. Running' => Commanded \/ word_done \subseteq word_done'
    <3>1. Running' => Commanded \/ ~flash_start
      BY CycleComesFrom DEF Accepted, Filling, Filled, Handshake
    <3>2. QED
      BY <3>1 DEF Cycle, FlashStep, FlashData
  <2>9. QED
    BY <2>2, <2>3, <2>4, <2>5, <2>6, <2>7, <2>8 DEF InStep, Quiet
<1>3. QED
  BY <1>1, <1>2

\* At the done pulse every word of the line buffer is of the line that was fetched.
LEMMA DoneBufferComplete ==
    ASSUME TypeOK, InStep, BufferFollows, m_done
    PROVE  state = "FETCH" /\ data_reg = [w \in Word |-> miss_addr]
<1>1. Answered
  BY DEF InStep, Quiet, Running, AtRest, Started, Commanded, Accepted, Filling, Filled, Handshake
<1>2. state = "FETCH" /\ Running /\ phase = "IDLE"
  BY <1>1 DEF Answered, Running, Handshake
<1>3. word_done = Word
  <2>1. word_done = {w \in Word : w < landed} /\ landed = Words
    BY <1>2 DEF BufferFollows
  <2>2. \A w \in Word : w < Words
    BY WordsAssumption DEF Word
  <2>3. QED
    BY <2>1, <2>2
<1>4. \A w \in Word : data_reg[w] = miss_addr
  BY <1>2, <1>3 DEF BufferFollows
<1>5. QED
  BY <1>2, <1>4 DEF TypeOK, Content

LEMMA CycleLines ==
    ASSUME TypeOK, InStep, BufferFollows, DemandFetch, ValidLinesAreComplete,
           NEW tick \in BOOLEAN, NEW req \in Addr \cup {None}, NEW hready \in BOOLEAN,
           Cycle(tick, req, hready)
    PROVE  ValidLinesAreComplete'
<1>1. ASSUME NEW x \in Index, VALID'[x]
      PROVE  DATA'[x] = [w \in Word |-> [tag |-> TAG'[x], index |-> x]]
  <2>1. CASE state = "IDLE"
    <3>1. /\ DATA' = DATA /\ TAG' = TAG
          /\ VALID' = VALID \/ \E i : VALID' = [VALID EXCEPT ![i] = FALSE]
      BY <2>1 DEF Cycle, CacheStep, IdleStep, StartFetch
    <3>2. VALID[x]
      BY <1>1, <3>1 DEF TypeOK
    <3>3. QED
      BY <3>1, <3>2 DEF ValidLinesAreComplete
  <2>2. CASE state # "IDLE" /\ x # miss_addr.index
    <3>1. VALID'[x] = VALID[x] /\ TAG'[x] = TAG[x] /\ DATA'[x] = DATA[x]
      BY <2>2 DEF Cycle, CacheStep, FetchStep, TypeOK
    <3>2. QED
      BY <1>1, <3>1 DEF ValidLinesAreComplete
  <2>3. CASE state # "IDLE" /\ x = miss_addr.index
    <3>1. state = "FETCH"
      BY <2>3 DEF TypeOK
    <3>2. CASE ~fetch_is_pf
      <4>1. m_done
        BY <1>1, <2>3, <3>1, <3>2, FetchKeepsLine DEF DemandFetch
      <4>2. DATA'[x] = [w \in Word |-> miss_addr]
        BY <2>3, <3>1, <3>2, <4>1, FetchKeepsLine, DoneBufferComplete
      <4>3. TAG'[x] = miss_addr.tag
        BY <2>3, <3>1, <3>2, <4>1 DEF Cycle, CacheStep, FetchStep, TypeOK
      <4>4. miss_addr = [tag |-> TAG'[x], index |-> x]
        BY <2>3, <4>3 DEF TypeOK, Line
      <4>5. QED
        BY <4>2, <4>4
    <3>3. CASE fetch_is_pf
      <4>1. VALID' = VALID /\ TAG' = TAG /\ DATA' = DATA
        BY <3>1, <3>3 DEF Cycle, CacheStep, FetchStep, Mirrored
      <4>2. QED
        BY <1>1, <4>1 DEF ValidLinesAreComplete
    <3>4. QED
      BY <3>2, <3>3
  <2>4. QED
    BY <2>1, <2>2, <2>3
<1>2. ASSUME pf_line' # None PROVE pf_data' = [w \in Word |-> pf_line']
  <2>1. CASE state = "FETCH" /\ m_done /\ fetch_is_pf
    BY <2>1, DoneBufferComplete DEF Cycle, PrefetchStep
  <2>2. CASE ~(state = "FETCH" /\ m_done /\ fetch_is_pf)
    BY <1>2, <2>2 DEF Cycle, PrefetchStep, ValidLinesAreComplete
  <2>3. QED
    BY <2>1, <2>2
<1>3. QED
  BY <1>1, <1>2 DEF ValidLinesAreComplete

-----------------------------------------------------------------------------
(* The invariant holds, and what follows from it.                          *)

LEMMA InitInv == Init => IndInv
<1> SUFFICES ASSUME Init PROVE IndInv
  OBVIOUS
<1>1. AtRest
  BY DEF Init, AtRest, Handshake
<1>2. ~Running
  BY <1>1 DEF AtRest, Running, Accepted, Filling, Filled, Answered, Handshake
<1>3. BufferFollows /\ DemandFetch
  BY <1>2 DEF Init, BufferFollows, DemandFetch
<1>4. ValidLinesAreComplete
  BY DEF Init, ValidLinesAreComplete
<1>5. QED
  BY <1>1, <1>3, <1>4, InitType DEF IndInv, InStep, Quiet

LEMMA ResetInv == IndInv /\ Reset => IndInv'
<1> SUFFICES ASSUME IndInv, Reset PROVE IndInv'
  OBVIOUS
<1>1. AtRest'
  BY DEF Reset, AtRest, Handshake
<1>2. ~Running'
  BY <1>1 DEF AtRest, Running, Accepted, Filling, Filled, Answered, Handshake
<1>3. BufferFollows' /\ DemandFetch' /\ ValidLinesAreComplete'
  BY <1>2 DEF Reset, IndInv, BufferFollows, DemandFetch, ValidLinesAreComplete
<1>4. QED
  BY <1>1, <1>3, ResetType DEF IndInv, InStep, Quiet

LEMMA StepInv == IndInv /\ [Next]_vars => IndInv'
<1> SUFFICES ASSUME IndInv, [Next]_vars PROVE IndInv'
  OBVIOUS
<1>1. CASE Reset
  BY <1>1, ResetInv
<1>2. ASSUME NEW tick \in BOOLEAN, NEW req \in Addr \cup {None}, NEW hready \in BOOLEAN,
             Cycle(tick, req, hready)
      PROVE  IndInv'
  <2>1. phase = "DATA" => landed < Words
    BY DEF IndInv, BufferFollows, InStep, Quiet, AtRest, Started, Commanded
  <2>2. TypeOK'
    BY <1>2, <2>1, CycleType DEF IndInv
  <2>3. InStep'
    BY <1>2, CycleInStep DEF IndInv
  <2>4. BufferFollows'
    BY <1>2, CycleBuffer DEF IndInv
  <2>5. DemandFetch'
    BY <1>2, CycleDemand DEF IndInv
  <2>6. ValidLinesAreComplete'
    BY <1>2, CycleLines DEF IndInv
  <2>7. QED
    BY <2>2, <2>3, <2>4, <2>5, <2>6 DEF IndInv
<1>3. CASE UNCHANGED vars
  BY <1>3 DEF vars, cache, prefetcher, handshake, flash, IndInv, TypeOK, InStep, Quiet, Running,
              AtRest, Started, Commanded, Accepted, Filling, Filled, Answered, Handshake,
              BufferFollows, DemandFetch, ValidLinesAreComplete
<1>4. QED
  BY <1>1, <1>2, <1>3, NextCases

\* The inductive invariant holds in every reachable state.
THEOREM Invariant == Spec => []IndInv
<1>1. QED
  BY InitInv, StepInv, PTL DEF Spec

\* Every register keeps to its values; the controller never counts past the line.
THEOREM TypeCorrect == Spec => []TypeOK
<1>1. IndInv => TypeOK
  BY DEF IndInv
<1>2. QED
  BY <1>1, Invariant, PTL

\* No pulse between ro_dmc, the wrapper and the flash controller is lost or taken
\* twice: each finds its receiver in the state that waits for it.
THEOREM PulsesArrive == Spec => []NoPulseLost
<1>1. IndInv => NoPulseLost
  BY DEF IndInv, InStep, Quiet, Running, AtRest, Started, Commanded, Accepted, Filling, Filled,
         Answered, Handshake, NoPulseLost
<1>2. QED
  BY <1>1, Invariant, PTL

\* A valid line of the cache and the prefetch buffer hold all words of their line.
THEOREM LinesComplete == Spec => []ValidLinesAreComplete
<1>1. IndInv => ValidLinesAreComplete
  BY DEF IndInv
<1>2. QED
  BY <1>1, Invariant, PTL

\* Every read that completes returns the word of the flash at its address, from a
\* valid line, from the landed words of a running fetch or from the prefetch buffer.
THEOREM ReadsCorrect == Spec => []ReadsAreCorrect
<1>1. ASSUME IndInv, dphase # None, HREADYOUT PROVE cpu_data(dphase) = dphase.line
  <2>1. dphase.line \in Line /\ dphase.word \in Word
    BY <1>1 DEF IndInv, TypeOK, Addr
  <2>2. CASE hit_pf(dphase)
    BY <1>1, <2>1, <2>2, NoneAssumption DEF hit_pf, cpu_data, IndInv, ValidLinesAreComplete
  <2>3. CASE ~hit_pf(dphase) /\ hit_full(dphase)
    <3>1. dphase.line = [tag |-> TAG[dphase.line.index], index |-> dphase.line.index]
      BY <2>1, <2>3 DEF Line, hit_full
    <3>2. dphase.line.index \in Index
      BY <2>1 DEF Line
    <3>3. DATA[dphase.line.index] = [w \in Word |-> dphase.line]
      BY <1>1, <2>3, <3>1, <3>2 DEF hit_full, IndInv, ValidLinesAreComplete
    <3>4. QED
      BY <2>1, <2>3, <3>3 DEF cpu_data
  <2>4. CASE ~hit_pf(dphase) /\ hit_cwf(dphase)
    BY <1>1, <2>1, <2>4 DEF hit_cwf, cpu_data, IndInv, DemandFetch
  <2>5. QED
    BY <1>1, <2>2, <2>3, <2>4 DEF HREADYOUT, hit
<1>2. IndInv => ReadsAreCorrect
  BY <1>1 DEF ReadsAreCorrect
<1>3. QED
  BY <1>2, Invariant, PTL
=============================================================================
