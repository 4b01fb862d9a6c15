---------------------------- MODULE ApbBusProofs ----------------------------
(***************************************************************************)
(* Theorems about the APB bridge on its bus, for any registers, values,    *)
(* wait states and error answers.                                          *)
(***************************************************************************)
EXTENDS ApbBus, TLAPS

-----------------------------------------------------------------------------
(* The inductive invariant.                                                *)

\* The bridge works for the transfer in data phase, with its address, its direction
\* and, once the setup phase has come, its data. While it works the bus waits for it.
ServesDphase ==
    /\ dphase = NoRequest => apb_state = "READY"
    /\ dphase # NoRequest => ~other
    /\ apb_state \in {"RD0", "RD1"} => ~dphase.write
    /\ apb_state \in {"WR0", "WR1", "WR2"} => dphase.write
    /\ psel \/ apb_state = "WR0" => paddr = dphase.addr
    /\ pwrite => pwdata = dphase.data

IndInv == TypeOK /\ ServesDphase

LEMMA InitInv == Init => IndInv
<1> SUFFICES ASSUME Init PROVE IndInv
  OBVIOUS
<1>1. BridgeTypeOK
  <2>1. (apb_state \in {"READY", "ERR1"}) = TRUE /\ (apb_state \in {"ERR0", "ERR1"}) = FALSE
    BY DEF Init, BridgeInit
  <2>2. hready_resp = (apb_state \in {"READY", "ERR1"})
    BY <2>1, Zenon DEF Init, BridgeInit
  <2>3. hresp = (apb_state \in {"ERR0", "ERR1"})
    BY <2>1, Zenon DEF Init, BridgeInit
  <2>4. QED
    BY <2>2, <2>3 DEF Init, BridgeInit, BridgeTypeOK, BridgeState
<1>2. ServesDphase
  BY DEF Init, BridgeInit, ServesDphase, psel, pwrite
<1>3. QED
  BY <1>1, <1>2 DEF Init, IndInv, TypeOK

\* The address phase the bridge sees.
LEMMA RequestSeen ==
    ASSUME TypeOK
    PROVE  /\ aphase = NoRequest => AphaseSignals = NoRequest
           /\ aphase # NoRequest => /\ AphaseSignals # NoRequest
                                    /\ AphaseSignals.addr = aphase.addr
                                    /\ AphaseSignals.write = aphase.write
                                    /\ aphase.addr \in Addr /\ aphase.write \in BOOLEAN
                                    /\ aphase.data \in Data
<1>1. aphase # NoRequest => aphase.addr \in Addr /\ aphase.write \in BOOLEAN /\ aphase.data \in Data
  BY DEF TypeOK, BusRequest
<1>2. aphase # NoRequest => [addr |-> aphase.addr, write |-> aphase.write] # NoRequest
  BY <1>1, NoRequestAssumption
<1>3. QED
  BY <1>1, <1>2 DEF AphaseSignals

LEMMA WriteDataType == TypeOK => hwdata \in Data
<1> SUFFICES ASSUME TypeOK PROVE hwdata \in Data
  OBVIOUS
<1>1. dphase # NoRequest => dphase.data \in Data
  BY DEF TypeOK, BusRequest
<1>2. \E d \in Data : TRUE
  BY DEF TypeOK, BridgeTypeOK
<1>3. QED
  BY <1>1, <1>2 DEF hwdata

\* The bus is ready unless the bridge is at work or another slave holds it.
LEMMA BusReady ==
    ASSUME IndInv
    PROVE  /\ apb_state \in {"RD0", "RD1", "WR0", "WR1", "WR2", "ERR0"} =>
                 ~hready /\ dphase # NoRequest
           /\ apb_state = "ERR1" => hready /\ dphase # NoRequest
           /\ dphase # NoRequest /\ apb_state = "READY" => hready
BY DEF IndInv, TypeOK, BridgeTypeOK, ServesDphase, hready

-----------------------------------------------------------------------------
(* Each state of the bridge, for one clock cycle.                          *)

LEMMA ClockType ==
    ASSUME IndInv, Clock
    PROVE  TypeOK'
<1> USE DEF IndInv, TypeOK, BridgeTypeOK
<1>1. apb_state' = apb_state_nxt(AphaseSignals, hready, pready, pslverr)
  BY DEF Clock, BridgeStep
<1>2. apb_state' \in BridgeState
  BY <1>1 DEF apb_state_nxt, ready_nxt, access_nxt, aphase_to_dphase, BridgeState
<1>3. /\ hready_resp' = (apb_state' \in {"READY", "ERR1"})
      /\ hresp' = (apb_state' \in {"ERR0", "ERR1"})
  BY DEF Clock, BridgeStep, hready_nxt
<1>4. paddr' \in Addr /\ pwdata' \in Data /\ hrdata' \in Data /\ regs' \in [Addr -> Data]
  <2>1. paddr' \in Addr
    BY RequestSeen DEF Clock, BridgeStep
  <2>2. pwdata' \in Data
    BY WriteDataType DEF Clock, BridgeStep, pwdata_nxt
  <2>3. hrdata' \in Data /\ regs' \in [Addr -> Data]
    BY DEF Clock, BridgeStep
  <2>4. QED
    BY <2>1, <2>2, <2>3
<1>5. /\ aphase' \in {NoRequest} \cup BusRequest /\ dphase' \in {NoRequest} \cup BusRequest
      /\ other' \in BOOLEAN /\ pready' \in BOOLEAN /\ pslverr' \in BOOLEAN
  BY DEF Clock
<1>6. QED
  BY <1>2, <1>3, <1>4, <1>5

\* While the bridge works, the transfer, its address and its data stay.
LEMMA AtWork ==
    ASSUME IndInv, Clock, apb_state \in {"RD0", "RD1", "WR0", "WR1", "WR2", "ERR0"}
    PROVE  /\ dphase' = dphase /\ dphase # NoRequest /\ paddr' = paddr
           /\ apb_state # "WR0" => pwdata' = pwdata
           /\ apb_state = "WR0" => pwdata' = dphase.data
           /\ apb_state' = CASE apb_state = "WR0" -> "WR1"
                             [] apb_state = "WR1" -> "WR2"
                             [] apb_state = "RD0" -> "RD1"
                             [] apb_state = "ERR0" -> "ERR1"
                             [] apb_state \in {"WR2", "RD1"} -> access_nxt(pready, pslverr)
<1>1. ~hready /\ dphase # NoRequest
  BY BusReady
<1>2. dphase' = dphase /\ paddr' = paddr
  BY <1>1 DEF Clock, BridgeStep
<1>3. pwdata' = IF apb_state = "WR0" THEN dphase.data ELSE pwdata
  BY <1>1 DEF Clock, BridgeStep, pwdata_nxt, hwdata
<1>4. apb_state' = apb_state_nxt(AphaseSignals, hready, pready, pslverr)
  BY DEF Clock, BridgeStep
<1>5. QED
  BY <1>1, <1>2, <1>3, <1>4 DEF apb_state_nxt

\* A bridge that does not work takes the address phase, if the bus is ready.
LEMMA AtRest ==
    ASSUME IndInv, Clock, apb_state \in {"READY", "ERR1"}
    PROVE  /\ UNCHANGED <<regs, hrdata>>
           /\ dphase' = IF hready THEN aphase ELSE dphase
           /\ hready /\ aphase # NoRequest => paddr' = aphase.addr
           /\ apb_state' = IF hready /\ aphase # NoRequest
                           THEN IF aphase.write THEN "WR0" ELSE "RD0" ELSE "READY"
<1>1. apb_state' = apb_state_nxt(AphaseSignals, hready, pready, pslverr)
  BY DEF Clock, BridgeStep
<1>2. apb_state = "ERR1" => hready
  BY BusReady
<1>3. apb_state' = IF hready /\ aphase # NoRequest
                   THEN IF aphase.write THEN "WR0" ELSE "RD0" ELSE "READY"
  BY <1>1, <1>2, RequestSeen DEF apb_state_nxt, ready_nxt, aphase_to_dphase, IndInv
<1>4. hready /\ aphase # NoRequest => paddr' = aphase.addr
  BY RequestSeen DEF Clock, BridgeStep, IndInv
<1>5. QED
  BY <1>3, <1>4 DEF Clock, BridgeStep

LEMMA ClockServes ==
    ASSUME IndInv, Clock
    PROVE  ServesDphase'
<1>1. dphase' # NoRequest => ~other'
  BY DEF Clock
<1>2. CASE apb_state \in {"RD0", "RD1", "WR0", "WR1", "WR2", "ERR0"}
  <2>1. /\ apb_state' \in {"RD0", "RD1"} => apb_state \in {"RD0", "RD1"}
        /\ apb_state' \in {"WR0", "WR1", "WR2"} => apb_state \in {"WR0", "WR1", "WR2"}
        /\ apb_state' \in {"WR1", "WR2"} => pwdata' = dphase.data
    BY <1>2, AtWork DEF access_nxt, IndInv, ServesDphase, pwrite
  <2>2. QED
    BY <1>1, <1>2, <2>1, AtWork DEF IndInv, ServesDphase, psel, pwrite
<1>3. CASE apb_state \in {"READY", "ERR1"}
  <2>1. apb_state' = "READY" \/ (dphase' = aphase /\ aphase # NoRequest /\ paddr' = dphase'.addr
          /\ apb_state' = IF dphase'.write THEN "WR0" ELSE "RD0")
    BY <1>3, AtRest
  <2>2. dphase' = NoRequest => apb_state' = "READY"
    BY <2>1
  <2>3. QED
    BY <1>1, <2>1, <2>2 DEF ServesDphase, psel, pwrite
<1>4. QED
  BY <1>2, <1>3 DEF IndInv, TypeOK, BridgeTypeOK, BridgeState

LEMMA StepInv == IndInv /\ [Next]_vars => IndInv'
<1> SUFFICES ASSUME IndInv, [Next]_vars PROVE IndInv'
  OBVIOUS
<1>1. CASE Clock
  BY <1>1, ClockType, ClockServes DEF IndInv
<1>2. CASE UNCHANGED vars
  BY <1>2 DEF vars, bridge, IndInv, TypeOK, BridgeTypeOK, ServesDphase, psel, pwrite
<1>3. QED
  BY <1>1, <1>2 DEF Next

-----------------------------------------------------------------------------
(* The theorems.                                                           *)

\* The inductive invariant holds in every reachable state.
THEOREM Invariant == Spec => []IndInv
BY InitInv, StepInv, PTL DEF Spec

\* Every register keeps to its values; the response registers decode the state.
THEOREM TypeCorrect == Spec => []TypeOK
<1>1. IndInv => TypeOK
  BY DEF IndInv
<1>2. QED
  BY <1>1, Invariant, PTL

\* The APB signals obey the protocol: set up for a cycle and stable to the end.
THEOREM ProtocolKept == Spec => ApbProtocol
<1> DEFINE Stable == psel /\ ~(penable /\ pready) =>
                        /\ psel' /\ penable'
                        /\ paddr' = paddr /\ pwrite' = pwrite /\ pwdata' = pwdata
<1>1. ASSUME IndInv, Clock PROVE Stable
  <2>1. SUFFICES ASSUME psel, ~(penable /\ pready)
                 PROVE  psel' /\ penable' /\ paddr' = paddr /\ pwrite' = pwrite /\ pwdata' = pwdata
    OBVIOUS
  <2>2. apb_state \in {"RD0", "RD1", "WR1", "WR2"}
    BY <2>1 DEF psel
  <2>3. apb_state' = IF apb_state \in {"WR1", "WR2"} THEN "WR2" ELSE "RD1"
    BY <1>1, <2>1, <2>2, AtWork DEF access_nxt, penable
  <2>4. QED
    BY <1>1, <2>2, <2>3, AtWork DEF psel, penable, pwrite
<1>2. IndInv /\ [Next]_vars => [Stable]_vars
  BY <1>1 DEF Next
<1>3. QED
  BY <1>2, Invariant, PTL DEF Spec, ApbProtocol

\* The bridge implements the register bus: each accepted transfer is performed once,
\* atomically, and the answer is that access's.
THEOREM BridgeImplements == Spec => BridgeServes
<1> DEFINE ans == IF ~accessed THEN NoRequest
                  ELSE [ok |-> ~hresp, data |-> IF dphase.write /\ ~hresp THEN dphase.data ELSE hrdata]
<1>1. Init => Abs!Init
  BY DEF Init, BridgeInit, Abs!Init, accessed
<1>2. ASSUME IndInv, Clock PROVE Abs!Next \/ UNCHANGED <<regs, dphase, ans>>
  <2>1. CASE dphase = NoRequest
    <3>1. apb_state = "READY" /\ ans = NoRequest
      BY <1>2, <2>1 DEF IndInv, ServesDphase, accessed
    <3>2. CASE hready /\ aphase # NoRequest
      <4>1. dphase' = aphase /\ apb_state' \in {"WR0", "RD0"} /\ UNCHANGED regs
        BY <1>2, <3>1, <3>2, AtRest
      <4>2. ans' = NoRequest /\ aphase \in [addr : Addr, write : BOOLEAN, data : Data]
        BY <1>2, <3>2, <4>1 DEF accessed, IndInv, TypeOK, BusRequest
      <4>3. Abs!Accept(aphase)
        BY <2>1, <4>1, <4>2 DEF Abs!Accept, Abs!Take
      <4>4. QED
        BY <4>2, <4>3 DEF Abs!Next
    <3>3. CASE ~(hready /\ aphase # NoRequest)
      <4>1. dphase' = NoRequest /\ UNCHANGED regs
        BY <1>2, <2>1, <3>1, <3>3, AtRest
      <4>2. QED
        BY <2>1, <3>1, <4>1 DEF accessed
    <3>4. QED
      BY <3>2, <3>3
  <2>2. CASE dphase # NoRequest /\ apb_state \in {"READY", "ERR1"}
    <3>1. hready
      BY <1>2, <2>2, BusReady
    <3>2. /\ dphase' = aphase /\ UNCHANGED regs
          /\ aphase # NoRequest => apb_state' \in {"WR0", "RD0"}
      BY <1>2, <2>2, <3>1, AtRest
    <3>3. ans' = NoRequest /\ aphase \in {NoRequest} \cup [addr : Addr, write : BOOLEAN, data : Data]
      BY <1>2, <3>2 DEF accessed, IndInv, TypeOK, BusRequest
    <3>4. ans # NoRequest
      <4>1. ans \in [ok : BOOLEAN, data : Data]
        BY <1>2, <2>2 DEF accessed, IndInv, TypeOK, BridgeTypeOK, BusRequest
      <4>2. QED
        BY <4>1, NoBusRequestAssumption
    <3>5. Abs!Deliver(aphase)
      BY <3>2, <3>3, <3>4 DEF Abs!Deliver, Abs!Take
    <3>6. QED
      BY <3>3, <3>5 DEF Abs!Next
  <2>3. CASE \/ apb_state \in {"RD0", "WR0", "WR1"}
             \/ apb_state \in {"RD1", "WR2"} /\ ~pready
    <3>1. /\ dphase' = dphase
          /\ apb_state \in {"RD0", "RD1", "WR0", "WR1", "WR2"}
          /\ apb_state' \in {"RD0", "RD1", "WR0", "WR1", "WR2"}
      BY <1>2, <2>3, AtWork DEF access_nxt
    <3>2. UNCHANGED regs
      BY <1>2, <2>3 DEF Clock, BridgeStep
    <3>3. QED
      BY <3>1, <3>2 DEF accessed
  <2>4. CASE apb_state \in {"RD1", "WR2"} /\ pready
    <3>1. /\ dphase' = dphase /\ dphase # NoRequest
          /\ apb_state' = IF pslverr THEN "ERR0" ELSE "READY"
      BY <1>2, <2>4, AtWork DEF access_nxt
    <3>2. /\ ~accessed /\ accessed' /\ hresp' = pslverr
          /\ dphase.write = (apb_state = "WR2") /\ paddr = dphase.addr
          /\ apb_state = "WR2" => pwdata = dphase.data
      <4>1. hresp' = pslverr
        BY <1>2, <3>1 DEF Clock, BridgeStep, IndInv, TypeOK
      <4>2. dphase.write \in BOOLEAN
        BY <1>2, <3>1 DEF IndInv, TypeOK, BusRequest
      <4>3. QED
        BY <1>2, <2>4, <3>1, <4>1, <4>2 DEF accessed, IndInv, ServesDphase, psel, pwrite
    <3>3. CASE pslverr
      <4>1. ans' = [ok |-> FALSE, data |-> hrdata'] /\ hrdata' \in Data /\ UNCHANGED regs
        BY <1>2, <2>4, <3>1, <3>2, <3>3, ClockType DEF TypeOK, BridgeTypeOK, Clock, BridgeStep
      <4>2. QED
        BY <3>1, <3>2, <4>1 DEF Abs!Next, Abs!Access
    <3>4. CASE ~pslverr /\ apb_state = "WR2"
      <4>1. regs' = [regs EXCEPT ![dphase.addr] = dphase.data]
        BY <1>2, <2>4, <3>2, <3>4 DEF Clock, BridgeStep
      <4>2. ans' = [ok |-> TRUE, data |-> dphase.data]
        BY <3>1, <3>2, <3>4
      <4>3. QED
        BY <3>1, <3>2, <3>4, <4>1, <4>2 DEF Abs!Next, Abs!Access
    <3>5. CASE ~pslverr /\ apb_state = "RD1"
      <4>1. hrdata' = regs[dphase.addr] /\ UNCHANGED regs
        BY <1>2, <2>4, <3>2, <3>5 DEF Clock, BridgeStep
      <4>2. ans' = [ok |-> TRUE, data |-> regs[dphase.addr]]
        BY <3>1, <3>2, <3>5, <4>1
      <4>3. QED
        BY <3>1, <3>2, <3>5, <4>1, <4>2 DEF Abs!Next, Abs!Access
    <3>6. QED
      BY <2>4, <3>3, <3>4, <3>5
  <2>5. CASE apb_state = "ERR0"
    <3>1. dphase' = dphase /\ apb_state' = "ERR1"
      BY <1>2, <2>5, AtWork
    <3>2. hresp' = hresp /\ UNCHANGED <<regs, hrdata>>
      BY <1>2, <2>5, <3>1, ClockType DEF IndInv, TypeOK, BridgeTypeOK, Clock, BridgeStep
    <3>3. QED
      BY <2>5, <3>1, <3>2 DEF accessed
  <2>6. QED
    BY <1>2, <2>1, <2>2, <2>3, <2>4, <2>5 DEF IndInv, TypeOK, BridgeTypeOK, BridgeState
<1>3. UNCHANGED vars => UNCHANGED <<regs, dphase, ans>>
  BY DEF vars, bridge, accessed
<1>4. IndInv /\ [Next]_vars => [Abs!Next]_<<regs, dphase, ans>>
  BY <1>2, <1>3 DEF Next
<1>5. QED
  BY <1>1, <1>4, Invariant, PTL DEF Spec, BridgeServes, Abs!Spec
=============================================================================
