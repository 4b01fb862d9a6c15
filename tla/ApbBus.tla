------------------------------- MODULE ApbBus -------------------------------
(***************************************************************************)
(* The APB bridge on a bus of its own: one pipelined AHB-Lite master that  *)
(* holds an address phase until HREADY accepts it and drives the write     *)
(* data of the transfer in data phase, and peripherals that take any       *)
(* number of wait states and may answer with an error.                     *)
(***************************************************************************)
EXTENDS ApbBridge

VARIABLES
    aphase,  \* the master's address phase
    dphase,  \* the master's transfer in data phase
    other,   \* the bus is in data phase with another slave
    pready,  \* PREADY of the selected peripheral in this cycle
    pslverr  \* PSLVERR of the selected peripheral in this cycle

vars == <<bridge, aphase, dphase, other, pready, pslverr>>

BusRequest == [addr : Addr, write : BOOLEAN, data : Data]

ASSUME NoBusRequestAssumption ==
    NoRequest \notin BusRequest /\ NoRequest \notin [ok : BOOLEAN, data : Data]

TypeOK ==
    /\ BridgeTypeOK
    /\ aphase \in {NoRequest} \cup BusRequest
    /\ dphase \in {NoRequest} \cup BusRequest
    /\ other \in BOOLEAN
    /\ pready \in BOOLEAN
    /\ pslverr \in BOOLEAN

Init ==
    /\ BridgeInit
    /\ aphase = NoRequest
    /\ dphase = NoRequest
    /\ other = FALSE
    /\ pready = FALSE
    /\ pslverr = FALSE

\* The bus HREADY: the bridge's in its own data phase. While another slave has
\* the data phase the master waits for that slave.
hready == IF dphase # NoRequest THEN hready_resp ELSE ~other

hwdata == IF dphase # NoRequest THEN dphase.data ELSE CHOOSE d \in Data : TRUE

AphaseSignals ==
    IF aphase = NoRequest THEN NoRequest ELSE [addr |-> aphase.addr, write |-> aphase.write]

Clock ==
    /\ BridgeStep(AphaseSignals, hready, hwdata, pready, pslverr)
    /\ dphase' = IF hready THEN aphase ELSE dphase
    /\ IF ~hready /\ aphase # NoRequest
       THEN aphase' = aphase
       ELSE aphase' \in {NoRequest} \cup BusRequest
    /\ other' \in IF dphase' # NoRequest THEN {FALSE} ELSE BOOLEAN
    /\ pready' \in BOOLEAN
    /\ pslverr' \in BOOLEAN

Next == Clock

Spec == Init /\ [][Next]_vars

LiveSpec == Spec /\ WF_vars(Next) /\ WF_vars(Next /\ pready') /\ WF_vars(Next /\ ~other')

-----------------------------------------------------------------------------
\* The abstract access has happened once the bridge is in the last data-phase
\* states; before that the request is pending.
accessed == dphase # NoRequest /\ apb_state \in {"READY", "ERR0", "ERR1"}

Abs == INSTANCE RegisterBus WITH
    Nothing <- NoRequest,
    pending <- dphase,
    answer <- IF ~accessed THEN NoRequest
              ELSE [ok |-> ~hresp, data |-> IF dphase.write /\ ~hresp THEN dphase.data ELSE hrdata]

\* The bridge performs each accepted transfer exactly once, with that transfer's
\* own address and data, and answers with the result. ahbl_to_apb.v:55-137.
BridgeServes == Abs!Spec

\* Once an APB access is set up, PSEL, PADDR, PWRITE and PWDATA stay as they are
\* until PREADY ends it, and the setup phase is followed by the access phase.
ApbProtocol ==
    [][psel /\ ~(penable /\ pready) =>
          /\ psel' /\ penable'
          /\ paddr' = paddr /\ pwrite' = pwrite /\ pwdata' = pwdata]_vars

\* As long as peripherals become ready, every transfer is answered.
EveryTransferEnds == []<>hready
=============================================================================
