------------------------------ MODULE ApbBridge ------------------------------
(***************************************************************************)
(* The AHB-Lite to APB bridge (busfabric/ahbl_to_apb.v, FULL_RESET = 1)    *)
(* and the decode of apb_splitter.v behind it. The module defines the      *)
(* registers of the bridge and one clock cycle of it as a function of its  *)
(* inputs; the modules that EXTEND it supply the bus in front of it.       *)
(***************************************************************************)
EXTENDS Naturals

CONSTANTS Addr,      \* the APB register addresses
          Data,      \* the values a register holds
          NoRequest  \* HTRANS = IDLE

ASSUME NoRequestAssumption == NoRequest \notin [addr : Addr, write : BOOLEAN]

VARIABLES
    apb_state,   \* S_READY, S_RD0, ...
    hready_resp, \* registered HREADYOUT
    hresp,       \* registered HRESP
    hrdata,      \* registered read data
    paddr,       \* APB address register
    pwdata,      \* APB write-data register
    regs         \* the registers behind the bridge (the peripherals)

bridge == <<apb_state, hready_resp, hresp, hrdata, paddr, pwdata, regs>>

BridgeState == {"READY", "RD0", "RD1", "WR0", "WR1", "WR2", "ERR0", "ERR1"}
Request == [addr : Addr, write : BOOLEAN]

\* The registered responses are decoded from the state.
BridgeTypeOK ==
    /\ apb_state \in BridgeState
    /\ hready_resp = (apb_state \in {"READY", "ERR1"})
    /\ hresp = (apb_state \in {"ERR0", "ERR1"})
    /\ hrdata \in Data
    /\ paddr \in Addr
    /\ pwdata \in Data
    /\ regs \in [Addr -> Data]

BridgeInit ==
    /\ apb_state = "READY"
    /\ hready_resp = TRUE
    /\ hresp = FALSE
    /\ hrdata \in Data
    /\ paddr \in Addr
    /\ pwdata \in Data
    /\ regs \in [Addr -> Data]

aphase_to_dphase(req) ==
    IF req = NoRequest THEN "READY" ELSE IF req.write THEN "WR0" ELSE "RD0"

\* MUTANT: S_READY takes an address phase without looking at HREADY.
ready_nxt_NoHready(req, hready) == aphase_to_dphase(req)

ready_nxt(req, hready) == IF hready THEN aphase_to_dphase(req) ELSE "READY"

\* MUTANT: an access that is refused is repeated.
access_nxt_Retry(pready, pslverr) ==
    IF ~pready \/ pslverr THEN apb_state ELSE "READY"

\* The end of the APB access phase.
access_nxt(pready, pslverr) ==
    IF ~pready THEN apb_state ELSE IF pslverr THEN "ERR0" ELSE "READY"

\* req is the address phase on the bus, hready the bus HREADY; pready and pslverr
\* are the outputs of the APB splitter in this cycle.
apb_state_nxt(req, hready, pready, pslverr) ==
    CASE apb_state = "READY" -> ready_nxt(req, hready)
      [] apb_state = "WR0"   -> "WR1"
      [] apb_state = "WR1"   -> "WR2"
      [] apb_state = "RD0"   -> "RD1"
      [] apb_state \in {"WR2", "RD1"} -> access_nxt(pready, pslverr)
      [] apb_state = "ERR0"  -> "ERR1"
      [] apb_state = "ERR1"  -> aphase_to_dphase(req)

psel == apb_state \in {"RD0", "RD1", "WR1", "WR2"}
penable == apb_state \in {"RD1", "WR2"}
pwrite == apb_state \in {"WR1", "WR2"}

\* MUTANT: HREADY is high only in the cycle that ends a transfer.
hready_nxt_Pulse(nxt) == nxt \in {"READY", "ERR1"} /\ apb_state # "READY"

hready_nxt(nxt) == nxt \in {"READY", "ERR1"}

\* MUTANT: PWDATA is sampled in the setup phase.
pwdata_nxt_Late(hwdata) == IF apb_state = "WR1" THEN hwdata ELSE pwdata

pwdata_nxt(hwdata) == IF apb_state = "WR0" THEN hwdata ELSE pwdata

\* One clock cycle of the bridge and of the registers behind it.
BridgeStep(req, hready, hwdata, pready, pslverr) ==
    LET nxt == apb_state_nxt(req, hready, pready, pslverr)
    IN /\ apb_state' = nxt
       /\ hready_resp' = hready_nxt(nxt)
       /\ hresp' = (nxt \in {"ERR0", "ERR1"})
       /\ paddr' = IF req # NoRequest /\ hready THEN req.addr ELSE paddr
       /\ pwdata' = pwdata_nxt(hwdata)
       /\ hrdata' = IF apb_state = "RD1" /\ pready THEN regs[paddr] ELSE hrdata
       /\ regs' = IF apb_state = "WR2" /\ pready /\ ~pslverr
                  THEN [regs EXCEPT ![paddr] = pwdata] ELSE regs
=============================================================================
