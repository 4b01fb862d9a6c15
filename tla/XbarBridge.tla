----------------------------- MODULE XbarBridge -----------------------------
(***************************************************************************)
(* The crossbar with the real APB bridge in one of its slave positions     *)
(* (kws_soc.v:546-626,686-716): the bridge's HREADY, address phase and     *)
(* write data are the wires the arbiter drives, and the arbiter's          *)
(* dst_hready_resp and dst_hresp are the bridge's registered HREADYOUT and *)
(* HRESP. What an address phase carries is a register and a direction; the *)
(* data of a write is named by its transfer.                               *)
(***************************************************************************)
EXTENDS AhblCrossbar, ApbBridge

CONSTANTS apb,     \* the bridge's position
          Decoded  \* the addresses of the registers; the others are holes

ASSUME ApbAssumption == apb \in Slave
ASSUME DecodedAssumption == Decoded \subseteq Addr
ASSUME ControlAssumption == Control = Request

socVars == <<vars, bridge>>

SocInit == Init /\ BridgeInit /\ pwdata = Idle /\ hrdata = Idle /\ regs = [a \in Addr |-> Idle]

\* MUTANT: HADDR and HWRITE are those the granted master drives, also when its
\* request comes from the buffer.
dst_request_Live(j) ==
    IF mast_gnt_a(j) = NoMaster THEN NoRequest
    ELSE IF aphase[mast_gnt_a(j)] # Idle THEN aphase[mast_gnt_a(j)].ctl
    ELSE actual_request(j, mast_gnt_a(j)).ctl

\* dst_htrans, dst_hwrite and dst_haddr of an arbiter.
dst_request(j) ==
    IF mast_gnt_a(j) = NoMaster THEN NoRequest
    ELSE actual_request(j, mast_gnt_a(j)).ctl

\* The data a master drives: that of its transfer in data phase.
src_hwdata(i) == IF dphase[i] = Idle THEN Idle ELSE OperationOf(i, dphase[i])

\* MUTANT: the write data is selected by the address-phase grant.
dst_hwdata_Early(j) ==
    IF mast_gnt_a(j) = NoMaster THEN Idle ELSE src_hwdata(mast_gnt_a(j))

dst_hwdata(j) ==
    IF mast_gnt_d[j] = NoMaster THEN Idle ELSE src_hwdata(mast_gnt_d[j])

\* PREADY and PSLVERR of the APB splitter. A hole is ready with an error at once; a
\* peripheral may wait and may answer with an error, which is PSLVERR with PREADY.
\* The bridge looks at them in the access phase only.
\* MUTANT: a hole is answered as a register is.
SplitterAnswers_NoHoles ==
    IF penable THEN {<<FALSE, FALSE>>, <<TRUE, FALSE>>, <<TRUE, TRUE>>}
    ELSE {<<TRUE, FALSE>>}

SplitterAnswers ==
    IF paddr \notin Decoded THEN {<<TRUE, TRUE>>}
    ELSE IF penable THEN {<<FALSE, FALSE>>, <<TRUE, FALSE>>, <<TRUE, TRUE>>}
    ELSE {<<TRUE, FALSE>>}

\* The bridge's answer, and those of the other slaves.
SocAnswer ==
    \E answer \in [{j \in Slave \ {apb} : Undecided(j)} -> {"WAIT", "OKAY", "ERROR"}] :
       /\ ready' = [j \in Slave |-> IF j = apb THEN hready_resp' ELSE ReadyNext(answer, j)]
       /\ resp' = [j \in Slave |-> IF j = apb THEN hresp' ELSE RespNext(answer, j)]

SocClock(pready, pslverr) ==
    /\ SplitterStep /\ ArbiterStep /\ CountStep /\ SlaveLatch
    /\ BridgeStep(dst_request(apb), dst_hready(apb), dst_hwdata(apb), pready, pslverr)
    /\ MasterStep /\ SocAnswer

SocNext == \E a \in SplitterAnswers : SocClock(a[1], a[2])

SocSpec == SocInit /\ [][SocNext]_socVars

\* A clock in which the bridge does what it does with PREADY high.
PeripheralReady ==
    \E a \in SplitterAnswers :
        a[1] /\ BridgeStep(dst_request(apb), dst_hready(apb), dst_hwdata(apb), a[1], a[2])

-----------------------------------------------------------------------------
\* The bridge is a slave as the crossbar model assumes one: what it does with
\* HREADYOUT and HRESP is allowed by SlaveAnswer, its wait states, its ERROR and its
\* next transfer right after an ERROR included. The rest of SocClock is that of
\* Clock, so every property of AhblCrossbar holds of the composition.
\* ahbl_to_apb.v:55-83.
BridgeIsCrossbarSlave == [][SlaveAnswer]_vars

\* Whenever the bridge writes a register, it is the register the transfer its arbiter
\* has in data phase addresses, that transfer is a write, and the data is its own.
\* ahbl_to_apb.v:104-118, ahbl_arbiter.v:241-273.
WritesItsOwnData ==
    pwrite => /\ pwdata = op[apb]
              /\ op[apb] # Idle /\ op[apb].ctl = [addr |-> paddr, write |-> TRUE]

\* The data phase of master i on the bridge ends with OKAY.
EndsOkay(i) == Completes(i) /\ slave_sel_d[i] = apb /\ ~src_hresp(i)

\* When a master that does not overlap sees HREADY without HRESP at the end of an
\* access to the bridge, the register it addressed, whichever address was on the bus
\* meanwhile, holds its data after a write, and is what HRDATA shows after a read.
\* ahbl_arbiter.v:236-273, ahbl_to_apb.v:69-133.
AccessHasLanded ==
    \A i \in Master \ Overlapping : EndsOkay(i) =>
        LET held == regs[dphase[i].ctl.addr]
        IN IF dphase[i].ctl.write THEN held = OperationOf(i, dphase[i]) ELSE held = hrdata

\* A hole of the APB address map answers ERROR to the master that accessed it: from
\* the splitter's PSLVERR through the bridge, the arbiter and the splitter of the
\* master. apb_splitter.v:38-39, ahbl_to_apb.v:60-66, ahbl_arbiter.v:237.
HoleGivesError ==
    \A i \in Master \ Overlapping : EndsOkay(i) => dphase[i].ctl.addr \in Decoded
=============================================================================
