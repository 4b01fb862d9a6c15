---------------------------- MODULE MCXbarBridge ----------------------------
(***************************************************************************)
(* Two masters that reach sram and the bridge, and the registers behind    *)
(* it. Accesses to sram carry one request, the bridge sees all of them.    *)
(***************************************************************************)
EXTENDS XbarBridge

CONSTANTS sram, ctrl, hole

VARIABLE clk  \* changes in every clock, so that a clock in which no register does is a step

FullConn == Master \X Slave
WriteData == Operation \cup {Idle}

Access(s, a, w) == [to |-> s, ctl |-> [addr |-> a, write |-> w]]

\* The upper master reads ctrl, the lower one writes it and runs into a hole.
BridgeDrives ==
    {<<i, Access(sram, ctrl, FALSE)>> : i \in Master} \cup
    {<<0, Access(apb, ctrl, FALSE)>>, <<1, Access(apb, ctrl, TRUE)>>,
     <<1, Access(apb, hole, FALSE)>>}

mcVars == <<socVars, clk>>
ClockedInit == SocInit /\ clk = 0
ClockedNext == SocNext /\ clk' = 1 - clk
ClockedSpec == ClockedInit /\ [][ClockedNext]_mcVars

\* The clock runs, a peripheral is not kept waiting for ever, and the other slaves are
\* ready again and again. The bridge's own HREADYOUT is not assumed.
ClockedLiveSpec ==
    /\ ClockedSpec
    /\ []<><<PeripheralReady>>_mcVars
    /\ \A j \in Slave \ {apb} : []<>ready[j]
=============================================================================
