--------------------------- MODULE MCAhblCrossbar ---------------------------
(***************************************************************************)
(* Small instances of the crossbar. Master numbers are the SoC's: 0 the    *)
(* instruction port, 1 the data port, 2 the DMA controller, 3 the          *)
(* convolution accelerator.                                                *)
(***************************************************************************)
EXTENDS AhblCrossbar

CONSTANTS sram, apb

\* The rows of the SoC's connection matrix for sram and the APB bridge: the
\* instruction port is not connected to the bridge.
SocConn == {<<0, sram>>, <<1, sram>>, <<1, apb>>, <<2, sram>>, <<2, apb>>}

FullConn == Master \X Slave

\* Every master drives every address it is connected to; the instruction port
\* also runs into the bridge (mapped, but not connected) and the data port into
\* a hole of the address map.
SocDrives ==
    {<<c[1], [to |-> c[2], ctl |-> q]>> :
        c \in SocConn \cup {<<0, apb>>, <<1, Unmapped>>}, q \in Control}

FullDrives == {<<c[1], [to |-> c[2], ctl |-> q]>> : c \in FullConn, q \in Control}
=============================================================================
