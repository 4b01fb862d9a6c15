----------------------------- MODULE FlashHost ------------------------------
(***************************************************************************)
(* A host of the flash model that sends whole bytes. It keeps to the data  *)
(* sheet: it waits for a running write (and for the wake-up time) with     *)
(* nothing but reads of registers, gives every command its address, erases *)
(* where the model can, and knows when the flash is in continuous mode.    *)
(***************************************************************************)
EXTENDS FlashSim

CONSTANTS HostAddresses,  \* where programs, erases and reads start
          MaxData,        \* the most bytes of data in a transfer
          HostData,       \* the bytes a program may have at each place
          StatusData      \* the bytes it writes to the status registers

ASSUME HostAssumption ==
    /\ HostAddresses \subseteq 0 .. MemBytes - 1 /\ HostAddresses # {}
    /\ MaxData \in Nat \ {0} /\ HostData \in [1 .. MaxData -> SUBSET (0 .. 255)]
    /\ StatusData \subseteq 0 .. 255

VARIABLE host  \* the transfer in progress

Continuous == 256  \* no command byte: an address at once
NoTransfer == [op |-> -1, addr |-> 0, n |-> 0]

Registers == {ReadStatus, ReadConfig, ReadID}
Plain == {WriteEnable, WriteDisable, PowerDown, Release, BulkErase, ClearStatus, 255, 102, 90}
Programs == {PageProgram, QuadProgram}
Reads == {Read, FastRead, DualIO, QuadIO, Continuous}
Ops == Registers \cup Plain \cup Programs \cup Reads \cup {SectorErase, WriteStatus}

Header == IF host.op = Continuous THEN 3
          ELSE IF host.op \in Programs \cup Reads \cup {SectorErase} THEN 4 ELSE 1

\* The number of bytes between the header and the first byte of data.
Gap == CASE host.op = FastRead -> 1 [] host.op = DualIO -> 1 [] host.op = QuadIO -> 3
         [] host.op = Continuous -> IF m_mode = "QSPI" THEN 3 ELSE 1
         [] OTHER -> 0

MinBytes == IF host.op \in Programs THEN Header + 1
            ELSE IF host.op \in Reads THEN Header + Gap ELSE Header

MaxBytes == CASE host.op \in Registers \cup Programs -> Header + MaxData
              [] host.op \in Reads -> Header + Gap + MaxData
              [] host.op = WriteStatus -> Header + 2
              [] OTHER -> Header

\* The address is sent from its high byte on.
AddressByte == (host.addr \div 256^(Header - 1 - host.n)) % 256

\* What the next byte may be.
NextBytes ==
    CASE host.n = 0 /\ host.op # Continuous -> {host.op}
      [] Header > 1 /\ host.n \in Header - 3 .. Header - 1 -> {AddressByte}
      [] host.n = Header /\ host.op \in {DualIO, QuadIO, Continuous} -> {160, 0}
      [] host.n >= Header /\ host.op \in Programs -> HostData[host.n - Header + 1]
      [] host.n >= Header /\ host.op = WriteStatus -> StatusData
      [] OTHER -> {0}

HostStart(op, addr) ==
    /\ host = NoTransfer /\ ~aborted
    /\ op = Continuous <=> m_state \in {"QUAD_READ_IDLE", "DUAL_READ_IDLE"}
    /\ m_write_count => op \in Registers
    /\ op \notin Programs \cup Reads \cup {SectorErase} => addr = CHOOSE a \in HostAddresses : TRUE
    /\ op = SectorErase => addr < EraseLimit
    /\ host' = [op |-> op, addr |-> addr, n |-> 0]
    /\ UNCHANGED flash

HostByte ==
    /\ host # NoTransfer /\ host.n < MaxBytes /\ ~aborted
    /\ \E byte \in NextBytes : FlashByte(byte)
    /\ host' = [host EXCEPT !.n = @ + 1]

HostEnd ==
    /\ host # NoTransfer /\ host.n >= MinBytes /\ ~aborted
    /\ Deselect
    /\ host' = NoTransfer

HostNext ==
    \/ \E op \in Ops, addr \in HostAddresses : HostStart(op, addr)
    \/ HostByte
    \/ HostEnd
    \/ WriteEnds /\ UNCHANGED host

\* Every byte of data the host is given is the memory's, in order.
HostReadsMemory ==
    host.op \in Reads /\ host.n >= Header + Gap /\ DPD \notin m_sreg =>
        LET a == host.addr + host.n - (Header + Gap)
        IN  a \in Address => ByteOut = m_mem[a]
=============================================================================
