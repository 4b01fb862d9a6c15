---------------------------- MODULE AhblCrossbar ----------------------------
(***************************************************************************)
(* The AHB-Lite crossbar of the SoC (busfabric/ahbl_crossbar.v): one       *)
(* ahbl_splitter per master and one ahbl_arbiter per slave, with the       *)
(* masters and the slaves they connect as an environment.                  *)
(*                                                                         *)
(* One step is one clock cycle: the registers of all splitters and         *)
(* arbiters change together, and the inputs of the next cycle (the address *)
(* phase each master drives, the HREADYOUT each slave gives) are chosen.   *)
(* Combinational wires are state functions named after the RTL's wires.    *)
(*                                                                         *)
(* An address phase is abstracted to the slave its address decodes to, the *)
(* other signals that are passed through with it (haddr within the slave,  *)
(* hwrite, hsize, ...) as one value, and a one-bit tag that tells two      *)
(* consecutive transfers of a master apart.                                *)
(***************************************************************************)
EXTENDS Naturals

CONSTANTS Master,            \* port numbers of the masters; lower is higher priority
          Slave,             \* the slaves
          Conn,              \* the connected pairs <<master, slave>> (CONN_MATRIX)
          FAIR_ARBITRATION,  \* the arbiter's parameter; the crossbar leaves it 0
          Control,           \* the values of the signals passed through with an address
          Drives,            \* the pairs <<master, target>> that are ever driven
          Overlapping,       \* masters that may drive an address phase to one slave
                             \* while their data phase is on another
          Unmapped,          \* an address no slave decodes
          NoMaster, NoSlave, \* no bit of a one-hot vector is set
          Idle,              \* HTRANS = IDLE
          Empty              \* a request buffer whose buf_valid bit is 0

ASSUME MasterAssumption == Master \subseteq Nat /\ NoMaster \notin Master
ASSUME SlaveAssumption == NoSlave \notin Slave /\ Unmapped \notin Slave /\ Unmapped # NoSlave
ASSUME ConnAssumption == Conn \subseteq Master \X Slave
ASSUME FairAssumption == FAIR_ARBITRATION \in BOOLEAN
ASSUME OverlappingAssumption == Overlapping \subseteq Master

\* What a master addresses, a transfer of it, and the transfer as its slave has it.
Target == [to : Slave \cup {Unmapped}, ctl : Control]
Transfer == [to : Slave \cup {Unmapped}, ctl : Control, tag : {0, 1}]
Operation == [by : Master, ctl : Control, tag : {0, 1}]

ASSUME DrivesAssumption == Drives \subseteq Master \X Target
ASSUME IdleAssumption == Idle \notin Target \cup Transfer \cup Operation
ASSUME EmptyAssumption == Empty # Idle /\ Empty \notin Transfer

VARIABLES
    slave_sel_d,   \* splitter: the slave a master is in data phase with
    decode_err_d,  \* splitter: the data phase is that of an unmapped address
    err_ph1,       \* splitter: second cycle of the two-cycle ERROR response
    mast_gnt_d,    \* arbiter: the master in data phase with the slave
    buf,           \* arbiter: the accepted request of a master that is not yet issued
    golden_ticket, \* arbiter: the boosted master, if FAIR_ARBITRATION
    aphase,        \* the address phase each master drives in this cycle
    dphase,        \* the transfer each master has in data phase
    tag,           \* the tag of the next new transfer of each master
    op,            \* the transfer each slave has in data phase
    ready,         \* HREADYOUT of each slave in this cycle (dst_hready_resp)
    resp,          \* HRESP of each slave in this cycle (dst_hresp)
    issuedA,       \* how often slaves sampled the transfer in aphase (at most 2)
    issuedD        \* how often slaves sampled the transfer in dphase (at most 2)

splitters == <<slave_sel_d, decode_err_d, err_ph1>>
arbiters == <<mast_gnt_d, buf, golden_ticket>>
environment == <<aphase, dphase, tag, op, ready, resp>>
vars == <<splitters, arbiters, environment, issuedA, issuedD>>

-----------------------------------------------------------------------------
(* Splitter: address decode of a transfer t that master i drives.          *)

slave_sel_a(i, t) ==
    IF t # Idle /\ <<i, t.to>> \in Conn THEN t.to ELSE NoSlave

decode_err_a(t) == t # Idle /\ t.to = Unmapped

-----------------------------------------------------------------------------
(* Data-phase responses: the arbiter's to one master, the splitter's.      *)

\* MUTANT: a master is in data phase only once its request is issued.
mast_in_dphase_NoBuffer(j, i) == mast_gnt_d[j] = i

mast_in_dphase(j, i) == buf[j][i] # Empty \/ mast_gnt_d[j] = i

arb_hready_resp(j, i) ==
    \/ ~mast_in_dphase(j, i)
    \/ mast_gnt_d[j] = i /\ ready[j]

src_hready(i) ==
    IF slave_sel_d[i] = NoSlave
    THEN err_ph1[i] \/ ~decode_err_d[i]
    ELSE arb_hready_resp(slave_sel_d[i], i)

\* MUTANT: the slave's HRESP goes to every master in data phase with it.
arb_hresp_Unmasked(j, i) == resp[j]

arb_hresp(j, i) == mast_gnt_d[j] = i /\ resp[j]

src_hresp(i) ==
    decode_err_d[i] \/ (slave_sel_d[i] # NoSlave /\ arb_hresp(slave_sel_d[i], i))

-----------------------------------------------------------------------------
(* Arbiter: the request of each master, the winner, and whether the slave  *)
(* samples the address phase at the end of this cycle.                     *)

src_request(j, i) ==
    IF slave_sel_a(i, aphase[i]) = j THEN aphase[i] ELSE Idle

actual_request(j, i) ==
    IF buf[j][i] # Empty THEN buf[j][i] ELSE src_request(j, i)

mast_req_a(j) ==
    {i \in Master : actual_request(j, i) # Idle /\ <<i, j>> \in Conn}

\* MUTANT: the highest request wins.
onehot_priority_Highest(R) == CHOOSE i \in R : \A k \in R : i >= k

onehot_priority(R) == CHOOSE i \in R : \A k \in R : i <= k

mast_gnt_a(j) ==
    IF mast_req_a(j) = {} THEN NoMaster
    ELSE IF FAIR_ARBITRATION /\ golden_ticket[j] \in mast_req_a(j) THEN golden_ticket[j]
    ELSE onehot_priority(mast_req_a(j))

\* MUTANT: the slave's own HREADYOUT only, not the master's HREADY.
dst_hready_Always(j) == TRUE

dst_hready(j) == mast_gnt_d[j] # NoMaster => src_hready(mast_gnt_d[j])

\* MUTANT: a request that is issued in this cycle is buffered as well.
buf_wen_AlsoIssued(j, i) == i \in mast_req_a(j) /\ src_hready(i)

\* MUTANT: a request is buffered before HREADY accepts its address phase.
buf_wen_Early(j, i) ==
    i \in mast_req_a(j) /\ ~(mast_gnt_a(j) = i /\ dst_hready(j))

buf_wen(j, i) ==
    /\ i \in mast_req_a(j)
    /\ src_hready(i)
    /\ ~(mast_gnt_a(j) = i /\ dst_hready(j))

\* Slave j samples an address phase of master i at the end of this cycle.
Samples(j, i) == dst_hready(j) /\ mast_gnt_a(j) = i

-----------------------------------------------------------------------------
Init ==
    /\ slave_sel_d = [i \in Master |-> NoSlave]
    /\ decode_err_d = [i \in Master |-> FALSE]
    /\ err_ph1 = [i \in Master |-> FALSE]
    /\ mast_gnt_d = [j \in Slave |-> NoMaster]
    /\ buf = [j \in Slave |-> [i \in Master |-> Empty]]
    /\ golden_ticket \in [Slave -> {i \in Master : \A k \in Master : i <= k}]
    /\ aphase = [i \in Master |-> Idle]
    /\ dphase = [i \in Master |-> Idle]
    /\ tag = [i \in Master |-> 0]
    /\ op = [j \in Slave |-> Idle]
    /\ ready = [j \in Slave |-> TRUE]
    /\ resp = [j \in Slave |-> FALSE]
    /\ issuedA = [i \in Master |-> 0]
    /\ issuedD = [i \in Master |-> 0]

\* MUTANT: err_ph1 is set, not toggled, while an error is answered.
SplitterStep_NoToggle ==
    /\ slave_sel_d' = [i \in Master |->
          IF src_hready(i) THEN slave_sel_a(i, aphase[i]) ELSE slave_sel_d[i]]
    /\ decode_err_d' = [i \in Master |->
          IF src_hready(i) THEN decode_err_a(aphase[i]) ELSE decode_err_d[i]]
    /\ err_ph1' = [i \in Master |-> decode_err_d[i]]

SplitterStep ==
    /\ slave_sel_d' = [i \in Master |->
          IF src_hready(i) THEN slave_sel_a(i, aphase[i]) ELSE slave_sel_d[i]]
    /\ decode_err_d' = [i \in Master |->
          IF src_hready(i) THEN decode_err_a(aphase[i]) ELSE decode_err_d[i]]
    /\ err_ph1' = [i \in Master |-> decode_err_d[i] /\ ~err_ph1[i]]

\* The ticket moves one port up, from the highest port to the lowest.
NextTicket(i) ==
    LET above == {k \in Master : k > i}
    IN IF above = {} THEN onehot_priority(Master) ELSE onehot_priority(above)

\* MUTANT: the request stays in the buffer when it is issued.
ArbiterStep_KeepBuffer ==
    /\ mast_gnt_d' = [j \in Slave |->
          IF dst_hready(j) THEN mast_gnt_a(j) ELSE mast_gnt_d[j]]
    /\ buf' = [j \in Slave |-> [i \in Master |->
          IF buf_wen(j, i) THEN src_request(j, i) ELSE buf[j][i]]]
    /\ UNCHANGED golden_ticket

ArbiterStep ==
    /\ mast_gnt_d' = [j \in Slave |->
          IF dst_hready(j) THEN mast_gnt_a(j) ELSE mast_gnt_d[j]]
    /\ buf' = [j \in Slave |-> [i \in Master |->
          IF buf_wen(j, i) THEN src_request(j, i)
          ELSE IF Samples(j, i) THEN Empty
          ELSE buf[j][i]]]
    /\ golden_ticket' = [j \in Slave |->
          IF FAIR_ARBITRATION /\ ready[j] THEN NextTicket(golden_ticket[j])
          ELSE golden_ticket[j]]

\* A master keeps an address phase until HREADY accepts it, and drives a new
\* transfer or IDLE after that. Only an overlapping master drives a transfer to
\* one slave while its data phase is still on another.
Holds(i) == ~src_hready(i) /\ aphase[i] # Idle

NextDphase(i) == IF src_hready(i) THEN aphase[i] ELSE dphase[i]

Targets(i) ==
    {t \in {d[2] : d \in Drives} :
        /\ <<i, t>> \in Drives
        /\ i \in Overlapping \/ NextDphase(i) = Idle \/ NextDphase(i).to = t.to}

MasterStep ==
    /\ dphase' = [i \in Master |-> NextDphase(i)]
    /\ \E new \in [{i \in Master : ~Holds(i)} -> {d[2] : d \in Drives} \cup {Idle}] :
          /\ \A i \in DOMAIN new : new[i] \in Targets(i) \cup {Idle}
          /\ aphase' = [i \in Master |->
                IF i \notin DOMAIN new THEN aphase[i]
                ELSE IF new[i] = Idle THEN Idle
                ELSE [to |-> new[i].to, ctl |-> new[i].ctl, tag |-> tag[i]]]
          /\ tag' = [i \in Master |->
                IF i \in DOMAIN new /\ new[i] # Idle THEN 1 - tag[i] ELSE tag[i]]

\* A slave latches the address phase when its HREADY input is high.
OperationOf(i, t) == [by |-> i, ctl |-> t.ctl, tag |-> t.tag]

SlaveLatch ==
    op' = [j \in Slave |->
       IF ~dst_hready(j) THEN op[j]
       ELSE IF mast_gnt_a(j) = NoMaster THEN Idle
       ELSE OperationOf(mast_gnt_a(j), actual_request(j, mast_gnt_a(j)))]

\* It answers a transfer after any number of wait states, with OKAY or with the
\* ERROR of AHB-Lite: a cycle of HRESP with HREADYOUT low, then one with it high.
\* Without a transfer it is ready and drives no HRESP.
ErrorBegun(j) == ~dst_hready(j) /\ resp[j] /\ ~ready[j]

Undecided(j) == op'[j] # Idle /\ ~ErrorBegun(j)

ReadyNext(answer, j) == j \in DOMAIN answer => answer[j] = "OKAY"

RespNext(answer, j) == IF j \in DOMAIN answer THEN answer[j] = "ERROR" ELSE ErrorBegun(j)

SlaveAnswer ==
    \E answer \in [{j \in Slave : Undecided(j)} -> {"WAIT", "OKAY", "ERROR"}] :
       /\ ready' = [j \in Slave |-> ReadyNext(answer, j)]
       /\ resp' = [j \in Slave |-> RespNext(answer, j)]

\* Count the samples of a transfer: a sample through the buffer is of the
\* transfer in data phase, a sample of the live signals of the one in aphase.
Cap(n) == IF n > 2 THEN 2 ELSE n
SampledLive(i) == IF \E j \in Slave : Samples(j, i) /\ buf[j][i] = Empty THEN 1 ELSE 0
SampledBuf(i) == IF \E j \in Slave : Samples(j, i) /\ buf[j][i] # Empty THEN 1 ELSE 0

CountStep ==
    /\ issuedA' = [i \in Master |->
          IF src_hready(i) THEN 0 ELSE Cap(issuedA[i] + SampledLive(i))]
    /\ issuedD' = [i \in Master |->
          IF src_hready(i) THEN Cap(issuedA[i] + SampledLive(i))
          ELSE Cap(issuedD[i] + SampledBuf(i))]

Clock ==
    /\ SplitterStep /\ ArbiterStep /\ CountStep
    /\ SlaveLatch /\ MasterStep /\ SlaveAnswer

Next == Clock

Spec == Init /\ [][Next]_vars

-----------------------------------------------------------------------------
TypeOK ==
    /\ slave_sel_d \in [Master -> Slave \cup {NoSlave}]
    /\ decode_err_d \in [Master -> BOOLEAN]
    /\ err_ph1 \in [Master -> BOOLEAN]
    /\ mast_gnt_d \in [Slave -> Master \cup {NoMaster}]
    /\ buf \in [Slave -> [Master -> Transfer \cup {Idle, Empty}]]
    /\ golden_ticket \in [Slave -> Master]
    /\ aphase \in [Master -> Transfer \cup {Idle}]
    /\ dphase \in [Master -> Transfer \cup {Idle}]
    /\ tag \in [Master -> {0, 1}]
    /\ op \in [Slave -> Operation \cup {Idle}]
    /\ ready \in [Slave -> BOOLEAN]
    /\ resp \in [Slave -> BOOLEAN]
    /\ issuedA \in [Master -> 0..2]
    /\ issuedD \in [Master -> 0..2]

\* The data phase of master i on a slave ends in this cycle.
Completes(i) == src_hready(i) /\ slave_sel_d[i] # NoSlave

\* Every transfer of a master that does not overlap slaves reaches its slave
\* exactly once: never before HREADY accepts it, and exactly once by the time
\* its data phase ends, whatever the arbitration, the buffering and the other
\* masters (the overlapping ones included) do. ahbl_arbiter.v:187-225.
IssuedExactlyOnce ==
    \A i \in Master \ Overlapping :
        /\ issuedA[i] = 0
        /\ Completes(i) => issuedD[i] = 1

\* When any master sees HREADY at the end of a data phase on a slave, that slave
\* is answering this very transfer, as its address phase had it: not an older one
\* of the same master, not one of another master, and not while the request still
\* waits in a buffer.
AnswerIsForTransfer ==
    \A i \in Master :
        Completes(i) =>
           /\ op[slave_sel_d[i]] = OperationOf(i, dphase[i])
           /\ ready[slave_sel_d[i]]

\* As long as a slave has a transfer in data phase, the write-data mux
\* (ahbl_arbiter.v:241-248, selected by mast_gnt_d) shows it the master of that
\* transfer, and a master that does not overlap is driving that transfer's data.
WriteDataIsForTransfer ==
    \A j \in Slave : op[j] # Idle =>
        /\ mast_gnt_d[j] = op[j].by
        /\ op[j].by \notin Overlapping =>
              dphase[op[j].by] = [to |-> j, ctl |-> op[j].ctl, tag |-> op[j].tag]

\* A buffered request is the one its master has in data phase, and that master
\* is stalled: so buf_wen never overwrites a request that was not issued.
BufferIsStalledTransfer ==
    \A j \in Slave, i \in Master : buf[j][i] # Empty =>
        /\ slave_sel_d[i] = j
        /\ buf[j][i] = dphase[i]
        /\ ~src_hready(i)

\* Master k waits in the buffer of slave a, whose data phase master i holds, and
\* i waits in the buffer of slave b, whose data phase k holds.
CircularWait(i, k, a, b) ==
    /\ buf[a][k] # Empty /\ mast_gnt_d[a] = i
    /\ buf[b][i] # Empty /\ mast_gnt_d[b] = k

\* No two masters wait for each other, and none waits behind itself. A slave's
\* dst_hready is the HREADY of the master that holds it, so such a cycle would
\* never be left. ahbl_arbiter.v:185.
NoCircularWait ==
    \A i, k \in Master, a, b \in Slave : ~CircularWait(i, k, a, b)

\* A master sees HRESP for its own transfer and no other: the address in its data
\* phase is unmapped, or the slave it is in data phase with answers this very
\* transfer with ERROR (and not that of the master it waits for in a buffer). A
\* master that does not overlap sees every ERROR a slave gives to a transfer of it.
\* ahbl_arbiter.v:237, ahbl_splitter.v:170-171.
ErrorIsForTransfer ==
    /\ \A i \in Master : src_hresp(i) =>
          \/ dphase[i] # Idle /\ dphase[i].to = Unmapped
          \/ \E j \in Slave :
                /\ slave_sel_d[i] = j
                /\ op[j] = OperationOf(i, dphase[i])
                /\ resp[j]
    /\ \A j \in Slave : resp[j] /\ op[j].by \notin Overlapping => src_hresp(op[j].by)

\* Every ERROR a master sees is the two-cycle response of AHB-Lite, whoever gives
\* it: a cycle with HREADY low and then one with HREADY high, HRESP high in both
\* and no HRESP with HREADY high without the cycle before it. An unmapped access
\* gets one, also when several follow each other. ahbl_splitter.v:141-147,168-171,
\* ahbl_arbiter.v:236-237.
TwoCycleError ==
    [][\A i \in Master :
          /\ src_hready(i) /\ decode_err_a(aphase[i]) => (src_hresp(i) /\ ~src_hready(i))'
          /\ src_hresp(i) /\ ~src_hready(i) => (src_hresp(i) /\ src_hready(i))'
          /\ (src_hresp(i) /\ src_hready(i))' => src_hresp(i) /\ ~src_hready(i)]_vars

-----------------------------------------------------------------------------
\* A lower port is granted at the slave master i waits for.
Outranked(i) ==
    \E j \in Slave, k \in Master : slave_sel_d[i] = j /\ k < i /\ Samples(j, k)

\* With strict priority a master is stalled forever only if lower ports take its
\* slave again and again: never by a request that is lost in a buffer, by a slave
\* that is left without a transfer, or by a port above its own; so the lowest port
\* never starves. ahbl_arbiter.v:168-177,185-225.
PriorityOnlyStarves == \A i \in Master : []<>(src_hready(i) \/ Outranked(i))
=============================================================================
