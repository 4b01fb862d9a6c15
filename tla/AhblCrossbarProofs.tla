------------------------- MODULE AhblCrossbarProofs -------------------------
(***************************************************************************)
(* Theorems about the crossbar, for any number of masters and slaves, any  *)
(* connection matrix, either arbitration and any set of overlapping        *)
(* masters.                                                                *)
(***************************************************************************)
EXTENDS AhblCrossbar, FiniteSetTheorems, WellFoundedInduction, TLAPS

-----------------------------------------------------------------------------
(* The priority encoder.                                                   *)

Below(R, i) == {k \in R : k < i}

\* A nonempty set of ports has a lowest one: the sets of the ports below each
\* port are finite, and one of them is minimal.
LEMMA LeastPort ==
    ASSUME NEW R \in SUBSET Nat, R # {}
    PROVE  \E i \in R : \A k \in R : i <= k
<1> DEFINE Downs == {Below(R, i) : i \in R}
<1>1. \A i \in R : i \in Nat
  OBVIOUS
<1>2. Downs \subseteq FiniteSubsetsOf(Nat) /\ Downs # {}
  <2>1. ASSUME NEW i \in R PROVE Below(R, i) \in FiniteSubsetsOf(Nat)
    <3>1. Below(R, i) \in SUBSET Nat /\ i \in Nat
      BY DEF Below
    <3>2. \A k \in Below(R, i) : k <= i
      BY <1>1 DEF Below
    <3>3. IsFiniteSet(Below(R, i))
      BY <3>1, <3>2, FS_BoundedSetOfNaturals
    <3>4. QED
      BY <3>1, <3>3 DEF FiniteSubsetsOf
  <2>2. QED
    BY <2>1
<1>3. PICK T \in Downs : \A U \in Downs : <<U, T>> \notin StrictSubsetOrdering(Nat)
  <2> HIDE DEF Downs
  <2>1. QED
    BY <1>2, FS_StrictSubsetOrderingWellFounded, WFMin
<1>4. PICK i \in R : T = Below(R, i)
  OBVIOUS
<1>5. ASSUME NEW k \in R, k < i PROVE FALSE
  <2>1. k \in Below(R, i) /\ k \notin Below(R, k)
    BY <1>5, <1>1 DEF Below
  <2>2. ASSUME NEW m \in R, m < k PROVE m < i
    BY <1>1, <1>5, <2>2
  <2>3. Below(R, k) \subseteq Below(R, i)
    BY <2>2 DEF Below
  <2>4. Below(R, k) \in SUBSET Nat /\ Below(R, i) \in SUBSET Nat
    BY <1>1 DEF Below
  <2>5. <<Below(R, k), Below(R, i)>> \in StrictSubsetOrdering(Nat)
    BY <2>1, <2>3, <2>4 DEF StrictSubsetOrdering
  <2>6. QED
    BY <1>3, <1>4, <2>5
<1>6. QED
  BY <1>1, <1>5

LEMMA PriorityType ==
    ASSUME NEW R \in SUBSET Master, R # {}
    PROVE  onehot_priority(R) \in R
<1>1. \E i \in R : \A k \in R : i <= k
  BY LeastPort, MasterAssumption
<1>2. QED
  BY <1>1 DEF onehot_priority

\* The arbiter grants a requesting master, or none if there is no request.
LEMMA GrantType ==
    ASSUME NEW j \in Slave
    PROVE  /\ mast_gnt_a(j) \in mast_req_a(j) \cup {NoMaster}
           /\ mast_gnt_a(j) = NoMaster <=> mast_req_a(j) = {}
<1>1. mast_req_a(j) \in SUBSET Master
  BY DEF mast_req_a
<1>2. mast_req_a(j) # {} => onehot_priority(mast_req_a(j)) \in mast_req_a(j)
  BY <1>1, PriorityType
<1>3. QED
  BY <1>1, <1>2, MasterAssumption DEF mast_gnt_a

LEMMA TicketType ==
    ASSUME NEW i \in Master
    PROVE  NextTicket(i) \in Master
<1> DEFINE above == {k \in Master : k > i}
<1>1. above \in SUBSET Master /\ Master # {}
  OBVIOUS
<1>2. above # {} => onehot_priority(above) \in Master
  BY <1>1, PriorityType
<1>3. onehot_priority(Master) \in Master
  BY <1>1, PriorityType
<1>4. QED
  BY <1>2, <1>3 DEF NextTicket

-----------------------------------------------------------------------------
(* Type correctness.                                                       *)

LEMMA DecodeType ==
    ASSUME NEW i \in Master, NEW t
    PROVE  slave_sel_a(i, t) \in Slave \cup {NoSlave} /\ decode_err_a(t) \in BOOLEAN
BY ConnAssumption DEF slave_sel_a, decode_err_a

LEMMA RequestType ==
    ASSUME TypeOK, NEW j \in Slave, NEW i \in Master
    PROVE  /\ src_request(j, i) \in Transfer \cup {Idle}
           /\ actual_request(j, i) \in Transfer \cup {Idle}
<1>1. aphase[i] \in Transfer \cup {Idle} /\ buf[j][i] \in Transfer \cup {Idle, Empty}
  BY DEF TypeOK
<1>2. src_request(j, i) \in Transfer \cup {Idle}
  BY <1>1 DEF src_request
<1>3. QED
  BY <1>1, <1>2 DEF actual_request

LEMMA DrivenTarget == {d[2] : d \in Drives} \subseteq Target
BY DrivesAssumption

LEMMA InitType == Init => TypeOK
<1> SUFFICES ASSUME Init PROVE TypeOK
  OBVIOUS
<1>1. golden_ticket \in [Slave -> Master]
  BY DEF Init
<1>2. QED
  BY <1>1 DEF Init, TypeOK

LEMMA StepType == TypeOK /\ [Next]_vars => TypeOK'
<1> SUFFICES ASSUME TypeOK, [Next]_vars PROVE TypeOK'
  OBVIOUS
<1>1. CASE UNCHANGED vars
  BY <1>1 DEF TypeOK, vars, splitters, arbiters, environment
<1>2. CASE Next
  <2> USE <1>2 DEF Next, Clock
  <2>1. /\ slave_sel_d' \in [Master -> Slave \cup {NoSlave}]
        /\ decode_err_d' \in [Master -> BOOLEAN]
        /\ err_ph1' \in [Master -> BOOLEAN]
    <3>1. \A i \in Master : /\ slave_sel_d[i] \in Slave \cup {NoSlave}
                            /\ decode_err_d[i] \in BOOLEAN /\ err_ph1[i] \in BOOLEAN
      BY DEF TypeOK
    <3>2. \A i \in Master : /\ slave_sel_a(i, aphase[i]) \in Slave \cup {NoSlave}
                            /\ decode_err_a(aphase[i]) \in BOOLEAN
      BY DecodeType
    <3>3. QED
      BY <3>1, <3>2 DEF SplitterStep
  <2>2. mast_gnt_d' \in [Slave -> Master \cup {NoMaster}]
    <3>1. \A j \in Slave : mast_gnt_a(j) \in Master \cup {NoMaster}
      BY GrantType DEF mast_req_a
    <3>2. QED
      BY <3>1 DEF ArbiterStep, TypeOK
  <2>3. buf' \in [Slave -> [Master -> Transfer \cup {Idle, Empty}]]
    <3>1. \A j \in Slave, i \in Master :
            /\ src_request(j, i) \in Transfer \cup {Idle}
            /\ buf[j][i] \in Transfer \cup {Idle, Empty}
      BY RequestType DEF TypeOK
    <3>2. QED
      BY <3>1 DEF ArbiterStep
  <2>4. golden_ticket' \in [Slave -> Master]
    BY TicketType DEF ArbiterStep, TypeOK
  <2>5. dphase' \in [Master -> Transfer \cup {Idle}]
    BY DEF MasterStep, NextDphase, TypeOK
  <2>6. aphase' \in [Master -> Transfer \cup {Idle}] /\ tag' \in [Master -> {0, 1}]
    <3> DEFINE D == {d[2] : d \in Drives}
               Free == {i \in Master : ~Holds(i)}
    <3>1. PICK new \in [Free -> D \cup {Idle}] :
            /\ aphase' = [i \in Master |->
                  IF i \notin DOMAIN new THEN aphase[i]
                  ELSE IF new[i] = Idle THEN Idle
                  ELSE [to |-> new[i].to, ctl |-> new[i].ctl, tag |-> tag[i]]]
            /\ tag' = [i \in Master |->
                  IF i \in DOMAIN new /\ new[i] # Idle THEN 1 - tag[i] ELSE tag[i]]
      BY DEF MasterStep
    <3>2. \A i \in Master : tag[i] \in {0, 1} /\ aphase[i] \in Transfer \cup {Idle}
      BY DEF TypeOK
    <3>3. \A i \in Free : new[i] # Idle =>
            [to |-> new[i].to, ctl |-> new[i].ctl, tag |-> tag[i]] \in Transfer
      <4>1. SUFFICES ASSUME NEW i \in Free, new[i] # Idle
                     PROVE  [to |-> new[i].to, ctl |-> new[i].ctl, tag |-> tag[i]] \in Transfer
        OBVIOUS
      <4>2. new[i] \in Target
        BY <3>1, <4>1, DrivenTarget
      <4>3. QED
        BY <3>2, <4>2 DEF Target, Transfer
    <3>4. \A i \in Master : 1 - tag[i] \in {0, 1}
      BY <3>2
    <3>5. QED
      BY <3>1, <3>2, <3>3, <3>4
  <2>7. op' \in [Slave -> Operation \cup {Idle}]
    <3>1. ASSUME NEW j \in Slave, mast_gnt_a(j) # NoMaster
          PROVE  OperationOf(mast_gnt_a(j), actual_request(j, mast_gnt_a(j))) \in Operation
      <4>1. /\ mast_gnt_a(j) \in Master
            /\ actual_request(j, mast_gnt_a(j)) # Idle
        BY <3>1, GrantType DEF mast_req_a
      <4>2. actual_request(j, mast_gnt_a(j)) \in Transfer
        BY <4>1, RequestType
      <4>3. QED
        BY <4>1, <4>2 DEF Transfer, Operation, OperationOf
    <3>2. QED
      BY <3>1 DEF SlaveLatch, TypeOK
  <2>8. ready' \in [Slave -> BOOLEAN] /\ resp' \in [Slave -> BOOLEAN]
    <3>1. PICK answer \in [{j \in Slave : Undecided(j)} -> {"WAIT", "OKAY", "ERROR"}] :
            /\ ready' = [j \in Slave |-> ReadyNext(answer, j)]
            /\ resp' = [j \in Slave |-> RespNext(answer, j)]
      BY DEF SlaveAnswer
    <3>2. ASSUME NEW j \in Slave
          PROVE  ReadyNext(answer, j) \in BOOLEAN /\ RespNext(answer, j) \in BOOLEAN
      BY DEF ReadyNext, RespNext, ErrorBegun
    <3>3. QED
      BY <3>1, <3>2
  <2>9. issuedA' \in [Master -> 0..2] /\ issuedD' \in [Master -> 0..2]
    <3>1. \A n \in 0..2, m \in 0..1 : Cap(n + m) \in 0..2
      BY DEF Cap
    <3>2. \A i \in Master : SampledLive(i) \in 0..1 /\ SampledBuf(i) \in 0..1
      BY DEF SampledLive, SampledBuf
    <3>3. \A i \in Master : issuedA[i] \in 0..2 /\ issuedD[i] \in 0..2
      BY DEF TypeOK
    <3>4. QED
      BY <3>1, <3>2, <3>3 DEF CountStep
  <2>10. QED
    BY <2>1, <2>2, <2>3, <2>4, <2>5, <2>6, <2>7, <2>8, <2>9 DEF TypeOK
<1>3. QED
  BY <1>1, <1>2

\* Every register and every wire of the crossbar keeps its type.
THEOREM TypeCorrect == Spec => []TypeOK
BY InitType, StepType, PTL DEF Spec

-----------------------------------------------------------------------------
(* The inductive invariant.                                                *)

\* A splitter has the data phase its master has.
DataPhaseMatches ==
    \A i \in Master :
        /\ slave_sel_d[i] = slave_sel_a(i, dphase[i])
        /\ decode_err_d[i] = decode_err_a(dphase[i])
        /\ err_ph1[i] => decode_err_d[i]

\* A master without overlapping slaves drives the slave its data phase is on.
NoOverlap ==
    \A i \in Master \ Overlapping :
        aphase[i] # Idle /\ dphase[i] # Idle => aphase[i].to = dphase[i].to

\* A buffered request is the transfer its master has in data phase.
BufferedInDphase ==
    \A j \in Slave, i \in Master : buf[j][i] # Empty =>
        slave_sel_d[i] = j /\ buf[j][i] = dphase[i] /\ mast_gnt_d[j] # i

\* A data phase on a slave is issued to it or waits in its buffer.
IssuedOrBuffered ==
    \A i \in Master : slave_sel_d[i] # NoSlave =>
        mast_gnt_d[slave_sel_d[i]] = i \/ buf[slave_sel_d[i]][i] # Empty

\* What a slave serves for master i is its data phase, or an address phase that
\* was sampled before HREADY accepted it; only an overlapping master has those.
Serving(j, i) ==
    /\ slave_sel_d[i] = j
    /\ op[j] = OperationOf(i, dphase[i])

ServingEarly(j, i) ==
    /\ i \in Overlapping
    /\ slave_sel_d[i] # j
    /\ aphase[i] # Idle /\ slave_sel_a(i, aphase[i]) = j
    /\ op[j] = OperationOf(i, aphase[i])

GrantServes ==
    \A j \in Slave :
        /\ mast_gnt_d[j] = NoMaster => op[j] = Idle
        /\ \A i \in Master : mast_gnt_d[j] = i => Serving(j, i) \/ ServingEarly(j, i)

\* A slave drives HRESP for a transfer only.
RespServes == \A j \in Slave : resp[j] => op[j] # Idle

\* The count of samples agrees with the registers of the arbiter.
CountMatches ==
    \A i \in Master \ Overlapping :
        /\ issuedA[i] = 0
        /\ slave_sel_d[i] # NoSlave =>
              issuedD[i] = IF mast_gnt_d[slave_sel_d[i]] = i THEN 1 ELSE 0

IndInv ==
    /\ TypeOK
    /\ DataPhaseMatches
    /\ NoOverlap
    /\ BufferedInDphase
    /\ IssuedOrBuffered
    /\ GrantServes
    /\ RespServes
    /\ CountMatches

-----------------------------------------------------------------------------
(* What one clock cycle does to one master and one slave.                  *)

\* A stalled master keeps its data phase, and its address phase unless IDLE; an
\* unstalled one moves its address phase on.
LEMMA MasterCycle ==
    ASSUME Next, NEW i \in Master
    PROVE  /\ src_hready(i) => dphase'[i] = aphase[i]
           /\ ~src_hready(i) => dphase'[i] = dphase[i]
           /\ ~src_hready(i) /\ aphase[i] # Idle => aphase'[i] = aphase[i]
<1>1. dphase' = [k \in Master |-> NextDphase(k)]
  BY DEF Next, Clock, MasterStep
<1>2. PICK new \in [{k \in Master : ~Holds(k)} -> {d[2] : d \in Drives} \cup {Idle}] :
         aphase' = [k \in Master |->
                  IF k \notin DOMAIN new THEN aphase[k]
                  ELSE IF new[k] = Idle THEN Idle
                  ELSE [to |-> new[k].to, ctl |-> new[k].ctl, tag |-> tag[k]]]
  BY DEF Next, Clock, MasterStep
<1>3. QED
  BY <1>1, <1>2 DEF NextDphase, Holds

LEMMA SplitterCycle ==
    ASSUME Next, NEW i \in Master
    PROVE  /\ src_hready(i) => /\ slave_sel_d'[i] = slave_sel_a(i, aphase[i])
                               /\ decode_err_d'[i] = decode_err_a(aphase[i])
           /\ ~src_hready(i) => /\ slave_sel_d'[i] = slave_sel_d[i]
                                /\ decode_err_d'[i] = decode_err_d[i]
           /\ err_ph1'[i] = (decode_err_d[i] /\ ~err_ph1[i])
BY DEF Next, Clock, SplitterStep

LEMMA SlaveCycle ==
    ASSUME Next, NEW j \in Slave
    PROVE  /\ dst_hready(j) => mast_gnt_d'[j] = mast_gnt_a(j)
           /\ ~dst_hready(j) => mast_gnt_d'[j] = mast_gnt_d[j] /\ op'[j] = op[j]
           /\ dst_hready(j) /\ mast_gnt_a(j) = NoMaster => op'[j] = Idle
           /\ \A i \in Master : Samples(j, i) =>
                 op'[j] = OperationOf(i, actual_request(j, i))
BY MasterAssumption DEF Next, Clock, ArbiterStep, SlaveLatch, Samples

\* An ERROR answer has a first cycle with HREADYOUT low and only then a second.
LEMMA AnswerCycle ==
    ASSUME Next, NEW j \in Slave
    PROVE  /\ ErrorBegun(j) => ready'[j] /\ resp'[j]
           /\ ready'[j] /\ resp'[j] => ErrorBegun(j)
           /\ resp'[j] => op'[j] # Idle \/ ErrorBegun(j)
<1>1. PICK answer \in [{k \in Slave : Undecided(k)} -> {"WAIT", "OKAY", "ERROR"}] :
         /\ ready' = [k \in Slave |-> ReadyNext(answer, k)]
         /\ resp' = [k \in Slave |-> RespNext(answer, k)]
  BY DEF Next, Clock, SlaveAnswer
<1>2. j \in DOMAIN answer <=> op'[j] # Idle /\ ~ErrorBegun(j)
  BY DEF Undecided
<1>3. /\ ready'[j] <=> (j \in DOMAIN answer => answer[j] = "OKAY")
      /\ resp'[j] <=> IF j \in DOMAIN answer THEN answer[j] = "ERROR" ELSE ErrorBegun(j)
  BY <1>1 DEF ReadyNext, RespNext
<1>4. QED
  BY <1>2, <1>3

LEMMA BufferCycle ==
    ASSUME Next, NEW j \in Slave, NEW i \in Master
    PROVE  /\ buf_wen(j, i) => buf'[j][i] = src_request(j, i)
           /\ ~buf_wen(j, i) /\ Samples(j, i) => buf'[j][i] = Empty
           /\ ~buf_wen(j, i) /\ ~Samples(j, i) => buf'[j][i] = buf[j][i]
BY DEF Next, Clock, ArbiterStep

-----------------------------------------------------------------------------
(* Consequences of the invariant within a cycle.                           *)

\* A master whose request is buffered is stalled.
LEMMA BufferedStalls ==
    ASSUME IndInv, NEW j \in Slave, NEW i \in Master, buf[j][i] # Empty
    PROVE  ~src_hready(i)
<1>1. slave_sel_d[i] = j /\ mast_gnt_d[j] # i /\ j # NoSlave
  BY SlaveAssumption DEF IndInv, BufferedInDphase
<1>2. QED
  BY <1>1 DEF src_hready, arb_hready_resp, mast_in_dphase

\* A stalled master has a data phase, and it is the one its splitter has.
LEMMA StalledInDphase ==
    ASSUME IndInv, NEW i \in Master, ~src_hready(i)
    PROVE  dphase[i] # Idle
BY DEF IndInv, DataPhaseMatches, src_hready, slave_sel_a, decode_err_a

\* A slave that samples master i takes what i has buffered there or, if i has
\* nothing buffered there, the address phase i drives at it.
LEMMA SampleSource ==
    ASSUME IndInv, NEW j \in Slave, NEW i \in Master, i \in mast_req_a(j)
    PROVE  \/ buf[j][i] # Empty /\ actual_request(j, i) = dphase[i]
           \/ /\ buf[j][i] = Empty /\ actual_request(j, i) = aphase[i]
              /\ src_request(j, i) = aphase[i]
              /\ aphase[i] # Idle /\ slave_sel_a(i, aphase[i]) = j
BY DEF IndInv, BufferedInDphase, mast_req_a, actual_request, src_request

LEMMA SampleRequests ==
    ASSUME NEW j \in Slave, NEW i \in Master, Samples(j, i)
    PROVE  i \in mast_req_a(j) /\ ~buf_wen(j, i)
BY GrantType, MasterAssumption DEF Samples, buf_wen

\* A live address phase is sampled early only from an overlapping master, and
\* while the master's data phase is elsewhere.
LEMMA EarlySample ==
    ASSUME IndInv, NEW j \in Slave, NEW i \in Master,
           Samples(j, i), buf[j][i] = Empty, ~src_hready(i)
    PROVE  i \in Overlapping /\ slave_sel_d[i] # j
<1>1. aphase[i] # Idle /\ slave_sel_a(i, aphase[i]) = j
  BY SampleRequests, SampleSource
<1>2. slave_sel_d[i] # j
  <2>1. ASSUME slave_sel_d[i] = j PROVE mast_gnt_d[j] = i
    BY <2>1, SlaveAssumption DEF IndInv, IssuedOrBuffered
  <2>2. QED
    BY <2>1, MasterAssumption DEF Samples, dst_hready
<1>3. i \in Overlapping
  <2>1. SUFFICES ASSUME i \notin Overlapping PROVE FALSE
    OBVIOUS
  <2>2. dphase[i] # Idle /\ aphase[i].to = dphase[i].to
    BY <1>1, <2>1, StalledInDphase DEF IndInv, NoOverlap
  <2>3. slave_sel_d[i] = j
    BY <1>1, <2>2 DEF IndInv, DataPhaseMatches, slave_sel_a
  <2>4. QED
    BY <1>2, <2>3
<1>4. QED
  BY <1>2, <1>3

-----------------------------------------------------------------------------
(* The invariant is inductive.                                             *)

LEMMA InitInv == Init => IndInv
<1> SUFFICES ASSUME Init PROVE IndInv
  OBVIOUS
<1>1. TypeOK
  BY InitType
<1>2. DataPhaseMatches
  BY DEF Init, DataPhaseMatches, slave_sel_a, decode_err_a
<1>3. NoOverlap /\ BufferedInDphase /\ IssuedOrBuffered
  BY DEF Init, NoOverlap, BufferedInDphase, IssuedOrBuffered
<1>4. GrantServes
  BY MasterAssumption DEF Init, GrantServes
<1>5. CountMatches
  BY DEF Init, CountMatches
<1>6. RespServes
  BY DEF Init, RespServes
<1>7. QED
  BY <1>1, <1>2, <1>3, <1>4, <1>5, <1>6 DEF IndInv

LEMMA DataPhaseMatchesStep == IndInv /\ Next => DataPhaseMatches'
<1> SUFFICES ASSUME IndInv, Next, NEW i \in Master
             PROVE  /\ slave_sel_d'[i] = slave_sel_a(i, dphase'[i])
                    /\ decode_err_d'[i] = decode_err_a(dphase'[i])
                    /\ err_ph1'[i] => decode_err_d'[i]
  BY DEF DataPhaseMatches, slave_sel_a, decode_err_a
<1>1. /\ slave_sel_d[i] = slave_sel_a(i, dphase[i])
      /\ decode_err_d[i] = decode_err_a(dphase[i])
      /\ decode_err_d[i] => slave_sel_d[i] = NoSlave
  BY ConnAssumption, SlaveAssumption
     DEF IndInv, DataPhaseMatches, slave_sel_a, decode_err_a
<1>2. err_ph1'[i] => decode_err_d'[i]
  BY <1>1, SplitterCycle DEF src_hready
<1>3. QED
  BY <1>1, <1>2, SplitterCycle, MasterCycle

LEMMA NoOverlapStep == IndInv /\ Next => NoOverlap'
<1> SUFFICES ASSUME IndInv, Next, NEW i \in Master \ Overlapping,
                    aphase'[i] # Idle, dphase'[i] # Idle
             PROVE  aphase'[i].to = dphase'[i].to
  BY DEF NoOverlap
<1>1. dphase'[i] = NextDphase(i)
  BY DEF Next, Clock, MasterStep
<1>2. CASE Holds(i)
  <2>1. aphase'[i] = aphase[i] /\ dphase'[i] = dphase[i]
    BY <1>2, MasterCycle DEF Holds
  <2>2. QED
    BY <2>1 DEF IndInv, NoOverlap
<1>3. CASE ~Holds(i)
  <2>1. PICK new \in [{k \in Master : ~Holds(k)} -> {d[2] : d \in Drives} \cup {Idle}] :
          /\ \A k \in DOMAIN new : new[k] \in Targets(k) \cup {Idle}
          /\ aphase' = [k \in Master |->
                IF k \notin DOMAIN new THEN aphase[k]
                ELSE IF new[k] = Idle THEN Idle
                ELSE [to |-> new[k].to, ctl |-> new[k].ctl, tag |-> tag[k]]]
    BY DEF Next, Clock, MasterStep
  <2>2. i \in DOMAIN new /\ new[i] # Idle /\ aphase'[i].to = new[i].to
    BY <1>3, <2>1
  <2>3. new[i].to = NextDphase(i).to
    BY <1>1, <2>1, <2>2 DEF Targets
  <2>4. QED
    BY <1>1, <2>2, <2>3
<1>4. QED
  BY <1>2, <1>3

LEMMA BufferedInDphaseStep == IndInv /\ Next => BufferedInDphase'
<1> SUFFICES ASSUME IndInv, Next, NEW j \in Slave, NEW i \in Master, buf'[j][i] # Empty
             PROVE  slave_sel_d'[i] = j /\ buf'[j][i] = dphase'[i] /\ mast_gnt_d'[j] # i
  BY DEF BufferedInDphase
<1>1. ASSUME mast_gnt_d'[j] = i, mast_gnt_d[j] = i => src_hready(i)
      PROVE  Samples(j, i)
  BY <1>1, SlaveCycle, MasterAssumption DEF Samples, dst_hready
<1>2. CASE buf_wen(j, i)
  <2>1. i \in mast_req_a(j) /\ src_hready(i) /\ ~Samples(j, i)
    BY <1>2 DEF buf_wen, Samples
  <2>2. buf[j][i] = Empty
    BY <2>1, BufferedStalls
  <2>3. src_request(j, i) = aphase[i] /\ slave_sel_a(i, aphase[i]) = j
    BY <2>1, <2>2, SampleSource
  <2>4. QED
    BY <1>1, <1>2, <2>1, <2>3, BufferCycle, MasterCycle, SplitterCycle
<1>3. CASE ~buf_wen(j, i)
  <2>1. buf'[j][i] = buf[j][i] /\ ~Samples(j, i)
    BY <1>3, BufferCycle
  <2>2. /\ ~src_hready(i) /\ mast_gnt_d[j] # i
        /\ slave_sel_d[i] = j /\ buf[j][i] = dphase[i]
    BY <2>1, BufferedStalls DEF IndInv, BufferedInDphase
  <2>3. QED
    BY <1>1, <2>1, <2>2, MasterCycle, SplitterCycle
<1>4. QED
  BY <1>2, <1>3

LEMMA IssuedOrBufferedStep == IndInv /\ Next => IssuedOrBuffered'
<1> SUFFICES ASSUME IndInv, Next, NEW i \in Master, NEW j \in Slave, slave_sel_d'[i] = j
             PROVE  mast_gnt_d'[j] = i \/ buf'[j][i] # Empty
  <2>1. ASSUME NEW i \in Master, IndInv, Next
        PROVE  slave_sel_d'[i] \in Slave \cup {NoSlave}
    BY <2>1, StepType DEF IndInv, TypeOK
  <2>2. QED
    BY <2>1 DEF IssuedOrBuffered
<1>1. Samples(j, i) => mast_gnt_d'[j] = i
  BY SlaveCycle DEF Samples
<1>2. CASE src_hready(i)
  <2>1. slave_sel_a(i, aphase[i]) = j /\ aphase[i] # Idle /\ <<i, j>> \in Conn
    BY <1>2, SplitterCycle, SlaveAssumption DEF slave_sel_a
  <2>2. src_request(j, i) = aphase[i] /\ buf[j][i] = Empty
    BY <1>2, <2>1, BufferedStalls DEF src_request
  <2>3. i \in mast_req_a(j)
    BY <2>1, <2>2 DEF mast_req_a, actual_request
  <2>4. buf_wen(j, i) \/ Samples(j, i)
    BY <1>2, <2>3 DEF buf_wen, Samples
  <2>5. aphase[i] # Empty
    BY EmptyAssumption DEF IndInv, TypeOK
  <2>6. QED
    BY <1>1, <2>2, <2>4, <2>5, BufferCycle
<1>3. CASE ~src_hready(i)
  <2>1. slave_sel_d[i] = j
    BY <1>3, SplitterCycle
  <2>2. CASE mast_gnt_d[j] = i
    BY <1>3, <2>2, SlaveCycle, MasterAssumption DEF dst_hready
  <2>3. CASE buf[j][i] # Empty
    BY <1>1, <1>3, <2>3, BufferCycle DEF buf_wen
  <2>4. QED
    BY <2>1, <2>2, <2>3, SlaveAssumption DEF IndInv, IssuedOrBuffered
<1>4. QED
  BY <1>2, <1>3

LEMMA GrantServesStep == IndInv /\ Next => GrantServes'
<1> SUFFICES ASSUME IndInv, Next, NEW j \in Slave
             PROVE  /\ mast_gnt_d'[j] = NoMaster => op'[j] = Idle
                    /\ \A i \in Master : mast_gnt_d'[j] = i =>
                          Serving(j, i)' \/ ServingEarly(j, i)'
  BY DEF GrantServes
<1>1. mast_gnt_d'[j] = NoMaster => op'[j] = Idle
  BY SlaveCycle DEF IndInv, GrantServes
<1>2. ASSUME NEW i \in Master, mast_gnt_d'[j] = i, ~dst_hready(j)
      PROVE  Serving(j, i)' \/ ServingEarly(j, i)'
  <2>1. /\ mast_gnt_d[j] = i /\ op'[j] = op[j] /\ ~src_hready(i)
        /\ slave_sel_d'[i] = slave_sel_d[i] /\ dphase'[i] = dphase[i]
        /\ aphase[i] # Idle => aphase'[i] = aphase[i]
    BY <1>2, SlaveCycle, SplitterCycle, MasterCycle DEF dst_hready
  <2>2. Serving(j, i) \/ ServingEarly(j, i)
    BY <2>1 DEF IndInv, GrantServes
  <2>3. CASE Serving(j, i)
    BY <2>1, <2>3 DEF Serving
  <2>4. CASE ServingEarly(j, i)
    BY <2>1, <2>4 DEF ServingEarly, slave_sel_a
  <2>5. QED
    BY <2>2, <2>3, <2>4
<1>3. ASSUME NEW i \in Master, mast_gnt_d'[j] = i, dst_hready(j)
      PROVE  Serving(j, i)' \/ ServingEarly(j, i)'
  <2>1. Samples(j, i)
    BY <1>3, SlaveCycle DEF Samples
  <2>2. op'[j] = OperationOf(i, actual_request(j, i))
    BY <2>1, SlaveCycle
  <2>3. CASE buf[j][i] # Empty
    <3>1. slave_sel_d[i] = j /\ ~src_hready(i)
      BY <2>3, BufferedStalls DEF IndInv, BufferedInDphase
    <3>2. slave_sel_d'[i] = j /\ dphase'[i] = dphase[i]
      BY <3>1, SplitterCycle, MasterCycle
    <3>3. actual_request(j, i) = dphase[i]
      BY <2>1, <2>3, SampleRequests, SampleSource
    <3>4. QED
      BY <2>2, <3>2, <3>3 DEF Serving
  <2>4. CASE buf[j][i] = Empty
    <3>1. /\ actual_request(j, i) = aphase[i]
          /\ aphase[i] # Idle /\ slave_sel_a(i, aphase[i]) = j
      BY <2>1, <2>4, SampleRequests, SampleSource
    <3>2. CASE src_hready(i)
      BY <2>2, <3>1, <3>2, SplitterCycle, MasterCycle DEF Serving
    <3>3. CASE ~src_hready(i)
      <4>1. i \in Overlapping /\ slave_sel_d[i] # j
        BY <2>1, <2>4, <3>3, EarlySample
      <4>2. slave_sel_d'[i] = slave_sel_d[i] /\ aphase'[i] = aphase[i]
        BY <3>1, <3>3, SplitterCycle, MasterCycle
      <4>3. QED
        BY <2>2, <3>1, <4>1, <4>2 DEF ServingEarly, slave_sel_a
    <3>4. QED
      BY <3>2, <3>3
  <2>5. QED
    BY <2>3, <2>4
<1>4. QED
  BY <1>1, <1>2, <1>3

LEMMA RespServesStep == IndInv /\ Next => RespServes'
<1> SUFFICES ASSUME IndInv, Next, NEW j \in Slave, resp'[j]
             PROVE  op'[j] # Idle
  BY DEF RespServes
<1>1. ErrorBegun(j) => op'[j] = op[j] /\ op[j] # Idle
  BY SlaveCycle DEF ErrorBegun, IndInv, RespServes
<1>2. QED
  BY <1>1, AnswerCycle

LEMMA CountMatchesStep == IndInv /\ Next => CountMatches'
<1> SUFFICES ASSUME IndInv, Next, NEW i \in Master, i \notin Overlapping
             PROVE  /\ issuedA'[i] = 0
                    /\ slave_sel_d'[i] # NoSlave =>
                          issuedD'[i] = IF mast_gnt_d'[slave_sel_d'[i]] = i THEN 1 ELSE 0
  BY DEF CountMatches
<1>1. issuedA[i] = 0 /\ Cap(0) = 0 /\ Cap(1) = 1
  BY DEF IndInv, CountMatches, Cap
<1>2. /\ SampledLive(i) = 1 <=> \E j \in Slave : Samples(j, i) /\ buf[j][i] = Empty
      /\ SampledBuf(i) = 1 <=> \E j \in Slave : Samples(j, i) /\ buf[j][i] # Empty
      /\ SampledLive(i) \in {0, 1} /\ SampledBuf(i) \in {0, 1}
  BY DEF SampledLive, SampledBuf
<1>3. ~src_hready(i) => SampledLive(i) = 0
  BY <1>2, EarlySample
<1>4. /\ issuedA'[i] = IF src_hready(i) THEN 0 ELSE Cap(issuedA[i] + SampledLive(i))
      /\ issuedD'[i] = IF src_hready(i) THEN Cap(issuedA[i] + SampledLive(i))
                       ELSE Cap(issuedD[i] + SampledBuf(i))
  BY DEF Next, Clock, CountStep
<1>5. issuedA'[i] = 0
  BY <1>1, <1>3, <1>4
<1>6. ASSUME NEW j \in Slave, slave_sel_d'[i] = j
      PROVE  issuedD'[i] = IF mast_gnt_d'[j] = i THEN 1 ELSE 0
  <2>1. CASE src_hready(i)
    <3>1. slave_sel_a(i, aphase[i]) = j
      BY <1>6, <2>1, SplitterCycle
    <3>2. \A k \in Slave : buf[k][i] = Empty
      BY <2>1, BufferedStalls
    <3>3. \A k \in Slave : Samples(k, i) => k = j
      BY <3>1, <3>2, SampleRequests, SampleSource
    <3>4. SampledLive(i) = 1 <=> Samples(j, i)
      BY <1>2, <3>2, <3>3
    <3>5. mast_gnt_d'[j] = i <=> Samples(j, i)
      BY <2>1, SlaveCycle, MasterAssumption DEF Samples, dst_hready
    <3>6. QED
      BY <1>1, <1>2, <1>4, <2>1, <3>4, <3>5
  <2>2. CASE ~src_hready(i)
    <3>1. slave_sel_d[i] = j
      BY <1>6, <2>2, SplitterCycle
    <3>2. issuedD[i] = IF mast_gnt_d[j] = i THEN 1 ELSE 0
      BY <3>1, SlaveAssumption DEF IndInv, CountMatches
    <3>3. \A k \in Slave : buf[k][i] # Empty => k = j
      BY <3>1 DEF IndInv, BufferedInDphase
    <3>4. CASE mast_gnt_d[j] = i
      <4>1. ~dst_hready(j) /\ mast_gnt_d'[j] = i
        BY <2>2, <3>4, SlaveCycle, MasterAssumption DEF dst_hready
      <4>2. SampledBuf(i) = 0
        BY <1>2, <3>3, <4>1 DEF Samples
      <4>3. QED
        BY <1>1, <1>4, <2>2, <3>2, <3>4, <4>1, <4>2
    <3>5. CASE mast_gnt_d[j] # i
      <4>1. buf[j][i] # Empty
        BY <3>1, <3>5, SlaveAssumption DEF IndInv, IssuedOrBuffered
      <4>2. SampledBuf(i) = 1 <=> Samples(j, i)
        BY <1>2, <3>3, <4>1
      <4>3. mast_gnt_d'[j] = i <=> Samples(j, i)
        BY <3>5, SlaveCycle DEF Samples
      <4>4. QED
        BY <1>1, <1>2, <1>4, <2>2, <3>2, <3>5, <4>2, <4>3
    <3>6. QED
      BY <3>4, <3>5
  <2>3. QED
    BY <2>1, <2>2
<1>7. slave_sel_d'[i] \in Slave \cup {NoSlave}
  BY StepType DEF IndInv, TypeOK
<1>8. QED
  BY <1>5, <1>6, <1>7

LEMMA StepInv == IndInv /\ [Next]_vars => IndInv'
<1> SUFFICES ASSUME IndInv, [Next]_vars PROVE IndInv'
  OBVIOUS
<1>1. CASE UNCHANGED vars
  <2> USE <1>1 DEF vars, splitters, arbiters, environment
  <2>1. TypeOK'
    BY StepType DEF IndInv
  <2>2. DataPhaseMatches' /\ NoOverlap'
    BY DEF IndInv, DataPhaseMatches, NoOverlap, slave_sel_a, decode_err_a
  <2>3. BufferedInDphase' /\ IssuedOrBuffered' /\ CountMatches'
    BY DEF IndInv, BufferedInDphase, IssuedOrBuffered, CountMatches
  <2>4. GrantServes'
    BY DEF IndInv, GrantServes, Serving, ServingEarly, slave_sel_a
  <2>5. RespServes'
    BY DEF IndInv, RespServes
  <2>6. QED
    BY <2>1, <2>2, <2>3, <2>4, <2>5 DEF IndInv
<1>2. CASE Next
  <2>1. TypeOK'
    BY <1>2, StepType DEF IndInv
  <2>2. QED
    BY <1>2, <2>1, DataPhaseMatchesStep, NoOverlapStep, BufferedInDphaseStep,
       IssuedOrBufferedStep, GrantServesStep, RespServesStep, CountMatchesStep DEF IndInv
<1>3. QED
  BY <1>1, <1>2

\* The inductive invariant holds in every reachable state.
THEOREM Invariant == Spec => []IndInv
BY InitInv, StepInv, PTL DEF Spec

-----------------------------------------------------------------------------
(* What the invariant says of the bus.                                     *)

\* A data phase that ends on a slave has been issued to it.
LEMMA CompletesIssued ==
    ASSUME IndInv, NEW i \in Master, Completes(i)
    PROVE  /\ slave_sel_d[i] \in Slave
           /\ mast_gnt_d[slave_sel_d[i]] = i /\ ready[slave_sel_d[i]]
           /\ Serving(slave_sel_d[i], i)
<1> DEFINE j == slave_sel_d[i]
<1>1. j \in Slave
  BY DEF IndInv, TypeOK, Completes
<1>2. arb_hready_resp(j, i)
  BY DEF Completes, src_hready
<1>3. mast_gnt_d[j] = i /\ ready[j]
  BY <1>1, <1>2 DEF IndInv, IssuedOrBuffered, Completes, arb_hready_resp, mast_in_dphase
<1>4. Serving(j, i)
  BY <1>1, <1>3 DEF IndInv, GrantServes, ServingEarly
<1>5. QED
  BY <1>1, <1>3, <1>4

\* Every transfer of a master that does not overlap slaves reaches its slave
\* exactly once (ahbl_arbiter.v:187-225), in every instance of the crossbar.
THEOREM ExactlyOnce == Spec => []IssuedExactlyOnce
<1>1. IndInv => IssuedExactlyOnce
  BY CompletesIssued DEF IssuedExactlyOnce, IndInv, CountMatches, Completes
<1>2. QED
  BY <1>1, Invariant, PTL

\* HREADY at the end of a data phase is always the answer to that transfer
\* (ahbl_arbiter.v:229-239, ahbl_splitter.v:168-169).
THEOREM AnswersBelong == Spec => []AnswerIsForTransfer
<1>1. IndInv => AnswerIsForTransfer
  BY CompletesIssued DEF AnswerIsForTransfer, Serving
<1>2. QED
  BY <1>1, Invariant, PTL

\* The write-data mux follows the transfer the slave serves
\* (ahbl_arbiter.v:241-248).
THEOREM WriteDataBelongs == Spec => []WriteDataIsForTransfer
<1>1. ASSUME IndInv, NEW j \in Slave, op[j] # Idle
      PROVE  /\ mast_gnt_d[j] = op[j].by
             /\ op[j].by \notin Overlapping =>
                   dphase[op[j].by] = [to |-> j, ctl |-> op[j].ctl, tag |-> op[j].tag]
  <2>1. PICK i \in Master : mast_gnt_d[j] = i
    BY <1>1 DEF IndInv, TypeOK, GrantServes
  <2>2. Serving(j, i) \/ ServingEarly(j, i)
    BY <1>1, <2>1 DEF IndInv, GrantServes
  <2>3. op[j].by = i
    BY <2>2 DEF Serving, ServingEarly, OperationOf
  <2>4. ASSUME i \notin Overlapping
        PROVE  dphase[i] = [to |-> j, ctl |-> op[j].ctl, tag |-> op[j].tag]
    <3>1. slave_sel_d[i] = j /\ op[j].tag = dphase[i].tag /\ op[j].ctl = dphase[i].ctl
      BY <2>2, <2>4 DEF Serving, ServingEarly, OperationOf
    <3>2. dphase[i] # Idle /\ dphase[i].to = j
      BY <1>1, <3>1, SlaveAssumption DEF IndInv, DataPhaseMatches, slave_sel_a
    <3>3. dphase[i] \in Transfer
      BY <1>1, <3>2 DEF IndInv, TypeOK
    <3>4. QED
      BY <3>1, <3>2, <3>3 DEF Transfer
  <2>5. QED
    BY <2>1, <2>3, <2>4
<1>2. IndInv => WriteDataIsForTransfer
  BY <1>1 DEF WriteDataIsForTransfer
<1>3. QED
  BY <1>2, Invariant, PTL

\* A buffered request is its stalled master's transfer, so no request is ever
\* overwritten in a buffer (ahbl_arbiter.v:205-222).
THEOREM BufferNeverOverwritten == Spec => []BufferIsStalledTransfer
<1>1. IndInv => BufferIsStalledTransfer
  BY BufferedStalls DEF BufferIsStalledTransfer, IndInv, BufferedInDphase
<1>2. QED
  BY <1>1, Invariant, PTL

\* Two masters wait for each other only if both overlap slaves: with at most one
\* overlapping master the crossbar has no circular wait, whatever the others do
\* (ahbl_arbiter.v:185).
THEOREM NoCircularWaitIfOneOverlaps ==
    ASSUME \A i, k \in Overlapping : i = k
    PROVE  Spec => []NoCircularWait
<1>1. ASSUME IndInv, NEW i \in Master, NEW k \in Master, NEW a \in Slave, NEW b \in Slave,
             CircularWait(i, k, a, b)
      PROVE  FALSE
  <2>1. /\ slave_sel_d[k] = a /\ mast_gnt_d[a] # k
        /\ slave_sel_d[i] = b /\ mast_gnt_d[b] # i
    BY <1>1 DEF CircularWait, IndInv, BufferedInDphase
  <2>2. a # b /\ i # k
    BY <1>1, <2>1 DEF CircularWait
  <2>3. ServingEarly(a, i) /\ ServingEarly(b, k)
    BY <1>1, <2>1, <2>2 DEF CircularWait, IndInv, GrantServes, Serving
  <2>4. QED
    BY <2>2, <2>3 DEF ServingEarly
<1>2. IndInv => NoCircularWait
  BY <1>1 DEF NoCircularWait
<1>3. QED
  BY <1>2, Invariant, PTL

\* A circular wait, once there, is there for good: no wait state, arbitration or
\* golden ticket ever ends it (ahbl_arbiter.v:185,231-236).
THEOREM CircularWaitIsForever ==
    ASSUME NEW i \in Master, NEW k \in Master, NEW a \in Slave, NEW b \in Slave
    PROVE  Spec => [](CircularWait(i, k, a, b) => []CircularWait(i, k, a, b))
<1>1. ASSUME IndInv, Next, CircularWait(i, k, a, b)
      PROVE  CircularWait(i, k, a, b)'
  <2>1. ~src_hready(i) /\ ~src_hready(k)
    BY <1>1, BufferedStalls DEF CircularWait
  <2>2. ~dst_hready(a) /\ ~dst_hready(b)
    BY <1>1, <2>1, MasterAssumption DEF CircularWait, dst_hready
  <2>3. mast_gnt_d'[a] = i /\ mast_gnt_d'[b] = k
    BY <1>1, <2>2, SlaveCycle DEF CircularWait
  <2>4. buf'[a][k] = buf[a][k] /\ buf'[b][i] = buf[b][i]
    BY <1>1, <2>1, <2>2, BufferCycle DEF buf_wen, Samples
  <2>5. QED
    BY <1>1, <2>3, <2>4 DEF CircularWait
<1>2. IndInv /\ [Next]_vars /\ CircularWait(i, k, a, b) => CircularWait(i, k, a, b)'
  BY <1>1 DEF CircularWait, vars, arbiters
<1>3. QED
  BY <1>2, Invariant, PTL DEF Spec

\* HRESP reaches the master of the transfer that a slave answers with ERROR, or
\* whose address is unmapped, and no other master (ahbl_arbiter.v:237,
\* ahbl_splitter.v:170-171).
THEOREM ErrorsBelong == Spec => []ErrorIsForTransfer
<1>1. ASSUME IndInv, NEW i \in Master, src_hresp(i)
      PROVE  \/ dphase[i] # Idle /\ dphase[i].to = Unmapped
             \/ \E j \in Slave : slave_sel_d[i] = j /\ op[j] = OperationOf(i, dphase[i]) /\ resp[j]
  <2>1. CASE decode_err_d[i]
    BY <1>1, <2>1 DEF IndInv, DataPhaseMatches, decode_err_a
  <2>2. CASE slave_sel_d[i] # NoSlave /\ arb_hresp(slave_sel_d[i], i)
    <3>1. PICK j \in Slave : slave_sel_d[i] = j /\ mast_gnt_d[j] = i /\ resp[j]
      BY <1>1, <2>2 DEF IndInv, TypeOK, arb_hresp
    <3>2. Serving(j, i)
      BY <1>1, <3>1 DEF IndInv, GrantServes, ServingEarly
    <3>3. QED
      BY <3>1, <3>2 DEF Serving
  <2>3. QED
    BY <1>1, <2>1, <2>2 DEF src_hresp
<1>2. ASSUME IndInv, NEW j \in Slave, resp[j], op[j].by \notin Overlapping
      PROVE  src_hresp(op[j].by)
  <2>1. PICK i \in Master : mast_gnt_d[j] = i
    BY <1>2 DEF IndInv, TypeOK, RespServes, GrantServes
  <2>2. Serving(j, i) \/ ServingEarly(j, i)
    BY <1>2, <2>1 DEF IndInv, GrantServes
  <2>3. op[j].by = i
    BY <2>2 DEF Serving, ServingEarly, OperationOf
  <2>4. slave_sel_d[i] = j
    BY <1>2, <2>2, <2>3 DEF Serving, ServingEarly
  <2>5. QED
    BY <1>2, <2>1, <2>3, <2>4, SlaveAssumption DEF src_hresp, arb_hresp
<1>3. IndInv => ErrorIsForTransfer
  BY <1>1, <1>2 DEF ErrorIsForTransfer
<1>4. QED
  BY <1>3, Invariant, PTL

\* A master in data phase with a slave that serves it sees that slave's answer.
LEMMA ServedSees ==
    ASSUME IndInv, NEW i \in Master, NEW j \in Slave, slave_sel_d[i] = j, mast_gnt_d[j] = i
    PROVE  /\ src_hready(i) <=> ready[j]
           /\ src_hresp(i) <=> resp[j]
<1>1. ~decode_err_d[i] /\ j # NoSlave
  BY ConnAssumption, SlaveAssumption DEF IndInv, DataPhaseMatches, slave_sel_a, decode_err_a
<1>2. QED
  BY <1>1 DEF src_hready, src_hresp, arb_hready_resp, arb_hresp, mast_in_dphase

\* The decode error of a master, whose response the splitter counts.
LEMMA UnmappedSees ==
    ASSUME IndInv, NEW i \in Master, decode_err_d[i]
    PROVE  src_hresp(i) /\ (src_hready(i) <=> err_ph1[i])
<1>1. slave_sel_d[i] = NoSlave
  BY ConnAssumption, SlaveAssumption DEF IndInv, DataPhaseMatches, slave_sel_a, decode_err_a
<1>2. QED
  BY <1>1 DEF src_hready, src_hresp

\* A master that sees HRESP has an unmapped data phase or is served by a slave.
LEMMA HrespSource ==
    ASSUME IndInv, NEW i \in Master, src_hresp(i), ~decode_err_d[i]
    PROVE  \E j \in Slave : slave_sel_d[i] = j /\ mast_gnt_d[j] = i /\ resp[j]
BY DEF IndInv, TypeOK, src_hresp, arb_hresp

\* Every ERROR response takes two cycles, whether the splitter gives it for an unmapped
\* address or a slave behind the arbiter (ahbl_splitter.v:127-147,168-171,
\* ahbl_arbiter.v:236-237).
THEOREM ErrorTakesTwoCycles == Spec => TwoCycleError
<1> DEFINE TwoCycles(i) ==
              /\ src_hready(i) /\ decode_err_a(aphase[i]) => (src_hresp(i) /\ ~src_hready(i))'
              /\ src_hresp(i) /\ ~src_hready(i) => (src_hresp(i) /\ src_hready(i))'
              /\ (src_hresp(i) /\ src_hready(i))' => src_hresp(i) /\ ~src_hready(i)
           Starts(i) == src_hready(i) /\ decode_err_a(aphase[i]) => (src_hresp(i) /\ ~src_hready(i))'
           Ends(i) == src_hresp(i) /\ ~src_hready(i) => (src_hresp(i) /\ src_hready(i))'
           Started(i) == (src_hresp(i) /\ src_hready(i))' => src_hresp(i) /\ ~src_hready(i)
<1>1. IndInv => /\ \A i \in Master : decode_err_d[i] => src_hresp(i) /\ (src_hready(i) <=> err_ph1[i])
                /\ \A i \in Master, j \in Slave : slave_sel_d[i] = j /\ mast_gnt_d[j] = i =>
                      (src_hready(i) <=> ready[j]) /\ (src_hresp(i) <=> resp[j])
                /\ \A i \in Master : src_hresp(i) /\ ~decode_err_d[i] =>
                      \E j \in Slave : slave_sel_d[i] = j /\ mast_gnt_d[j] = i /\ resp[j]
  BY ServedSees, UnmappedSees, HrespSource
<1> DEFINE Sees ==
        /\ \A i \in Master : decode_err_d[i] => src_hresp(i) /\ (src_hready(i) <=> err_ph1[i])
        /\ \A i \in Master, j \in Slave : slave_sel_d[i] = j /\ mast_gnt_d[j] = i =>
              (src_hready(i) <=> ready[j]) /\ (src_hresp(i) <=> resp[j])
        /\ \A i \in Master : src_hresp(i) /\ ~decode_err_d[i] =>
              \E j \in Slave : slave_sel_d[i] = j /\ mast_gnt_d[j] = i /\ resp[j]
<1>2. ASSUME IndInv, Sees, Sees', Next, NEW i \in Master
      PROVE  TwoCycles(i)
  <2>1. decode_err_d[i] => (src_hready(i) <=> err_ph1[i])
    BY <1>2
  <2>2. Starts(i)
    <3>1. SUFFICES ASSUME src_hready(i), decode_err_a(aphase[i])
                   PROVE  (src_hresp(i) /\ ~src_hready(i))'
      OBVIOUS
    <3>2. decode_err_d'[i] /\ ~err_ph1'[i]
      BY <1>2, <2>1, <3>1, SplitterCycle
    <3>3. QED
      BY <1>2, <3>2
  <2>3. Ends(i)
    <3>1. SUFFICES ASSUME src_hresp(i), ~src_hready(i)
                   PROVE  (src_hresp(i) /\ src_hready(i))'
      OBVIOUS
    <3>2. CASE decode_err_d[i]
      <4>1. decode_err_d'[i] /\ err_ph1'[i]
        BY <1>2, <2>1, <3>1, <3>2, SplitterCycle
      <4>2. QED
        BY <1>2, <4>1
    <3>3. CASE ~decode_err_d[i]
      <4>1. PICK j \in Slave : slave_sel_d[i] = j /\ mast_gnt_d[j] = i /\ resp[j]
        BY <1>2, <3>1, <3>3
      <4>2. ~ready[j]
        BY <1>2, <3>1, <4>1
      <4>3. ~dst_hready(j)
        BY <3>1, <4>1, MasterAssumption DEF dst_hready
      <4>4. ready'[j] /\ resp'[j]
        BY <1>2, <4>1, <4>2, <4>3, AnswerCycle DEF ErrorBegun
      <4>5. slave_sel_d'[i] = j /\ mast_gnt_d'[j] = i
        BY <1>2, <3>1, <4>1, <4>3, SplitterCycle, SlaveCycle
      <4>6. QED
        BY <1>2, <4>4, <4>5
    <3>4. QED
      BY <3>2, <3>3
  <2>4. Started(i)
    <3>1. SUFFICES ASSUME src_hresp(i)', src_hready(i)'
                   PROVE  src_hresp(i) /\ ~src_hready(i)
      OBVIOUS
    <3>2. CASE decode_err_d'[i]
      <4>1. err_ph1'[i]
        BY <1>2, <3>1, <3>2
      <4>2. decode_err_d[i] /\ ~err_ph1[i]
        BY <1>2, <4>1, SplitterCycle
      <4>3. QED
        BY <1>2, <4>2
    <3>3. CASE ~decode_err_d'[i]
      <4>1. PICK j \in Slave : slave_sel_d'[i] = j /\ mast_gnt_d'[j] = i /\ resp'[j]
        BY <1>2, <3>1, <3>3
      <4>2. ready'[j]
        BY <1>2, <3>1, <4>1
      <4>3. ~dst_hready(j) /\ resp[j] /\ ~ready[j]
        BY <1>2, <4>1, <4>2, AnswerCycle DEF ErrorBegun
      <4>4. mast_gnt_d[j] = i
        BY <1>2, <4>1, <4>3, SlaveCycle
      <4>5. ~src_hready(i)
        BY <4>3, <4>4 DEF dst_hready
      <4>6. slave_sel_d[i] = j
        BY <1>2, <4>1, <4>5, SplitterCycle
      <4>7. QED
        BY <1>2, <4>3, <4>4, <4>5, <4>6
    <3>4. QED
      BY <3>2, <3>3
  <2>5. QED
    BY <2>2, <2>3, <2>4
<1>3. IndInv /\ Sees /\ Sees' /\ [Next]_vars => [\A i \in Master : TwoCycles(i)]_vars
  BY <1>2
<1>4. IndInv => Sees
  BY <1>1
<1>5. QED
  <2> HIDE DEF Sees
  <2>1. QED
    BY <1>3, <1>4, Invariant, PTL DEF Spec, TwoCycleError
=============================================================================
