-------------------------- MODULE XbarBridgeProofs --------------------------
(***************************************************************************)
(* Theorems about the crossbar with the APB bridge behind it, for any      *)
(* masters, slaves, connections and arbitration, as long as the masters    *)
(* that overlap slaves keep off the bridge.                                *)
(***************************************************************************)
EXTENDS XbarBridge, AhblCrossbarProofs

\* No master that overlaps slaves drives the bridge.
OverlapKeepsOff == \A i \in Overlapping, q \in Control : <<i, [to |-> apb, ctl |-> q]>> \notin Drives

-----------------------------------------------------------------------------
(* The inductive invariant.                                                *)

DrivenOnly ==
    \A i \in Master : aphase[i] # Idle =>
        <<i, [to |-> aphase[i].to, ctl |-> aphase[i].ctl]>> \in Drives

\* The responses the arbiter sees are the bridge's, decoded from its state.
BridgeAnswers ==
    /\ apb_state \in BridgeState
    /\ hready_resp \in BOOLEAN /\ (hready_resp <=> apb_state \in {"READY", "ERR1"})
    /\ hresp \in BOOLEAN /\ (hresp <=> apb_state \in {"ERR0", "ERR1"})
    /\ ready[apb] <=> hready_resp
    /\ resp[apb] <=> hresp

\* While the bridge works its arbiter has a transfer in data phase, and the bridge does
\* that transfer: its direction, its address, its data. Once it is ready without an
\* error the transfer is done.
BridgeWorks ==
    /\ apb_state # "READY" => op[apb] # Idle
    /\ op[apb] # Idle => op[apb].ctl.addr = paddr
    /\ apb_state \in {"WR0", "WR1", "WR2"} => op[apb].ctl.write
    /\ apb_state \in {"RD0", "RD1"} => ~op[apb].ctl.write
    /\ apb_state \in {"WR1", "WR2"} => pwdata = op[apb]
    /\ apb_state = "READY" /\ op[apb] # Idle =>
          /\ paddr \in Decoded
          /\ op[apb].ctl.write => regs[paddr] = op[apb]
          /\ ~op[apb].ctl.write => hrdata = regs[paddr]

RegistersOK == paddr \in Addr /\ regs = [a \in Addr |-> regs[a]]

SocInv == IndInv /\ DrivenOnly /\ BridgeAnswers /\ BridgeWorks /\ RegistersOK

LEMMA SocInitInv == SocInit => SocInv
<1> SUFFICES ASSUME SocInit PROVE SocInv
  OBVIOUS
<1>1. IndInv
  BY InitInv DEF SocInit
<1>2. DrivenOnly
  BY DEF SocInit, Init, DrivenOnly
<1>3. BridgeAnswers /\ BridgeWorks
  BY ApbAssumption DEF SocInit, Init, BridgeInit, BridgeAnswers, BridgeWorks, BridgeState
<1>4. RegistersOK
  BY DEF SocInit, BridgeInit, RegistersOK
<1>5. QED
  BY <1>1, <1>2, <1>3, <1>4 DEF SocInv

\* A cycle of the composition.
LEMMA SocCycle ==
    ASSUME SocNext
    PROVE  /\ SplitterStep /\ ArbiterStep /\ CountStep /\ SlaveLatch /\ MasterStep
           /\ \E a \in SplitterAnswers :
                 BridgeStep(dst_request(apb), dst_hready(apb), dst_hwdata(apb), a[1], a[2])
           /\ SocAnswer
BY DEF SocNext, SocClock

\* PSLVERR comes with PREADY, and a hole always has it.
LEMMA SplitterGives ==
    ASSUME NEW a \in SplitterAnswers
    PROVE  /\ a[1] \in BOOLEAN /\ a[2] \in BOOLEAN
           /\ a[1] /\ ~a[2] => paddr \in Decoded
<1>1. CASE paddr \notin Decoded
  <2>1. a = <<TRUE, TRUE>>
    BY <1>1 DEF SplitterAnswers
  <2>2. QED
    BY <2>1
<1>2. CASE paddr \in Decoded
  <2>1. \/ a = <<FALSE, FALSE>>
        \/ a = <<TRUE, FALSE>>
        \/ a = <<TRUE, TRUE>>
    BY <1>2 DEF SplitterAnswers
  <2>2. CASE a = <<FALSE, FALSE>>
    BY <1>2, <2>2
  <2>3. CASE a = <<TRUE, FALSE>>
    BY <1>2, <2>3
  <2>4. CASE a = <<TRUE, TRUE>>
    BY <1>2, <2>4
  <2>5. QED
    BY <2>1, <2>2, <2>3, <2>4
<1>3. QED
  BY <1>1, <1>2

\* A master that sees the answer of the bridge sees the bridge's state.
LEMMA SeesBridge ==
    ASSUME SocInv, NEW i \in Master, slave_sel_d[i] = apb, mast_gnt_d[apb] = i
    PROVE  /\ src_hready(i) <=> apb_state \in {"READY", "ERR1"}
           /\ src_hresp(i) <=> apb_state \in {"ERR0", "ERR1"}
BY ServedSees, ApbAssumption DEF SocInv, BridgeAnswers

\* What the arbiter of the bridge serves is always the data phase of its master.
LEMMA BridgeServed ==
    ASSUME OverlapKeepsOff, SocInv, NEW i \in Master, mast_gnt_d[apb] = i
    PROVE  /\ Serving(apb, i) /\ dphase[i] # Idle
           /\ op[apb] = src_hwdata(i)
<1>1. ~ServingEarly(apb, i)
  <2>1. SUFFICES ASSUME ServingEarly(apb, i) PROVE FALSE
    OBVIOUS
  <2>2. aphase[i].to = apb /\ aphase[i] # Idle /\ i \in Overlapping
    BY <2>1, ApbAssumption, SlaveAssumption DEF ServingEarly, slave_sel_a
  <2>3. aphase[i].ctl \in Control
    BY <2>2 DEF SocInv, IndInv, TypeOK, Transfer
  <2>4. <<i, [to |-> aphase[i].to, ctl |-> aphase[i].ctl]>> \in Drives
    BY <2>2 DEF SocInv, DrivenOnly
  <2>5. QED
    BY <2>2, <2>3, <2>4 DEF OverlapKeepsOff
<1>2. Serving(apb, i)
  BY <1>1, ApbAssumption DEF SocInv, IndInv, GrantServes
<1>3. dphase[i] # Idle
  BY <1>2, ApbAssumption, SlaveAssumption DEF SocInv, IndInv, DataPhaseMatches, Serving, slave_sel_a
<1>4. QED
  BY <1>2, <1>3 DEF Serving, src_hwdata

\* The arbiter's HREADY to the bridge is the bridge's own.
LEMMA BridgeHready ==
    ASSUME OverlapKeepsOff, SocInv
    PROVE  dst_hready(apb) <=> apb_state \in {"READY", "ERR1"}
<1>1. mast_gnt_d[apb] \in Master \cup {NoMaster}
  BY ApbAssumption DEF SocInv, IndInv, TypeOK
<1>2. CASE mast_gnt_d[apb] = NoMaster
  BY <1>2, ApbAssumption DEF dst_hready, SocInv, IndInv, GrantServes, BridgeWorks
<1>3. CASE mast_gnt_d[apb] \in Master
  <2>1. mast_gnt_d[apb] # NoMaster /\ slave_sel_d[mast_gnt_d[apb]] = apb
    BY <1>3, MasterAssumption, BridgeServed DEF Serving
  <2>2. QED
    BY <1>3, <2>1, SeesBridge DEF dst_hready
<1>4. QED
  BY <1>1, <1>2, <1>3

\* What the bridge sees of a granted request and what its slave latches agree.
LEMMA BridgeRequest ==
    ASSUME SocInv, SocNext, dst_hready(apb)
    PROVE  /\ mast_gnt_a(apb) = NoMaster =>
                 dst_request(apb) = NoRequest /\ op'[apb] = Idle
           /\ mast_gnt_a(apb) # NoMaster =>
                 /\ dst_request(apb) # NoRequest /\ dst_request(apb) \in Request
                 /\ op'[apb] # Idle /\ op'[apb].ctl = dst_request(apb)
<1> DEFINE g == mast_gnt_a(apb)
           t == actual_request(apb, g)
<1>1. op'[apb] = IF g = NoMaster THEN Idle ELSE OperationOf(g, t)
  BY SocCycle, ApbAssumption DEF SlaveLatch
<1>2. dst_request(apb) = IF g = NoMaster THEN NoRequest ELSE t.ctl
  BY DEF dst_request
<1>3. ASSUME g # NoMaster
      PROVE  /\ t.ctl \in Request
             /\ OperationOf(g, t) # Idle /\ OperationOf(g, t).ctl = t.ctl
  <2>1. g \in mast_req_a(apb) /\ g \in Master
    BY <1>3, GrantType, ApbAssumption DEF mast_req_a
  <2>2. t \in Transfer
    BY <2>1, RequestType, ApbAssumption DEF SocInv, IndInv, mast_req_a
  <2>3. OperationOf(g, t) \in Operation
    BY <2>1, <2>2 DEF Transfer, Operation, OperationOf
  <2>4. QED
    BY <2>2, <2>3, IdleAssumption, ControlAssumption DEF Transfer, OperationOf
<1> HIDE DEF g, t
<1>4. g # NoMaster => t.ctl # NoRequest
  BY <1>3, NoRequestAssumption DEF Request
<1>5. QED
  BY <1>1, <1>2, <1>3, <1>4 DEF g, t

\* The bridge's answer in the next cycle follows its next state.
LEMMA BridgeAnswersStep ==
    ASSUME OverlapKeepsOff, SocInv, SocNext
    PROVE  BridgeAnswers'
<1>1. PICK a \in SplitterAnswers :
         BridgeStep(dst_request(apb), dst_hready(apb), dst_hwdata(apb), a[1], a[2])
  BY SocCycle
<1>2. ready'[apb] = hready_resp' /\ resp'[apb] = hresp'
  BY SocCycle, ApbAssumption DEF SocAnswer
<1>3. /\ apb_state' = apb_state_nxt(dst_request(apb), dst_hready(apb), a[1], a[2])
      /\ hready_resp' = (apb_state' \in {"READY", "ERR1"})
      /\ hresp' = (apb_state' \in {"ERR0", "ERR1"})
  BY <1>1 DEF BridgeStep, hready_nxt
<1>4. apb_state' \in BridgeState
  BY <1>3 DEF SocInv, BridgeAnswers, BridgeState, apb_state_nxt, ready_nxt, access_nxt, aphase_to_dphase
<1>5. hready_resp' \in BOOLEAN /\ (hready_resp' <=> apb_state' \in {"READY", "ERR1"})
  <2>1. hready_resp' = (apb_state' \in {"READY", "ERR1"})
    BY <1>3
  <2>2. (apb_state' \in {"READY", "ERR1"}) \in BOOLEAN
    OBVIOUS
  <2>3. hready_resp' \in BOOLEAN
    BY <2>1, <2>2
  <2>4. hready_resp' <=> apb_state' \in {"READY", "ERR1"}
    BY <2>1
  <2>5. QED
    BY <2>3, <2>4
<1>6. hresp' \in BOOLEAN /\ (hresp' <=> apb_state' \in {"ERR0", "ERR1"})
  <2>1. hresp' = (apb_state' \in {"ERR0", "ERR1"})
    BY <1>3
  <2>2. (apb_state' \in {"ERR0", "ERR1"}) \in BOOLEAN
    OBVIOUS
  <2>3. hresp' \in BOOLEAN
    BY <2>1, <2>2
  <2>4. hresp' <=> apb_state' \in {"ERR0", "ERR1"}
    BY <2>1
  <2>5. QED
    BY <2>3, <2>4
<1>7. (ready'[apb] <=> hready_resp') /\ (resp'[apb] <=> hresp')
  BY <1>2
<1>8. QED
  BY <1>4, <1>5, <1>6, <1>7 DEF BridgeAnswers

LEMMA BridgeWorksStep ==
    ASSUME OverlapKeepsOff, SocInv, SocNext
    PROVE  BridgeWorks' /\ RegistersOK'
<1>1. PICK a \in SplitterAnswers :
         BridgeStep(dst_request(apb), dst_hready(apb), dst_hwdata(apb), a[1], a[2])
  BY SocCycle
<1>2. apb_state' = apb_state_nxt(dst_request(apb), dst_hready(apb), a[1], a[2])
  BY <1>1 DEF BridgeStep
<1>3. paddr \in Addr /\ regs = [x \in Addr |-> regs[x]]
  BY DEF SocInv, RegistersOK
<1>4. CASE apb_state \in {"READY", "ERR1"}
  <2>1. dst_hready(apb)
    BY <1>4, BridgeHready
  <2>2. apb_state' = aphase_to_dphase(dst_request(apb))
    BY <1>2, <1>4, <2>1 DEF apb_state_nxt, ready_nxt
  <2>3. /\ regs' = regs
        /\ paddr' = IF dst_request(apb) # NoRequest THEN dst_request(apb).addr ELSE paddr
    BY <1>1, <1>4, <2>1 DEF BridgeStep
  <2>4. CASE mast_gnt_a(apb) = NoMaster
    <3>1. op'[apb] = Idle /\ apb_state' = "READY" /\ paddr' = paddr
      BY <2>1, <2>2, <2>3, <2>4, BridgeRequest DEF aphase_to_dphase
    <3>2. QED
      BY <1>3, <2>3, <3>1 DEF BridgeWorks, RegistersOK
  <2>5. CASE mast_gnt_a(apb) # NoMaster
    <3>1. /\ op'[apb] # Idle /\ op'[apb].ctl = dst_request(apb)
          /\ dst_request(apb) \in Request /\ dst_request(apb) # NoRequest
      BY <2>1, <2>5, BridgeRequest
    <3>2. paddr' = op'[apb].ctl.addr /\ paddr' \in Addr
      BY <2>3, <3>1 DEF Request
    <3>3. apb_state' = IF op'[apb].ctl.write THEN "WR0" ELSE "RD0"
      BY <2>2, <3>1 DEF aphase_to_dphase
    <3>4. QED
      BY <1>3, <2>3, <3>1, <3>2, <3>3 DEF BridgeWorks, RegistersOK
  <2>6. QED
    BY <2>4, <2>5
<1>5. CASE apb_state \in {"RD0", "RD1", "WR0", "WR1", "WR2", "ERR0"}
  <2>1. ~dst_hready(apb)
    BY <1>5, BridgeHready
  <2>2. op'[apb] = op[apb] /\ paddr' = paddr
    BY <1>1, <2>1, SocCycle, ApbAssumption DEF SlaveLatch, BridgeStep
  <2>3. op[apb] # Idle /\ op[apb].ctl.addr = paddr
    BY <1>5 DEF SocInv, BridgeWorks
  <2>4. pwdata' = IF apb_state = "WR0" THEN op[apb] ELSE pwdata
    <3>1. mast_gnt_d[apb] \in Master /\ mast_gnt_d[apb] # NoMaster
      BY <2>1, ApbAssumption DEF SocInv, IndInv, TypeOK, dst_hready
    <3>2. dst_hwdata(apb) = op[apb]
      BY <3>1, BridgeServed DEF dst_hwdata
    <3>3. QED
      BY <1>1, <3>2 DEF BridgeStep, pwdata_nxt
  <2>5. /\ regs' = IF apb_state = "WR2" /\ a[1] /\ ~a[2]
                   THEN [regs EXCEPT ![paddr] = pwdata] ELSE regs
        /\ hrdata' = IF apb_state = "RD1" /\ a[1] THEN regs[paddr] ELSE hrdata
    BY <1>1 DEF BridgeStep
  <2>6. RegistersOK'
    BY <1>3, <2>2, <2>5 DEF RegistersOK
  <2>7. CASE apb_state = "WR0"
    <3>1. apb_state' = "WR1" /\ op[apb].ctl.write
      BY <1>2, <2>7 DEF apb_state_nxt, SocInv, BridgeWorks
    <3>2. QED
      BY <2>2, <2>3, <2>4, <2>6, <2>7, <3>1 DEF BridgeWorks
  <2>8. CASE apb_state = "WR1"
    <3>1. apb_state' = "WR2" /\ op[apb].ctl.write /\ pwdata = op[apb]
      BY <1>2, <2>8 DEF apb_state_nxt, SocInv, BridgeWorks
    <3>2. QED
      BY <2>2, <2>3, <2>4, <2>6, <2>8, <3>1 DEF BridgeWorks
  <2>9. CASE apb_state = "RD0"
    <3>1. apb_state' = "RD1" /\ ~op[apb].ctl.write
      BY <1>2, <2>9 DEF apb_state_nxt, SocInv, BridgeWorks
    <3>2. QED
      BY <2>2, <2>3, <2>6, <3>1 DEF BridgeWorks
  <2>10. CASE apb_state = "ERR0"
    <3>1. apb_state' = "ERR1"
      BY <1>2, <2>10 DEF apb_state_nxt
    <3>2. QED
      BY <2>2, <2>3, <2>6, <3>1 DEF BridgeWorks
  <2>11. CASE apb_state \in {"WR2", "RD1"}
    <3>1. apb_state' = IF ~a[1] THEN apb_state ELSE IF a[2] THEN "ERR0" ELSE "READY"
      BY <1>2, <2>11 DEF apb_state_nxt, access_nxt
    <3>2. /\ apb_state = "WR2" => op[apb].ctl.write /\ pwdata = op[apb]
          /\ apb_state = "RD1" => ~op[apb].ctl.write
      BY DEF SocInv, BridgeWorks
    <3>3. CASE ~a[1]
      BY <2>2, <2>3, <2>4, <2>6, <2>11, <3>1, <3>2, <3>3 DEF BridgeWorks
    <3>4. CASE a[1] /\ a[2]
      BY <2>2, <2>3, <2>6, <3>1, <3>4 DEF BridgeWorks
    <3>5. CASE a[1] /\ ~a[2]
      <4>1. apb_state' = "READY" /\ paddr' \in Decoded
        BY <2>2, <3>1, <3>5, SplitterGives
      <4>2. op[apb].ctl.write => regs'[paddr'] = op[apb]
        BY <1>3, <2>2, <2>5, <2>11, <3>2, <3>5
      <4>3. ~op[apb].ctl.write => hrdata' = regs'[paddr']
        BY <2>2, <2>5, <2>11, <3>2, <3>5
      <4>4. QED
        BY <2>2, <2>3, <2>6, <4>1, <4>2, <4>3 DEF BridgeWorks
    <3>6. QED
      BY <3>3, <3>4, <3>5, SplitterGives
  <2>12. QED
    BY <1>5, <2>7, <2>8, <2>9, <2>10, <2>11
<1>6. QED
  BY <1>4, <1>5 DEF SocInv, BridgeAnswers, BridgeState

\* The second cycle of an error follows the first, at the bridge and at its arbiter.
LEMMA BridgeErrors ==
    ASSUME OverlapKeepsOff, SocInv, SocNext
    PROVE  /\ ErrorBegun(apb) <=> apb_state = "ERR0"
           /\ apb_state' = "ERR1" <=> apb_state = "ERR0"
<1>1. PICK a \in SplitterAnswers :
         BridgeStep(dst_request(apb), dst_hready(apb), dst_hwdata(apb), a[1], a[2])
  BY SocCycle
<1>2. apb_state' = apb_state_nxt(dst_request(apb), dst_hready(apb), a[1], a[2])
  BY <1>1 DEF BridgeStep
<1>3. apb_state' = "ERR1" <=> apb_state = "ERR0"
  BY <1>2 DEF SocInv, BridgeAnswers, BridgeState, apb_state_nxt, ready_nxt, access_nxt, aphase_to_dphase
<1>4. QED
  BY <1>3, BridgeHready DEF ErrorBegun, SocInv, BridgeAnswers

\* What the composition answers is what the slaves of the crossbar may answer.
LEMMA SocIsAnswer ==
    ASSUME OverlapKeepsOff, SocInv, SocNext
    PROVE  SlaveAnswer
<1>1. PICK answer \in [{j \in Slave \ {apb} : Undecided(j)} -> {"WAIT", "OKAY", "ERROR"}] :
         /\ ready' = [j \in Slave |-> IF j = apb THEN hready_resp' ELSE ReadyNext(answer, j)]
         /\ resp' = [j \in Slave |-> IF j = apb THEN hresp' ELSE RespNext(answer, j)]
  BY SocCycle DEF SocAnswer
<1> DEFINE all == [j \in {k \in Slave : Undecided(k)} |->
                      IF j # apb THEN answer[j]
                      ELSE IF hready_resp' THEN "OKAY" ELSE IF hresp' THEN "ERROR" ELSE "WAIT"]
<1>2. all \in [{k \in Slave : Undecided(k)} -> {"WAIT", "OKAY", "ERROR"}]
  OBVIOUS
<1>3. /\ BridgeAnswers' /\ BridgeWorks'
      /\ ErrorBegun(apb) <=> apb_state = "ERR0"
      /\ apb_state' = "ERR1" <=> apb_state = "ERR0"
  BY BridgeAnswersStep, BridgeWorksStep, BridgeErrors
<1>4. /\ hready_resp' \in BOOLEAN /\ (hready_resp' <=> apb_state' \in {"READY", "ERR1"})
      /\ hresp' \in BOOLEAN /\ (hresp' <=> apb_state' \in {"ERR0", "ERR1"})
      /\ op'[apb] = Idle => apb_state' = "READY"
  BY <1>3 DEF BridgeAnswers, BridgeWorks
<1>5. (apb \in DOMAIN all) <=> (op'[apb] # Idle /\ ~ErrorBegun(apb))
  BY ApbAssumption DEF Undecided
<1>6. ReadyNext(all, apb) = hready_resp' /\ RespNext(all, apb) = hresp'
  <2>1. ReadyNext(all, apb) \in BOOLEAN /\ RespNext(all, apb) \in BOOLEAN
    BY DEF ReadyNext, RespNext, ErrorBegun
  <2>2. CASE apb \in DOMAIN all
    <3>1. all[apb] = IF hready_resp' THEN "OKAY" ELSE IF hresp' THEN "ERROR" ELSE "WAIT"
      BY <2>2
    <3>2. (ReadyNext(all, apb) <=> all[apb] = "OKAY") /\ (RespNext(all, apb) <=> all[apb] = "ERROR")
      BY <2>2 DEF ReadyNext, RespNext
    <3>3. ~(hready_resp' /\ hresp')
      BY <1>3, <1>4, <1>5, <2>2
    <3>4. QED
      BY <1>4, <2>1, <3>1, <3>2, <3>3
  <2>3. CASE apb \notin DOMAIN all
    <3>1. ReadyNext(all, apb) /\ (RespNext(all, apb) <=> ErrorBegun(apb))
      BY <2>3 DEF ReadyNext, RespNext
    <3>2. hready_resp' /\ (hresp' <=> ErrorBegun(apb))
      BY <1>3, <1>4, <1>5, <2>3
    <3>3. QED
      BY <1>4, <2>1, <3>1, <3>2
  <2>4. QED
    BY <2>2, <2>3
<1>7. ASSUME NEW j \in Slave, j # apb
      PROVE  ReadyNext(all, j) = ReadyNext(answer, j) /\ RespNext(all, j) = RespNext(answer, j)
  <2>1. (j \in DOMAIN all <=> j \in DOMAIN answer) /\ (j \in DOMAIN all => all[j] = answer[j])
    BY <1>7
  <2>2. QED
    BY <2>1 DEF ReadyNext, RespNext
<1> HIDE DEF all
<1>8. /\ ready' = [j \in Slave |-> ReadyNext(all, j)]
      /\ resp' = [j \in Slave |-> RespNext(all, j)]
  <2>1. \A j \in Slave :
           /\ (IF j = apb THEN hready_resp' ELSE ReadyNext(answer, j)) = ReadyNext(all, j)
           /\ (IF j = apb THEN hresp' ELSE RespNext(answer, j)) = RespNext(all, j)
    BY <1>6, <1>7
  <2>2. QED
    BY <1>1, <2>1, Zenon
<1>9. QED
  BY <1>2, <1>8 DEF SlaveAnswer

\* A cycle of the composition is a cycle of the crossbar with some slave.
LEMMA SocIsClock ==
    ASSUME OverlapKeepsOff, SocInv, SocNext
    PROVE  Next
BY SocIsAnswer, SocCycle DEF Next, Clock

LEMMA DrivenStep == DrivenOnly /\ MasterStep => DrivenOnly'
<1> SUFFICES ASSUME DrivenOnly, MasterStep, NEW i \in Master, aphase'[i] # Idle
             PROVE  <<i, [to |-> aphase'[i].to, ctl |-> aphase'[i].ctl]>> \in Drives
  BY DEF DrivenOnly
<1>1. PICK new \in [{k \in Master : ~Holds(k)} -> {d[2] : d \in Drives} \cup {Idle}] :
         /\ \A k \in DOMAIN new : new[k] \in Targets(k) \cup {Idle}
         /\ aphase' = [k \in Master |->
                IF k \notin DOMAIN new THEN aphase[k]
                ELSE IF new[k] = Idle THEN Idle
                ELSE [to |-> new[k].to, ctl |-> new[k].ctl, tag |-> tag[k]]]
  BY DEF MasterStep
<1>2. CASE i \notin DOMAIN new
  BY <1>1, <1>2 DEF DrivenOnly
<1>3. CASE i \in DOMAIN new
  <2>1. new[i] \in Targets(i) /\ aphase'[i] = [to |-> new[i].to, ctl |-> new[i].ctl, tag |-> tag[i]]
    BY <1>1, <1>3
  <2>2. <<i, new[i]>> \in Drives /\ new[i] \in Target
    BY <2>1, DrivesAssumption DEF Targets
  <2>3. new[i] = [to |-> aphase'[i].to, ctl |-> aphase'[i].ctl]
    BY <2>1, <2>2 DEF Target
  <2>4. QED
    BY <2>2, <2>3
<1>4. QED
  BY <1>2, <1>3

LEMMA SocStepInv ==
    ASSUME OverlapKeepsOff
    PROVE  SocInv /\ [SocNext]_socVars => SocInv' /\ [Next]_vars
<1> SUFFICES ASSUME SocInv, [SocNext]_socVars PROVE SocInv' /\ [Next]_vars
  OBVIOUS
<1>1. CASE SocNext
  <2>1. Next
    BY <1>1, SocIsClock
  <2>2. IndInv'
    BY <2>1, StepInv DEF SocInv
  <2>3. BridgeAnswers' /\ BridgeWorks' /\ RegistersOK'
    BY <1>1, BridgeAnswersStep, BridgeWorksStep
  <2>4. DrivenOnly'
    BY <1>1, SocCycle, DrivenStep DEF SocInv
  <2>5. QED
    BY <2>1, <2>2, <2>3, <2>4 DEF SocInv
<1>2. CASE UNCHANGED socVars
  <2>1. UNCHANGED vars /\ UNCHANGED bridge
    BY <1>2 DEF socVars
  <2>2. IndInv'
    BY <2>1, StepInv DEF SocInv
  <2>3. DrivenOnly' /\ BridgeAnswers' /\ BridgeWorks' /\ RegistersOK'
    BY <2>1 DEF vars, environment, bridge, SocInv, DrivenOnly, BridgeAnswers, BridgeWorks, RegistersOK
  <2>4. QED
    BY <2>1, <2>2, <2>3 DEF SocInv
<1>3. QED
  BY <1>1, <1>2

-----------------------------------------------------------------------------
(* The theorems.                                                           *)

\* The inductive invariant holds in every reachable state.
THEOREM SocInvariant == OverlapKeepsOff => (SocSpec => []SocInv)
<1> SUFFICES ASSUME OverlapKeepsOff PROVE SocSpec => []SocInv
  OBVIOUS
<1>1. SocInv /\ [SocNext]_socVars => SocInv'
  BY SocStepInv
<1>2. QED
  BY <1>1, SocInitInv, PTL DEF SocSpec

\* The bridge is a slave as the crossbar assumes one, with its wait states and its
\* two-cycle errors, so the composition implements the crossbar's specification and
\* every theorem about the crossbar holds of it (ahbl_to_apb.v:55-83).
THEOREM BridgeIsSlave == OverlapKeepsOff => (SocSpec => BridgeIsCrossbarSlave /\ Spec)
<1> SUFFICES ASSUME OverlapKeepsOff PROVE SocSpec => BridgeIsCrossbarSlave /\ Spec
  OBVIOUS
<1>1. SocInit => Init
  BY DEF SocInit
<1>2. SocInv /\ [SocNext]_socVars => [Next]_vars
  BY SocStepInv
<1>3. [Next]_vars => [SlaveAnswer]_vars
  BY DEF Next, Clock
<1>4. QED
  BY <1>1, <1>2, <1>3, SocInvariant, PTL DEF SocSpec, Spec, BridgeIsCrossbarSlave

\* What the crossbar promises it keeps with the bridge in its place: every transfer is
\* issued once and answered for itself, the write data follows it, no buffered request is
\* overwritten, an error goes to the master whose transfer it answers, and every error,
\* those of the bridge included, takes two cycles. ahbl_arbiter.v:185-248,
\* ahbl_to_apb.v:55-118.
THEOREM SocKeepsCrossbar ==
    OverlapKeepsOff =>
        (SocSpec => /\ []TypeOK /\ []IssuedExactlyOnce /\ []AnswerIsForTransfer
                    /\ []WriteDataIsForTransfer /\ []BufferIsStalledTransfer
                    /\ []ErrorIsForTransfer /\ TwoCycleError)
BY BridgeIsSlave, TypeCorrect, ExactlyOnce, AnswersBelong, WriteDataBelongs, BufferNeverOverwritten,
   ErrorsBelong, ErrorTakesTwoCycles, PTL

\* The bridge writes the data of the transfer its arbiter has in data phase, to the
\* register that transfer addresses, and only if that transfer is a write.
THEOREM DataIsOwn == OverlapKeepsOff => (SocSpec => []WritesItsOwnData)
<1> SUFFICES ASSUME OverlapKeepsOff PROVE SocSpec => []WritesItsOwnData
  OBVIOUS
<1>1. SocInv => WritesItsOwnData
  <2>1. SUFFICES ASSUME SocInv, pwrite PROVE
           /\ pwdata = op[apb]
           /\ op[apb] # Idle /\ op[apb].ctl = [addr |-> paddr, write |-> TRUE]
    BY DEF WritesItsOwnData
  <2>2. pwdata = op[apb] /\ op[apb] # Idle /\ op[apb].ctl.addr = paddr /\ op[apb].ctl.write
    BY <2>1 DEF SocInv, BridgeWorks, pwrite
  <2>3. op[apb].ctl \in [addr : Addr, write : BOOLEAN]
    BY <2>1, <2>2, ApbAssumption, ControlAssumption DEF SocInv, IndInv, TypeOK, Operation, Request
  <2>4. QED
    BY <2>2, <2>3
<1>2. QED
  BY <1>1, SocInvariant, PTL

\* At the OKAY end of a data phase on the bridge, the bridge has done that transfer.
LEMMA OkayIsDone ==
    ASSUME SocInv, NEW i \in Master, EndsOkay(i)
    PROVE  /\ op[apb] = OperationOf(i, dphase[i]) /\ op[apb] # Idle
           /\ op[apb].ctl = dphase[i].ctl
           /\ dphase[i].ctl.addr = paddr /\ paddr \in Decoded
           /\ dphase[i].ctl.write => regs[paddr] = op[apb]
           /\ ~dphase[i].ctl.write => hrdata = regs[paddr]
<1>1. Serving(apb, i) /\ mast_gnt_d[apb] = i
  BY CompletesIssued DEF SocInv, EndsOkay
<1>2. apb_state = "READY"
  BY <1>1, SeesBridge DEF EndsOkay, Completes
<1>3. dphase[i] \in Transfer
  BY <1>1, ApbAssumption, SlaveAssumption
     DEF SocInv, IndInv, TypeOK, DataPhaseMatches, slave_sel_a, Serving
<1>4. OperationOf(i, dphase[i]) \in Operation /\ OperationOf(i, dphase[i]).ctl = dphase[i].ctl
  BY <1>3 DEF Transfer, Operation, OperationOf
<1>5. op[apb] = OperationOf(i, dphase[i]) /\ op[apb] # Idle /\ op[apb].ctl = dphase[i].ctl
  BY <1>1, <1>4, IdleAssumption DEF Serving
<1>6. QED
  BY <1>2, <1>5 DEF SocInv, BridgeWorks

\* A write that is answered with OKAY is in the register it addresses, and a read has
\* what its register holds, when the master sees HREADY.
THEOREM AccessesLand == OverlapKeepsOff => (SocSpec => []AccessHasLanded)
<1> SUFFICES ASSUME OverlapKeepsOff PROVE SocSpec => []AccessHasLanded
  OBVIOUS
<1>1. SocInv => AccessHasLanded
  BY OkayIsDone DEF AccessHasLanded
<1>2. QED
  BY <1>1, SocInvariant, PTL

\* An access to a hole of the APB address map is never answered with OKAY.
THEOREM HolesAnswerError == OverlapKeepsOff => (SocSpec => []HoleGivesError)
<1> SUFFICES ASSUME OverlapKeepsOff PROVE SocSpec => []HoleGivesError
  OBVIOUS
<1>1. SocInv => HoleGivesError
  BY OkayIsDone DEF HoleGivesError
<1>2. QED
  BY <1>1, SocInvariant, PTL
=============================================================================
