----------------------------- MODULE RegisterBus -----------------------------
(***************************************************************************)
(* What a bus bridge promises its master: it takes one request at a time,  *)
(* performs the access exactly once, atomically, some time before it       *)
(* answers, and the answer is that access's.                               *)
(***************************************************************************)
CONSTANTS Addr, Data, Nothing

VARIABLES regs,     \* the registers
          pending,  \* the request being served, or Nothing
          answer    \* the result of its access once that is done, or Nothing

TypeOK ==
    /\ regs \in [Addr -> Data]
    /\ pending \in {Nothing} \cup [addr : Addr, write : BOOLEAN, data : Data]
    /\ answer \in {Nothing} \cup [ok : BOOLEAN, data : Data]

Init ==
    /\ regs \in [Addr -> Data]
    /\ pending = Nothing
    /\ answer = Nothing

Take(req) == pending' = req /\ answer' = Nothing

Accept(req) == pending = Nothing /\ Take(req) /\ UNCHANGED regs

Access ==
    /\ pending # Nothing /\ answer = Nothing
    /\ \/ /\ pending.write
          /\ regs' = [regs EXCEPT ![pending.addr] = pending.data]
          /\ answer' = [ok |-> TRUE, data |-> pending.data]
       \/ /\ ~pending.write
          /\ answer' = [ok |-> TRUE, data |-> regs[pending.addr]]
          /\ UNCHANGED regs
       \/ /\ \E d \in Data : answer' = [ok |-> FALSE, data |-> d]
          /\ UNCHANGED regs
    /\ UNCHANGED pending

\* The answer is delivered; the next request may be taken in the same step.
Deliver(req) == answer # Nothing /\ Take(req) /\ UNCHANGED regs

Next ==
    \/ \E req \in [addr : Addr, write : BOOLEAN, data : Data] : Accept(req)
    \/ Access
    \/ \E req \in {Nothing} \cup [addr : Addr, write : BOOLEAN, data : Data] : Deliver(req)

Spec == Init /\ [][Next]_<<regs, pending, answer>>
=============================================================================
