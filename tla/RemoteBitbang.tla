--------------------------- MODULE RemoteBitbang ----------------------------
(***************************************************************************)
(* The JTAG side of both test benches: the remote-bitbang commands that    *)
(* OpenOCD sends over a socket, or that are replayed from a file, drive    *)
(* the JTAG pins between clock cycles. bench tells the two programs apart: *)
(* "cxxrtl" is the loop while (!step) of kws_soc_tb.cpp, in which a        *)
(* command ends the cycle or not, "verilator" is drain_jtag of             *)
(* kws_soc_vpi.cpp, called once per cycle.                                 *)
(*                                                                         *)
(* A step of the bench is one command, one refill of the buffer, or a      *)
(* clock cycle. The design answers on TDO for the pins it has last         *)
(* evaluated, so that an answer names the pin write it belongs to. The     *)
(* client is external, as is the socket.                                   *)
(***************************************************************************)
EXTENDS Integers, Sequences, SequencesExt

CONSTANTS Benches,         \* the programs, of "cxxrtl" and "verilator"
          Sources,         \* of "none" (--no-jtag), "socket" and "replay"
          ClientBytes,     \* what is sent
          FileBytes,       \* what is replayed
          RxSize, TxSize,  \* the buffers
          SocketSize,      \* bytes in flight to the bench, or in the file
          MaxReads,        \* reads in flight
          MaxCycles        \* --cycles

ASSUME BitbangAssumption ==
    /\ Benches \subseteq {"cxxrtl", "verilator"} /\ Sources \subseteq {"none", "socket", "replay"}
    /\ ClientBytes \cup FileBytes \subseteq 0 .. 255 /\ RxSize \in Nat \ {0} /\ TxSize \in Nat \ {0}
    /\ SocketSize \in Nat /\ MaxReads \in Nat /\ MaxCycles \in Nat

VARIABLES
    bench, source,
    pc,           \* start and accept wait for a client; exit and killed are the end
    cycle, g_interrupted,
    conn,         \* the socket: none, open, closed or reset by the client, broken
    to_bench,     \* bytes the client has sent, or the rest of the file
    replies,      \* bytes sent to the client
    rxbuf, txbuf, \* what remains of the buffers
    mask, trst_n, \* the pins as they are driven
    tdo_mask,     \* the pin write that TDO answers
    unseen,       \* per pin, changes since the last clock cycle
    last_mask,    \* client: the pin write sent last
    expect        \* client: the answers it waits for

socket == <<conn, to_bench, replies>>
pins == <<mask, trst_n, tdo_mask, unseen>>
client == <<last_mask, expect>>
bitbang == <<bench, source, pc, cycle, g_interrupted, socket, rxbuf, txbuf, pins, client>>

Stopped == pc \in {"exit", "killed"}

tck(m) == m \div 4

BitbangTypeOK ==
    /\ pc \in {"start", "clock", "jtag", "bytes", "accept", "exit", "killed"}
    /\ conn \in {"none", "open", "closed", "reset", "broken"}
    /\ Len(to_bench) <= SocketSize /\ Len(rxbuf) <= RxSize /\ Len(txbuf) <= TxSize
    /\ mask \in 0 .. 7 /\ trst_n \in {0, 1} /\ tdo_mask \in 0 .. 7
    /\ Len(expect) <= MaxReads /\ cycle \in 0 .. MaxCycles

\* With a port the bench first waits for a client.
FirstPc == IF source = "socket" THEN "start" ELSE "clock"

\* After the reset and its clock pulse.
BitbangInit ==
    /\ bench \in Benches /\ source \in Sources
    /\ pc = FirstPc
    /\ cycle = 0 /\ g_interrupted = FALSE
    /\ conn = "none" /\ replies = <<>>
    /\ to_bench \in IF source = "replay" THEN BoundedSeq(FileBytes, SocketSize) ELSE {<<>>}
    /\ rxbuf = <<>> /\ txbuf = <<>>
    /\ mask = 0 /\ trst_n = 1 /\ tdo_mask = 0 /\ unseen = [tck |-> 0, trst_n |-> 0]
    /\ last_mask = 0 /\ expect = <<>>

-----------------------------------------------------------------------------
(* The commands, as characters.                                            *)

IsMask(c) == c \in 48 .. 55                     \* '0' .. '7': TCK, TMS, TDI
TrstHigh == {114, 115}                          \* 'r', 's'
TrstLow == {116, 117}                           \* 't', 'u'
ReadTdo == 82                                   \* 'R'
QuitCommand == 81                               \* 'Q'
IsPinWrite(c) == IsMask(c) \/ c \in TrstHigh \cup TrstLow

\* MUTANT: a write of TCK does not end the cycle.
EndsCycle_TrstOnly(c) == c \in TrstHigh \/ (bench = "verilator" /\ c \in TrstLow)

\* In the cxxrtl bench 't' and 'u' do not end the cycle.
EndsCycle(c) == IsMask(c) \/ c \in TrstHigh \/ (bench = "verilator" /\ c \in TrstLow)

-----------------------------------------------------------------------------
(* The client.                                                             *)

ClientSend(c) ==
    /\ conn = "open" /\ ~Stopped /\ Len(to_bench) < SocketSize
    /\ c = ReadTdo => Len(expect) < MaxReads
    /\ to_bench' = Append(to_bench, c)
    /\ expect' = IF c = ReadTdo THEN Append(expect, last_mask) ELSE expect
    /\ last_mask' = IF IsMask(c) THEN c - 48 ELSE last_mask
    /\ UNCHANGED <<bench, source, pc, cycle, g_interrupted, conn, replies, rxbuf, txbuf, pins>>

ClientReceive ==
    /\ conn = "open" /\ replies # <<>>
    /\ replies' = Tail(replies) /\ expect' = SubSeq(expect, 2, Len(expect))
    /\ UNCHANGED <<bench, source, pc, cycle, g_interrupted, conn, to_bench, rxbuf, txbuf, pins,
                   last_mask>>

\* The client goes away: with a reset if it has not read everything.
ClientClose ==
    /\ conn = "open" /\ ~Stopped
    /\ conn' = IF replies = <<>> THEN "closed" ELSE "reset"
    /\ replies' = <<>> /\ expect' = <<>>
    /\ UNCHANGED <<bench, source, pc, cycle, g_interrupted, to_bench, rxbuf, txbuf, pins, last_mask>>

-----------------------------------------------------------------------------
(* The socket. Data sent after the client has closed, and the first error  *)
(* after a reset, break the connection; SIGPIPE for data sent after that   *)
(* ends either bench.                                                      *)

Dies(tx) == tx # <<>> /\ conn = "broken"

\* MUTANT: what has been sent stays in the buffer.
Flush_Again(tx) ==
    /\ txbuf' = tx
    /\ replies' = IF conn = "open" THEN replies \o tx ELSE replies
    /\ conn' = IF tx # <<>> /\ conn \in {"closed", "reset"} THEN "broken" ELSE conn

Flush(tx) ==
    /\ txbuf' = <<>>
    /\ replies' = IF conn = "open" THEN replies \o tx ELSE replies
    /\ conn' = IF tx # <<>> /\ conn \in {"closed", "reset"} THEN "broken" ELSE conn

\* MUTANT: an empty buffer is refilled while answers wait.
AtRefill_Later(tx) == UNCHANGED <<txbuf, replies, conn>>

\* The cxxrtl bench sends what it has before it reads on.
AtRefill(tx) == Flush(tx)

Keep(tx) == txbuf' = tx /\ UNCHANGED <<replies, conn>>

\* On in the same cycle, once tx is sent.
Continue(p, tx) == pc' = (IF Dies(tx) THEN "killed" ELSE p) /\ UNCHANGED cycle

\* The end of the loop's body: the quit flag, the number of cycles, an interrupt.
EndCycle(quit, tx) ==
    /\ cycle' = IF MaxCycles = 0 THEN 0 ELSE cycle + 1
    /\ pc' = IF Dies(tx) THEN "killed"
             ELSE IF quit \/ (MaxCycles # 0 /\ cycle + 1 = MaxCycles) \/ g_interrupted
             THEN "exit" ELSE "clock"

\* SIGINT: only the verilator bench has a handler, which sets a flag.
Interrupt ==
    /\ ~Stopped /\ ~g_interrupted
    /\ IF bench = "verilator" THEN g_interrupted' = TRUE /\ UNCHANGED pc
       ELSE pc' = "killed" /\ UNCHANGED g_interrupted
    /\ UNCHANGED <<bench, source, cycle, socket, rxbuf, txbuf, pins, client>>

\* wait_for_connection, before the first cycle or after a client has gone. The
\* verilator bench then ends the cycle, the other one goes on reading.
Accept ==
    /\ pc \in {"start", "accept"}
    /\ conn' = "open" /\ to_bench' = <<>> /\ last_mask' = mask
    /\ IF pc = "start" THEN Continue("clock", <<>>)
       ELSE IF bench = "cxxrtl" THEN Continue("jtag", <<>>)
       ELSE EndCycle(FALSE, <<>>)
    /\ UNCHANGED <<bench, source, g_interrupted, replies, rxbuf, txbuf, pins, expect>>

-----------------------------------------------------------------------------
\* A clock cycle: both edges, and the design sees the pins as they are.
BitbangClock ==
    /\ pc = "clock"
    /\ unseen' = [tck |-> 0, trst_n |-> 0] /\ tdo_mask' = mask
    /\ IF source = "none" THEN EndCycle(FALSE, <<>>) ELSE Continue("jtag", <<>>)
    /\ UNCHANGED <<bench, source, g_interrupted, socket, rxbuf, txbuf, mask, trst_n, client>>

\* read() in the cxxrtl bench, which goes on until a command ends the cycle. At the
\* end of a file nothing does: got_exit_cmd is only looked at after the loop.
CxxrtlRefill ==
    /\ bench = "cxxrtl" /\ pc = "jtag" /\ rxbuf = <<>>
    /\ LET n == IF Len(to_bench) < RxSize THEN Len(to_bench) ELSE RxSize
       IN  /\ rxbuf' = SubSeq(to_bench, 1, n) /\ to_bench' = SubSeq(to_bench, n + 1, Len(to_bench))
           /\ AtRefill(txbuf)
           /\ CASE n > 0 \/ source = "replay" -> Continue("jtag", txbuf)
                [] n = 0 /\ conn = "open"     -> EndCycle(FALSE, txbuf)
                [] n = 0 /\ conn = "reset" /\ txbuf = <<>> -> EndCycle(TRUE, <<>>)
                [] OTHER -> Continue("accept", txbuf)
    /\ UNCHANGED <<bench, source, g_interrupted, pins, client>>

\* recv() in drain_jtag, which returns if there is nothing to process.
VerilatorRefill ==
    /\ bench = "verilator" /\ pc = "jtag" /\ rxbuf = <<>>
    /\ LET n == IF Len(to_bench) < RxSize THEN Len(to_bench) ELSE RxSize
       IN  /\ rxbuf' = SubSeq(to_bench, 1, n) /\ to_bench' = SubSeq(to_bench, n + 1, Len(to_bench))
           /\ CASE n > 0 -> Continue("bytes", <<>>)
                [] n = 0 /\ source = "replay" -> EndCycle(TRUE, <<>>)
                [] n = 0 /\ conn \in {"open", "reset"} -> EndCycle(FALSE, <<>>)
                [] OTHER -> Continue("accept", <<>>)
           /\ conn' = IF n = 0 /\ conn = "reset" THEN "broken" ELSE conn
    /\ UNCHANGED <<bench, source, g_interrupted, replies, txbuf, pins, client>>

-----------------------------------------------------------------------------
(* One byte of the buffer.                                                 *)

Bytes == IF bench = "verilator" THEN "bytes" ELSE "jtag"

TakeByte(c) ==
    /\ pc \in {"jtag", "bytes"} /\ rxbuf # <<>> /\ c = Head(rxbuf)
    /\ rxbuf' = Tail(rxbuf)
    /\ UNCHANGED <<bench, source, g_interrupted, to_bench, client>>

\* The verilator bench evaluates the design at once after a write of TCK.
PinWrite(c) ==
    /\ TakeByte(c) /\ IsPinWrite(c)
    /\ mask' = IF IsMask(c) THEN c - 48 ELSE mask
    /\ trst_n' = IF c \in TrstHigh THEN 1 ELSE IF c \in TrstLow THEN 0 ELSE trst_n
    /\ tdo_mask' = IF bench = "verilator" /\ IsMask(c) THEN mask' ELSE tdo_mask
    /\ unseen' = [tck    |-> IF tck(mask') # tck(mask) THEN unseen.tck + 1 ELSE unseen.tck,
                  trst_n |-> IF trst_n' # trst_n THEN unseen.trst_n + 1 ELSE unseen.trst_n]
    /\ IF bench = "verilator" THEN Flush(txbuf) ELSE Keep(txbuf)
    /\ LET sent == IF bench = "verilator" THEN txbuf ELSE <<>>
       IN  IF EndsCycle(c) THEN EndCycle(FALSE, sent) ELSE Continue(Bytes, sent)

\* The cxxrtl bench also sends when the buffer is used up.
SampleTdo(c) ==
    /\ TakeByte(c) /\ c = ReadTdo
    /\ LET tx == Append(txbuf, tdo_mask)
       IN  IF Len(tx) = TxSize \/ (bench = "cxxrtl" /\ rxbuf' = <<>>)
           THEN Flush(tx) /\ Continue(Bytes, tx)
           ELSE Keep(tx) /\ Continue(Bytes, <<>>)
    /\ UNCHANGED pins

\* Answers are sent first, but by the cxxrtl bench not.
Quit(c) ==
    /\ TakeByte(c) /\ c = QuitCommand
    /\ IF bench = "verilator" THEN Flush(txbuf) /\ EndCycle(TRUE, txbuf)
       ELSE Keep(txbuf) /\ EndCycle(TRUE, <<>>)
    /\ UNCHANGED pins

\* A blink or an unknown byte.
Ignore(c) ==
    /\ TakeByte(c) /\ ~IsPinWrite(c) /\ c \notin {ReadTdo, QuitCommand}
    /\ Keep(txbuf) /\ Continue(Bytes, <<>>)
    /\ UNCHANGED pins

\* drain_jtag returns with the buffer used up.
Drained ==
    /\ pc = "bytes" /\ rxbuf = <<>>
    /\ Flush(txbuf) /\ EndCycle(FALSE, txbuf)
    /\ UNCHANGED <<bench, source, g_interrupted, to_bench, rxbuf, pins, client>>

DrainJtag ==
    \/ CxxrtlRefill \/ VerilatorRefill \/ Drained
    \/ \E c \in ClientBytes \cup FileBytes : PinWrite(c) \/ SampleTdo(c) \/ Quit(c) \/ Ignore(c)

BenchStep == BitbangClock \/ DrainJtag

ClientStep == (\E c \in ClientBytes : ClientSend(c)) \/ ClientReceive \/ ClientClose

BitbangNext == BenchStep \/ ClientStep \/ Accept \/ Interrupt

-----------------------------------------------------------------------------
\* The client is given the answers it asked for, in order, each for the pin write it
\* sent last before it asked, also across reconnects and buffer boundaries.
\* kws_soc_tb.cpp:407-440, kws_soc_vpi.cpp:349-431.
AnswersInOrder == conn = "open" => IsPrefix(replies \o txbuf, expect)

\* The synchronisers of the debug module see every edge of TCK: never two of them
\* between clock cycles, and in the verilator bench no two of TRST either. A TRST
\* pulse of the cxxrtl bench may be lost. kws_soc_vpi.cpp:331-341, kws_soc_tb.cpp:410-425.
NoEdgeMissed ==
    /\ unseen.tck <= 1
    /\ bench = "verilator" => unseen.trst_n <= 1

\* A client that waits for an answer is sent one, whatever else it sends, unless it
\* closes or the bench ends. kws_soc_tb.cpp:427-444, kws_soc_vpi.cpp:323-328,414-432.
EveryReadAnswered == expect # <<>> /\ conn = "open" ~> replies # <<>> \/ conn # "open" \/ Stopped

\* A replay ends with its file or with the number of cycles. kws_soc_tb.cpp:51
\* says of the latter: "Maximum number of cycles to run before exiting".
ReplayEnds == source = "replay" ~> Stopped
=============================================================================
