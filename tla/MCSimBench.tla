----------------------------- MODULE MCSimBench -----------------------------
(* A chip of two sectors with a file in most of it, and the two bytes that *)
(* a host programs.                                                        *)
EXTENDS SimBench

File == [a \in 0 .. 11 |-> (a * 23 + 165) % 256]
ProgramData == <<{15}, {240}>>
=============================================================================
