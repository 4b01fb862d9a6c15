---------------------------- MODULE MCConv1dAccel ----------------------------
(* Layers that take every path of the accelerator, with buffers of four words. *)
EXTENDS Conv1dAccel

Layer(c_out, w_out, patch_bytes, wt, shift) ==
    [c_out |-> c_out, w_out |-> w_out, patch_bytes |-> patch_bytes, step |-> 4,
     wt |-> wt, shift |-> shift]

\* Weights by words and by bytes, partial words, unaligned arrays, patches of one
\* to three words, one to four output positions, one and two channels.
Layers == {Layer(2, 4, 8, 0, 3), Layer(2, 3, 12, 0, 0), Layer(2, 2, 3, 1, 0),
           Layer(1, 1, 4, 0, 0), Layer(2, 1, 6, 0, 2), Layer(1, 3, 4, 2, 1)}

\* One patch of one word, two output positions.
TwoOutputs == {Layer(1, 2, 4, 0, 0)}
==============================================================================
