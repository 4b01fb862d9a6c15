\* A write waits longer than the next result takes.
SPECIFICATION Spec
CONSTANTS
    Configs <- TwoOutputs
    W_IDX = 2
    MaxStall = 3
    None = None
    Zero = Zero
INVARIANTS
    OutputsCorrect
