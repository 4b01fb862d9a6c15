\* Loads wait any number of cycles, writes at most two.
SPECIFICATION LiveSpec
CONSTANTS
    Configs <- Layers
    W_IDX = 2
    MaxStall = 2
    None = None
    Zero = Zero
INVARIANTS
    OutputsCorrect
    DoneLeavesLastWrite
    EachOutputOnce
    LoadsStayInArrays
PROPERTIES
    AhbMaster
    LayerEnds
