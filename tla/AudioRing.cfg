\* A ring of two clips and two bursts, counters that wrap.
SPECIFICATION LiveSpec
CONSTANTS
    Clip = 3
    Ring = 8
    MinStep = 1
    Wrap = 32
    CopyBursts = 1
    MaxLag = 8
    None = None
INVARIANTS
    TypeOK
    WindowIsOneClip
    NoSilentGap
    LostWakeUpCostsOneBurst
PROPERTIES
    InferenceRecurs
