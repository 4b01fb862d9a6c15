\* KWS_DS_EN = 0: a clip of 16000 bytes in a ring of 16384.
SPECIFICATION Spec
CONSTANTS
    Clip = 3
    Ring = 4
    MinStep = 1
    Wrap = 32
    CopyBursts = 1
    MaxLag = 8
    None = None
INVARIANTS
    WindowIsOneClip
