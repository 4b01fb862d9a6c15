\* Two lines of the flash that compete for one cache line.
SPECIFICATION LiveSpec
CONSTANTS
    Tag = {t1, t2}
    Index = {x1}
    Words = 2
    None = None
    Junk = Junk
INVARIANTS
    TypeOK
    ReadsAreCorrect
    ValidLinesAreComplete
    NoPulseLost
PROPERTIES
    EveryReadEnds
