\* Pipelined transfers, wait states and errors on two one-bit registers.
SPECIFICATION LiveSpec
CONSTANTS
    Addr = {r1, r2}
    Data = {0, 1}
    NoRequest = NoRequest
INVARIANTS
PROPERTIES
    BridgeServes
    ApbProtocol
    EveryTransferEnds
