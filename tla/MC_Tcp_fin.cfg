\* The peer's FIN overtakes its last data segment in the network.
CONSTANTS
    DataLen = 2
    RespLens = {2}
    SegMax = 1
    Window = 2
    RxCap = 2
    ReqLen = 1
    MaxDup = 0
    Reorder = TRUE
    Lossy = FALSE
    PeerRst = FALSE
SPECIFICATION Spec
CHECK_DEADLOCK FALSE
INVARIANTS FinAtItsSequence
