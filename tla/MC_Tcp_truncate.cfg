\* A buffer smaller than the response and a reliable in-order network: the
\* peer keeps sending within the fixed advertised window while the
\* application has not read.
CONSTANTS
    DataLen = 4
    RespLens = {4}
    SegMax = 2
    Window = 2
    RxCap = 2
    ReqLen = 1
    MaxDup = 0
    Reorder = FALSE
    Lossy = FALSE
    PeerRst = FALSE
SPECIFICATION Spec
CHECK_DEADLOCK FALSE
INVARIANTS StreamIntegrity
