\* A response of three bytes in segments of one or two bytes, a buffer that
\* holds it, a network that loses, reorders and duplicates, a peer that may
\* reset.  The model ends with the one connection; nothing runs after it.
CONSTANTS
    DataLen = 3
    RespLens = {3}
    SegMax = 2
    Window = 2
    RxCap = 3
    ReqLen = 1
    MaxDup = 1
    Reorder = TRUE
    Lossy = TRUE
    PeerRst = TRUE
SPECIFICATION Spec
CHECK_DEADLOCK FALSE
INVARIANTS TypeOK
PROPERTIES StreamRefinement
