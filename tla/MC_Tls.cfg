\* A reliable, in-order network and a server that answers the SYN: the
\* socket g_sock reaches ESTABLISHED while the TLS code waits on its copy.
CONSTANTS
    DataLen = 2
    RespLens = {2}
    SegMax = 2
    Window = 2
    RxCap = 2
    ReqLen = 1
    MaxDup = 0
    Reorder = FALSE
    Lossy = FALSE
    PeerRst = FALSE
SPECIFICATION TlsFairSpec
CHECK_DEADLOCK FALSE
PROPERTIES HandshakeSends
