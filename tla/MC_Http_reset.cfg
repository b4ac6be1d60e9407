\* The server resets the connection while the caller reads the response;
\* otherwise everything is delivered in order.
CONSTANTS
    DataLen = 2
    RespLens = {2}
    SegMax = 2
    Window = 2
    RxCap = 2
    ReqLen = 1
    MaxDup = 0
    Reorder = FALSE
    Lossy = FALSE
    PeerRst = TRUE
    WaitMax = 2
    RawCap = 4
    MaxRedirects = 1
    LocKinds = {"follow", "https", "missing", "other_host", "unknown"}
SPECIFICATION HttpFairSpec
CHECK_DEADLOCK FALSE
PROPERTIES HttpReturns
