\* One fetch over an in-order network that may duplicate a segment, with a
\* server that answers each connection with two or three bytes (three is
\* more than its window of two, so that the data ACKs matter, and fills
\* raw, RAW_CAP - 1 = 3, while two leaves the loop on the FIN), a redirect
\* or not, and may reset; one redirect may be followed.  The model ends when the
\* call returns and the kernel has shown the body or tried the TLS fallback.
CONSTANTS
    DataLen = 3
    RespLens = {2, 3}
    SegMax = 2
    Window = 2
    RxCap = 3
    ReqLen = 1
    MaxDup = 1
    Reorder = FALSE
    Lossy = FALSE
    PeerRst = TRUE
    WaitMax = 2
    RawCap = 4
    MaxRedirects = 1
    LocKinds = {"follow", "https", "missing", "other_host", "unknown"}
SPECIFICATION HttpFairSpec
CHECK_DEADLOCK FALSE
INVARIANTS HttpTypeOK BodyComplete FallbackRefusedOnlyAfterFullRead
PROPERTIES ReturnsUnlessReset ResponseArrives
