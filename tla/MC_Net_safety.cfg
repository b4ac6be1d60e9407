\* The send path and the ARP path with destinations inside and outside the
\* subnet, over a link that may lose an ARP request or its reply; the host
\* asked answers every request that is not lost.
CONSTANTS
    g = g  h1 = h1  h2 = h2  r1 = r1  p1 = p1  p2 = p2  p3 = p3
    NoIp = NoIp
    OnLink <- MC_OnLink
    Remote <- MC_Remote
    Gateway = g
    Payloads <- MC_Payloads
    ArpSize = 2
    PendingSize = 2
    MaxTx = 2
    Lossy = TRUE
SPECIFICATION FairSpec
INVARIANTS TypeOK PacketConservation PendingOnlyWhileUnresolved
PROPERTIES OnLinkQueuedEventuallySent
