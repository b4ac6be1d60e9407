\* Even when every ARP request is answered, a packet queued for a
\* destination outside the subnet is never sent.
CONSTANTS
    g = g  h1 = h1  h2 = h2  r1 = r1  p1 = p1  p2 = p2  p3 = p3
    NoIp = NoIp
    OnLink <- MC_OnLink
    Remote <- MC_Remote
    Gateway = g
    Payloads <- MC_Payloads
    ArpSize = 2
    PendingSize = 2
    MaxTx = 2
    Lossy = FALSE
SPECIFICATION FairSpec
PROPERTIES QueuedEventuallySent
