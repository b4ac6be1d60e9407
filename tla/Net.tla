--------------------------------- MODULE Net ---------------------------------
(***************************************************************************)
(* The Ethernet/ARP layer and the IPv4 send path of src/net.c: the ARP     *)
(* cache arp_cache[8], the queue pending[8] of packets waiting for address *)
(* resolution, net_send_ip and the ARP branch of net_rx.                   *)
(*                                                                         *)
(* Data abstraction.  An IPv4 address is a model value: OnLink are the     *)
(* hosts inside the configured subnet (the test                            *)
(* ((dst ^ ip) & netmask) == 0 of net_send_ip), Remote the hosts outside   *)
(* it, Gateway the configured gateway.  NoIp is the address 0 that marks a *)
(* free slot in both tables.  A payload is a model value; each one is the  *)
(* payload of exactly one net_send_ip call, so that a payload names a call.*)
(* The MAC half of an ARP entry is not kept: the only ARP frames the link  *)
(* delivers are a host's announcement of its own address, so the MAC of    *)
(* an entry is always the MAC of the host it names.                        *)
(*                                                                         *)
(* The link: arp_req is the set of addresses for which an ARP request is   *)
(* on the wire (send_arp_request); the host asked answers it (PeerReply),  *)
(* or the request or the reply is lost (LoseArpRequest).  Any on-link host *)
(* can also broadcast an ARP frame of its own at any time (PeerAnnounce):  *)
(* net_rx stores the sender of requests and replies alike.  frames is the  *)
(* set of IPv4 frames handed to nic_tx.                                    *)
(***************************************************************************)
EXTENDS Naturals, FiniteSets, FiniteSetsExt

CONSTANTS OnLink,      \* addresses inside the subnet
          Remote,      \* addresses outside the subnet
          Gateway,     \* g_netif.gw_ip
          Payloads,    \* payloads of net_send_ip calls, one call each
          NoIp,        \* the address 0
          ArpSize,     \* number of slots of arp_cache (8 in the code)
          PendingSize, \* number of slots of pending (8 in the code)
          MaxTx,       \* cap on the per-payload transmit counter
          Lossy        \* whether ARP requests or replies can be lost

ASSUME /\ Gateway \in OnLink
       /\ OnLink \cap Remote = {}
       /\ NoIp \notin OnLink \cup Remote
       /\ ArpSize \in Nat \ {0} /\ PendingSize \in Nat \ {0}
       /\ MaxTx \in Nat /\ MaxTx >= 2
       /\ Lossy \in BOOLEAN

Hosts == OnLink \cup Remote
ArpSlots == 0 .. ArpSize - 1
PendSlots == 0 .. PendingSize - 1

VARIABLES arp_cache, \* arp_cache[i].ip
          pending,   \* pending[i].dst_ip and the payload in the slot
          arp_req,   \* targets of ARP requests on the wire
          frames,    \* IPv4 frames given to nic_tx
          nTx,       \* per payload, how many times it was given to nic_tx
          asked,     \* per payload, the dst_ip its net_send_ip call asked for
          dropped,   \* payloads net_send_ip dropped because pending was full
          stranded   \* payloads that waited on a host when its ARP request was lost

vars == <<arp_cache, pending, arp_req, frames, nTx, asked, dropped, stranded>>

Frame == [dst : Hosts, data : Payloads, hop : OnLink]

TypeOK ==
    /\ arp_cache \in [ArpSlots -> OnLink \cup {NoIp}]
    /\ pending \in [PendSlots -> [dst : Hosts \cup {NoIp}, data : Payloads \cup {NoIp}]]
    /\ arp_req \subseteq OnLink
    /\ frames \subseteq Frame
    /\ nTx \in [Payloads -> 0 .. MaxTx]
    /\ asked \in [Payloads -> Hosts \cup {NoIp}]
    /\ dropped \subseteq Payloads
    /\ stranded \subseteq Payloads

Init ==
    /\ arp_cache = [i \in ArpSlots |-> NoIp]
    /\ pending = [i \in PendSlots |-> [dst |-> NoIp, data |-> NoIp]]
    /\ arp_req = {}
    /\ frames = {}
    /\ nTx = [x \in Payloads |-> 0]
    /\ asked = [x \in Payloads |-> NoIp]
    /\ dropped = {}
    /\ stranded = {}

-----------------------------------------------------------------------------
(* Helpers of net.c                                                        *)

\* Variant of NextHop that sends every address directly, without routing
\* through the gateway (a plausible defect).
NextHop_direct(d) == d

\* net_send_ip: the gateway is the next hop of an address outside the subnet.
NextHop(d) == IF d \in OnLink THEN d ELSE Gateway

\* arp_lookup: whether some slot holds the address.
arp_lookup(ip) == \E i \in ArpSlots : arp_cache[i] = ip

\* arp_store: keep an existing entry, else take the first free slot, else
\* overwrite slot 0.
arp_store(ip) ==
    LET free == {i \in ArpSlots : arp_cache[i] = NoIp}
    IN  IF arp_lookup(ip) THEN arp_cache
        ELSE IF free # {} THEN [arp_cache EXCEPT ![Min(free)] = ip]
        ELSE [arp_cache EXCEPT ![0] = ip]

\* The per-payload transmit counters after nic_tx was given the payloads of
\* the slots S of pending (S = {} for none) and the payload x (NoIp for none).
Counted(S, x) ==
    [y \in Payloads |->
        Min({MaxTx, nTx[y] + Cardinality({i \in S : pending[i].data = y})
                           + (IF y = x THEN 1 ELSE 0)})]

\* The hit path of net_send_ip: build the Ethernet and IPv4 headers for the
\* resolved next hop and give the frame to nic_tx.
TransmitNow(d, x) ==
    /\ frames' = frames \cup {[dst |-> d, data |-> x, hop |-> NextHop(d)]}
    /\ nTx' = Counted({}, x)

\* Variant of the miss path that queues the packet but sends no ARP
\* request (a plausible defect).
EnqueueAndArp_noreq(d, x) ==
    LET free == {i \in PendSlots : pending[i].dst = NoIp}
    IN  /\ IF free # {}
           THEN /\ pending' = [pending EXCEPT ![Min(free)] = [dst |-> d, data |-> x]]
                /\ UNCHANGED dropped
           ELSE /\ dropped' = dropped \cup {x}
                /\ UNCHANGED pending
        /\ UNCHANGED arp_req

\* The miss path of net_send_ip: put the packet, with its original
\* destination, into the first free slot of pending, or drop it when there
\* is none; in both cases send one ARP request for the next hop.
EnqueueAndArp(d, x) ==
    LET free == {i \in PendSlots : pending[i].dst = NoIp}
    IN  /\ IF free # {}
           THEN /\ pending' = [pending EXCEPT ![Min(free)] = [dst |-> d, data |-> x]]
                /\ UNCHANGED dropped
           ELSE /\ dropped' = dropped \cup {x}
                /\ UNCHANGED pending
        /\ arp_req' = arp_req \cup {NextHop(d)}

-----------------------------------------------------------------------------
(* Operations                                                              *)

\* net_send_ip(dst_ip, proto, payload, len), called by the UDP and TCP layers.
net_send_ip(d, x) ==
    /\ asked[x] = NoIp
    /\ asked' = [asked EXCEPT ![x] = d]
    /\ IF arp_lookup(NextHop(d))
       THEN /\ TransmitNow(d, x)
            /\ UNCHANGED <<pending, arp_req, dropped>>
       ELSE /\ EnqueueAndArp(d, x)
            /\ UNCHANGED <<frames, nTx>>
    /\ UNCHANGED <<arp_cache, stranded>>

\* Variant of flush_pending_for_ip that resends the matching slots but
\* leaves them busy (a plausible defect).
flush_pending_keep(ip) ==
    LET S == {i \in PendSlots : pending[i].dst = ip}
    IN  /\ frames' = frames \cup {[dst |-> pending[i].dst, data |-> pending[i].data,
                                   hop |-> NextHop(pending[i].dst)] : i \in S}
        /\ nTx' = Counted(S, NoIp)
        /\ UNCHANGED pending

\* flush_pending_for_ip: every slot whose dst_ip equals the address just
\* learned is resent through net_send_ip and cleared (dst_ip = 0; the stale
\* payload stays in the slot).  A matching slot holds an on-link address
\* equal to the one just stored, so the nested net_send_ip takes its hit
\* path.
flush_pending_for_ip(ip) ==
    LET S == {i \in PendSlots : pending[i].dst = ip}
    IN  /\ frames' = frames \cup {[dst |-> pending[i].dst, data |-> pending[i].data,
                                   hop |-> NextHop(pending[i].dst)] : i \in S}
        /\ nTx' = Counted(S, NoIp)
        /\ pending' = [i \in PendSlots |->
                         IF i \in S THEN [pending[i] EXCEPT !.dst = NoIp]
                                    ELSE pending[i]]

\* Variant of the ARP branch that stores the sender without flushing the
\* queue (a plausible defect).
net_rx_arp_noflush(spa) ==
    /\ spa # NoIp
    /\ arp_cache' = arp_store(spa)
    /\ UNCHANGED <<pending, frames, nTx, asked, dropped, stranded>>

\* The ARP branch of net_rx: a well-formed ARP frame (request or reply)
\* with a non-zero sender address stores the sender and flushes the packets
\* queued for it.
net_rx_arp(spa) ==
    /\ spa # NoIp
    /\ arp_cache' = arp_store(spa)
    /\ flush_pending_for_ip(spa)
    /\ UNCHANGED <<asked, dropped, stranded>>

-----------------------------------------------------------------------------
(* The link                                                                *)

\* The host an ARP request asked for answers it.
PeerReply(t) ==
    /\ t \in arp_req
    /\ arp_req' = arp_req \ {t}
    /\ net_rx_arp(t)

\* An on-link host broadcasts an ARP frame of its own (a request for some
\* other address, or a gratuitous announcement).
PeerAnnounce(h) ==
    /\ net_rx_arp(h)
    /\ UNCHANGED arp_req

\* An ARP request, or its reply, is lost; nothing in net.c resends it.  The
\* packets queued for that next hop are recorded as stranded.
LoseArpRequest(t) ==
    /\ Lossy
    /\ t \in arp_req
    /\ arp_req' = arp_req \ {t}
    /\ stranded' = stranded \cup {pending[i].data : i \in {j \in PendSlots :
                                   pending[j].dst # NoIp /\ NextHop(pending[j].dst) = t}}
    /\ UNCHANGED <<arp_cache, pending, frames, nTx, asked, dropped>>

Next ==
    \/ \E d \in Hosts, x \in Payloads : net_send_ip(d, x)
    \/ \E t \in OnLink : PeerReply(t)
    \/ \E h \in OnLink : PeerAnnounce(h)
    \/ \E t \in OnLink : LoseArpRequest(t)

\* The host asked answers while the poll loops of the callers keep running.
Fairness == \A t \in OnLink : WF_vars(PeerReply(t))

Spec == Init /\ [][Next]_vars
FairSpec == Spec /\ Fairness

-----------------------------------------------------------------------------
(* Properties                                                              *)

QueuedSlots(x) == {i \in PendSlots : pending[i].dst # NoIp /\ pending[i].data = x}

\* Every net_send_ip call is accounted for exactly once: its packet was
\* given to nic_tx once, or it waits in exactly one pending slot, or it was
\* dropped because pending was full.  Broken by a flush that resends a slot
\* without clearing it, or by an enqueue that overwrites a busy slot.
PacketConservation ==
    \A x \in Payloads :
        asked[x] # NoIp =>
            nTx[x] + Cardinality(QueuedSlots(x)) + (IF x \in dropped THEN 1 ELSE 0) = 1

\* Spec section 3: a pending entry for a host of the subnet exists only while
\* that host's hardware address is unresolved (flush_pending_for_ip runs as
\* the ARP entry is stored).  Entries for remote hosts wait on the gateway's
\* address, which the flush does not match; QueuedEventuallySent shows that.
PendingOnlyWhileUnresolved ==
    \A i \in PendSlots :
        pending[i].dst \in OnLink => ~arp_lookup(pending[i].dst)

\* A packet queued on an ARP miss is eventually given to nic_tx, once the
\* next hop answers the ARP request.
QueuedEventuallySent ==
    \A x \in Payloads : (QueuedSlots(x) # {}) ~> (nTx[x] > 0)

\* A packet queued on an ARP miss for a host of the subnet is eventually
\* given to nic_tx once that host answers, whatever the packets for remote
\* hosts do to the queue and the ARP cache meanwhile; the one exception is
\* a packet stranded by the loss of its ARP request, which net.c never
\* resends.
OnLinkQueuedEventuallySent ==
    \A x \in Payloads :
        (QueuedSlots(x) # {} /\ asked[x] \in OnLink) ~> (nTx[x] > 0 \/ x \in stranded)

=============================================================================
