---------------------------------- MODULE Http ---------------------------------
(***************************************************************************)
(* http_get_by_ip_port of src/http.c driving the TCP socket of Tcp: for    *)
(* each round of the redirect loop, tcp_init and tcp_connect, the wait for *)
(* ESTABLISHED bounded by a poll count, the request, the read loop that    *)
(* polls the NIC and drains the socket until it is closing, tcp_close, and *)
(* the status check that follows a redirect or returns the body.           *)
(*                                                                         *)
(* A poll of the NIC (rtl8139_poll) hands at most one of the peer's        *)
(* segments to tcp_on_rx; segments are delivered only inside the polls of  *)
(* the two loops, the only places http.c polls.  Each connection is a new  *)
(* one: tcp_init clears g_sock, and segments of the previous connection    *)
(* fail the port check of tcp_on_rx (a new ephemeral port), so they are    *)
(* dropped.  The server decides per connection whether its answer is a     *)
(* redirect and how long it is (one of RespLens); the status line is in the first byte of the response, and the *)
(* Location header is one of LocKinds.  The body is the whole response     *)
(* (header stripping and out_cap are not modelled).  The network may       *)
(* duplicate the peer's segments and the peer may reset; loss and          *)
(* reordering, whose effect on the socket Tcp shows, are left out here.    *)
(***************************************************************************)
EXTENDS Tcp

CONSTANTS WaitMax,      \* polls of the connect wait (300000 in the code)
          RawCap,       \* RAW_CAP (32768 in the code)
          MaxRedirects, \* MAX_REDIRECTS (5 in the code)
          LocKinds      \* Location headers the server may send

\* The returns of the redirect branch: a followable Location (an IPv4
\* literal, the same host, or an absolute path), https (-11), no Location
\* (-12), another host name (-13), an unknown form (-14).
LocCode == [https |-> -11, missing |-> -12, other_host |-> -13, unknown |-> -14]

ASSUME /\ WaitMax \in Nat \ {0} /\ RawCap \in Nat \ {0, 1} /\ MaxRedirects \in Nat
       /\ LocKinds \subseteq {"follow"} \cup DOMAIN LocCode

VARIABLES hpc,      \* where http_get_by_ip_port is
          waited,   \* polls of the connect wait so far
          redir,    \* round of the redirect loop
          redirect, \* whether the server's answer on this connection is a redirect
          hret      \* http_last_ret, the value returned

tcpVars == <<sockVars, got, connected, requested, app_closed, fin_rcvd, sent, net, peerVars, dups>>
httpVars == <<hpc, waited, redir, redirect, hret>>
allVars == <<tcpVars, httpVars>>

Pcs == {"connect", "wait", "send", "read", "recv", "close", "status", "done",
        "shown", "tls", "tls_refused"}
FinStates == {"FIN_WAIT1", "FIN_WAIT2", "TIME_WAIT"}

HttpTypeOK ==
    /\ TypeOK
    /\ hpc \in Pcs /\ waited \in 0 .. WaitMax /\ redir \in 0 .. MaxRedirects
    /\ redirect \in BOOLEAN
    /\ hret \in {-999, -3, -15, 0} \cup {LocCode[k] : k \in DOMAIN LocCode} \cup 1 .. RawCap

HttpInit ==
    /\ Init
    /\ hpc = "connect" /\ waited = 0 /\ redir = 0 /\ redirect = FALSE /\ hret = -999

-----------------------------------------------------------------------------
(* http.c                                                                  *)

\* One rtl8139_poll: the segment at the head of the network (any segment
\* when it reorders) reaches tcp_on_rx, or nothing has arrived.
Poll ==
    \/ \E i \in 1 .. Len(net) : Deliver(i)
    \/ UNCHANGED tcpVars

\* Variant of CloseSock whose tcp_close only starts the active close and
\* never frees a socket that is not ESTABLISHED (a plausible defect).
CloseSock_nofree == IF in_use /\ state = "ESTABLISHED" THEN tcp_close ELSE UNCHANGED tcpVars

\* tcp_close(&g_sock), a no-op on a socket no longer in use (reset by the
\* peer).
CloseSock == IF in_use THEN tcp_close ELSE UNCHANGED tcpVars

\* tcp_init() and tcp_connect(&g_sock, ip, port, 0): a cleared socket passes
\* the in_use test, sends its SYN and enters SYN_SENT; the connection, and
\* the server, are new.
ConnectFresh ==
    /\ in_use' = TRUE /\ state' = "SYN_SENT" /\ snd_nxt' = 1 /\ rcv_nxt' = 0 /\ rx' = <<>>
    /\ sent' = {Seg({"SYN"}, 0, 0, 0)} /\ net' = <<>>
    /\ got' = <<>> /\ connected' = TRUE /\ requested' = FALSE
    /\ app_closed' = FALSE /\ fin_rcvd' = FALSE
    /\ psent' = 0 /\ psyn' = FALSE /\ pfin' = FALSE /\ packed' = FALSE /\ prst' = FALSE
    /\ plen' \in RespLens
    /\ dups' = 0
    /\ redirect' \in BOOLEAN
    /\ hpc' = "wait" /\ waited' = 0
    /\ UNCHANGED <<redir, hret>>

\* The top of each round of the redirect loop.
Connect ==
    /\ hpc = "connect"
    /\ ConnectFresh

\* One iteration of the wait for ESTABLISHED.
WaitPoll ==
    /\ hpc = "wait" /\ state # "ESTABLISHED" /\ waited < WaitMax
    /\ Poll
    /\ waited' = waited + 1
    /\ UNCHANGED <<hpc, redir, redirect, hret>>

\* The wait ends: send the request when ESTABLISHED, else tcp_close and -3.
WaitDone ==
    /\ hpc = "wait" /\ (state = "ESTABLISHED" \/ waited = WaitMax)
    /\ IF state = "ESTABLISHED"
       THEN /\ hpc' = "send" /\ UNCHANGED <<tcpVars, hret>>
       ELSE /\ CloseSock /\ hret' = -3 /\ hpc' = "done"
    /\ UNCHANGED <<waited, redir, redirect>>

\* tcp_send of the GET request (the socket is ESTABLISHED: no poll ran
\* since the check).
Request ==
    /\ hpc = "send"
    /\ tcp_send
    /\ hpc' = "read"
    /\ UNCHANGED <<waited, redir, redirect, hret>>

\* The read loop, while total_raw < RAW_CAP - 1: rtl8139_poll, ...
ReadPoll ==
    /\ hpc = "read"
    /\ Poll
    /\ hpc' = "recv"
    /\ UNCHANGED <<waited, redir, redirect, hret>>

\* Variant of Recv that takes an empty read as the end of the response,
\* whatever the state of the socket (a plausible defect).
Recv_eof ==
    /\ hpc = "recv"
    /\ IF Len(rx) > 0
       THEN /\ tcp_recv(RawCap - 1 - Len(got))
            /\ hpc' = IF Len(got') >= RawCap - 1 THEN "close" ELSE "read"
       ELSE /\ hpc' = "close"
            /\ UNCHANGED tcpVars
    /\ UNCHANGED <<waited, redir, redirect, hret>>

\* ... then tcp_recv into the rest of raw; with nothing to read, leave the
\* loop only when the socket is closing (FIN_WAIT1, FIN_WAIT2, TIME_WAIT).
Recv ==
    /\ hpc = "recv"
    /\ IF Len(rx) > 0
       THEN /\ tcp_recv(RawCap - 1 - Len(got))
            /\ hpc' = IF Len(got') >= RawCap - 1 THEN "close" ELSE "read"
       ELSE /\ hpc' = IF state \in FinStates THEN "close" ELSE "read"
            /\ UNCHANGED tcpVars
    /\ UNCHANGED <<waited, redir, redirect, hret>>

\* tcp_close(&g_sock) after the read loop; an empty response returns 0.
CloseConn ==
    /\ hpc = "close"
    /\ CloseSock
    /\ IF got = <<>>
       THEN hret' = 0 /\ hpc' = "done"
       ELSE hpc' = "status" /\ UNCHANGED hret
    /\ UNCHANGED <<waited, redir, redirect>>

\* Variants of FollowRedirect (plausible defects): the round counter is
\* not advanced; the last round is not checked.
FollowRedirect_nocount(k) ==
    IF k = "follow"
    THEN hpc' = "connect" /\ UNCHANGED <<redir, hret>>
    ELSE hret' = LocCode[k] /\ hpc' = "done" /\ UNCHANGED redir
FollowRedirect_nobound(k) ==
    IF k = "follow"
    THEN redir' = redir + 1 /\ hpc' = "connect" /\ UNCHANGED hret
    ELSE hret' = LocCode[k] /\ hpc' = "done" /\ UNCHANGED redir

\* A redirect whose Location is of kind k: a followable one starts the next
\* round, or returns -15 after the last round; another returns its code.
FollowRedirect(k) ==
    IF k = "follow" /\ redir < MaxRedirects
    THEN redir' = redir + 1 /\ hpc' = "connect" /\ UNCHANGED hret
    ELSE /\ hret' = IF k = "follow" THEN -15 ELSE LocCode[k]
         /\ hpc' = "done" /\ UNCHANGED redir

\* The status check after the read loop: a 3xx answer is a redirect; any
\* other answer returns the body.
Status ==
    /\ hpc = "status"
    /\ IF redirect
       THEN \E k \in LocKinds : FollowRedirect(k)
       ELSE hret' = Len(got) /\ hpc' = "done" /\ UNCHANGED redir
    /\ UNCHANGED <<tcpVars, waited, redirect>>

-----------------------------------------------------------------------------
(* The caller in src/kernel.c                                              *)

\* The browser window's fetch after http_get_by_ip_port returns: a body is
\* shown; a result of 0 or less (the address was resolved) is retried over
\* TLS, and tls_http_get_by_ip begins with tcp_connect on a socket of its
\* own, which returns -1 while g_sock is in use: the fallback gives up.
\* What the TLS exchange then does is modelled in Tls.
KernelFallback ==
    /\ hpc = "done"
    /\ hpc' = CASE hret > 0 -> "shown"
                [] in_use -> "tls_refused"
                [] OTHER -> "tls"
    /\ UNCHANGED <<tcpVars, waited, redir, redirect, hret>>

-----------------------------------------------------------------------------

HttpNext ==
    \/ Connect \/ WaitPoll \/ WaitDone \/ Request \/ ReadPoll \/ Recv
    \/ CloseConn \/ Status \/ KernelFallback
    \/ (PeerSynAck \/ PeerFin \/ PeerAckFin \/ PeerReset) /\ UNCHANGED httpVars
    \/ \E n \in 1 .. SegMax : PeerData(n) /\ UNCHANGED httpVars
    \/ \E i \in 1 .. Len(net) : Duplicate(i) /\ UNCHANGED httpVars

HttpSpec == HttpInit /\ [][HttpNext]_allVars

\* The caller runs its loops to the end, and the server answers.  A frame
\* that has arrived is handed over by a later poll: the read loop polls
\* again and again, so a delivery that is possible infinitely often happens
\* (strong fairness, as the loop alternates between poll and tcp_recv).
HttpFairness ==
    /\ WF_allVars(Connect) /\ WF_allVars(WaitPoll) /\ WF_allVars(WaitDone)
    /\ WF_allVars(Request) /\ WF_allVars(ReadPoll) /\ WF_allVars(Recv)
    /\ WF_allVars(CloseConn) /\ WF_allVars(Status)
    /\ SF_allVars(ReadPoll /\ net' # net)
    /\ WF_allVars(PeerSynAck /\ UNCHANGED httpVars)
    /\ WF_allVars(\E n \in 1 .. SegMax : PeerData(n) /\ UNCHANGED httpVars)
    /\ WF_allVars(PeerFin /\ UNCHANGED httpVars)

HttpFairSpec == HttpSpec /\ HttpFairness

-----------------------------------------------------------------------------
(* Properties                                                              *)

\* A fetch that returns a body returns the last server's whole response,
\* or its first RAW_CAP - 1 bytes: a read loop that does not fill raw
\* leaves only on an empty tcp_recv in a closing state, which the socket
\* enters on the peer's FIN, sent after its last byte, so every byte has
\* been received and drained by then.
BodyComplete ==
    hret > 0 => got = [k \in 1 .. Min({plen, RawCap - 1}) |-> k - 1]

\* The TLS fallback of the kernel's fetch is refused (g_sock still in use)
\* only after a response that filled raw: every other return of
\* http_get_by_ip_port has freed g_sock, through tcp_close on a socket that
\* is not ESTABLISHED or through the peer's RST.
FallbackRefusedOnlyAfterFullRead ==
    hpc = "tls_refused" => Len(got) = RawCap - 1

\* http_get_by_ip_port returns: the connect wait, the read loop and the
\* redirect loop all end, whatever the server answers.
HttpReturns == <>(hpc = "done")

\* The same, unless the server resets the connection: a peer that keeps to
\* the protocol cannot keep the caller in any of its loops.
ReturnsUnlessReset == <>(hpc = "done" \/ prst)

=============================================================================
