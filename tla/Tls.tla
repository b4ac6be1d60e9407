---------------------------------- MODULE Tls ----------------------------------
(***************************************************************************)
(* The socket handling of tls_http_get_by_ip in src/tls_mbedtls.c over the *)
(* TCP socket of Tcp.  The function allocates its own tcp_socket_t s and   *)
(* passes it to tcp_connect, which initialises *s, sends the SYN and       *)
(* copies *s into g_sock; tcp_on_rx then updates g_sock only.  The mbedTLS *)
(* callbacks net_send and net_recv call tcp_send(s) and tcp_recv(s) on the *)
(* caller's copy.                                                          *)
(*                                                                         *)
(* s is the copy's fields that tcp_send, tcp_recv and tcp_close read.      *)
(* The handshake is abstracted to its first flight: the ClientHello        *)
(* (ReqLen bytes) written through net_send, then a read of the server's    *)
(* reply through net_recv; each WANT_WRITE or WANT_READ makes the loop     *)
(* poll the NIC and call mbedtls_ssl_handshake again.  mbedTLS set-up      *)
(* (seeding, configuration, ssl_setup) either succeeds or fails.           *)
(***************************************************************************)
EXTENDS Tcp

VARIABLES tpc,  \* where tls_http_get_by_ip is
          s,    \* the caller's tcp_socket_t
          tret  \* the value returned

tlsVars == <<tpc, s, tret>>
tcpVars == <<sockVars, got, connected, requested, app_closed, fin_rcvd, sent, net, peerVars, dups>>
allVars == <<tcpVars, tlsVars>>

Sock == [in_use : BOOLEAN, state : TcpStates, snd_nxt : SeqNums, rcv_nxt : SeqNums,
         rx_len : 0 .. RxCap]

TlsTypeOK ==
    /\ TypeOK
    /\ tpc \in {"connect", "setup", "hs_send", "hs_recv", "write", "done"}
    /\ s \in Sock
    /\ tret \in {-1, 0}

TlsInit ==
    /\ Init
    /\ tpc = "connect"
    /\ s = [in_use |-> FALSE, state |-> "CLOSED", snd_nxt |-> 0, rcv_nxt |-> 0, rx_len |-> 0]
    /\ tret = 0

-----------------------------------------------------------------------------
(* tls_mbedtls.c                                                           *)

\* One rtl8139_poll: a segment of the peer reaches tcp_on_rx (and g_sock),
\* or nothing has arrived.
Poll ==
    \/ \E i \in 1 .. Len(net) : Deliver(i)
    \/ UNCHANGED tcpVars

\* tcp_connect(s, ip, 443, 0): refused (-1) while g_sock is in use; else *s
\* is initialised, the SYN is sent, and *s is copied into g_sock.
TlsConnect ==
    /\ tpc = "connect"
    /\ IF in_use
       THEN tret' = -1 /\ tpc' = "done" /\ UNCHANGED <<tcpVars, s>>
       ELSE /\ tcp_connect
            /\ s' = [in_use |-> TRUE, state |-> "SYN_SENT", snd_nxt |-> 1, rcv_nxt |-> 0,
                     rx_len |-> 0]
            /\ tpc' = "setup" /\ UNCHANGED tret

\* mbedtls_ctr_drbg_seed, mbedtls_ssl_config_defaults and mbedtls_ssl_setup:
\* on a failure s is freed and -1 returned, with no tcp_close.
Setup ==
    /\ tpc = "setup"
    /\ \/ tpc' = "hs_send" /\ UNCHANGED tret
       \/ tret' = -1 /\ tpc' = "done"
    /\ UNCHANGED <<tcpVars, s>>

\* mbedtls_ssl_handshake writes the ClientHello through net_send, that is
\* tcp_send(s): sent when s->state is ESTABLISHED; else -1, which net_send
\* turns into WANT_WRITE and the loop polls the NIC and tries again.
HsSend ==
    /\ tpc = "hs_send"
    /\ IF s.state = "ESTABLISHED"
       THEN /\ sent' = sent \cup {Seg({"PSH", "ACK"}, s.snd_nxt, s.rcv_nxt, ReqLen)}
            /\ s' = [s EXCEPT !.snd_nxt = @ + ReqLen]
            /\ tpc' = "hs_recv"
            /\ UNCHANGED <<sockVars, got, connected, requested, app_closed, fin_rcvd, net,
                           peerVars, dups>>
       ELSE /\ Poll /\ UNCHANGED <<tpc, s>>
    /\ UNCHANGED tret

\* mbedtls_ssl_handshake reads the server's reply through net_recv, that is
\* tcp_recv(s): 0 while s->rx_len is 0, which net_recv turns into
\* WANT_READ and the loop polls the NIC and tries again.
HsRecv ==
    /\ tpc = "hs_recv"
    /\ IF s.rx_len > 0
       THEN tpc' = "write" /\ UNCHANGED <<tcpVars, s>>
       ELSE Poll /\ UNCHANGED <<tpc, s>>
    /\ UNCHANGED tret

-----------------------------------------------------------------------------

TlsNext ==
    \/ TlsConnect \/ Setup \/ HsSend \/ HsRecv
    \/ (PeerSynAck \/ PeerFin \/ PeerAckFin \/ PeerReset) /\ UNCHANGED tlsVars
    \/ \E n \in 1 .. SegMax : PeerData(n) /\ UNCHANGED tlsVars

TlsSpec == TlsInit /\ [][TlsNext]_allVars

\* The caller keeps looping and the server answers; a frame that has
\* arrived is handed to tcp_on_rx by one of the loop's polls.
TlsFairness ==
    /\ WF_allVars(TlsConnect) /\ WF_allVars(Setup)
    /\ WF_allVars(HsSend) /\ WF_allVars(HsRecv)
    /\ SF_allVars(HsSend /\ net' # net) /\ SF_allVars(HsRecv /\ net' # net)
    /\ WF_allVars(PeerSynAck /\ UNCHANGED tlsVars)
    /\ WF_allVars(\E n \in 1 .. SegMax : PeerData(n) /\ UNCHANGED tlsVars)

TlsFairSpec == TlsSpec /\ TlsFairness

-----------------------------------------------------------------------------
(* Properties                                                              *)

\* Once mbedTLS is set up, the handshake gets its ClientHello out: the
\* server's SYN+ACK makes the connection ESTABLISHED, so net_send stops
\* returning WANT_WRITE.
HandshakeSends == (tpc = "hs_send") ~> (tpc # "hs_send")

=============================================================================
