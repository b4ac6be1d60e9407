--------------------------------- MODULE Tcp ---------------------------------
(***************************************************************************)
(* The single TCP client socket g_sock of src/tcp.c, the application calls *)
(* on it (tcp_connect, tcp_send, tcp_recv, tcp_close) and the segment      *)
(* handler tcp_on_rx, against a server peer and a network that may lose,   *)
(* reorder and duplicate the peer's segments.                              *)
(*                                                                         *)
(* Data abstraction.  Sequence numbers are relative: the peer's initial    *)
(* sequence number is 0 and ours is 0, so the peer's byte at stream offset *)
(* k has sequence number k + 1.  tcp.c only compares sequence numbers for  *)
(* equality (seq == rcv_nxt) and adds to them, so relative numbering keeps *)
(* every decision of the code.  A byte is its stream offset: rx and got    *)
(* are sequences of offsets.  Our segments go out through net_send_ip and  *)
(* are assumed to reach the peer (Net models that path); the peer reads    *)
(* them from the set sent.  The connection tuple check of tcp_on_rx always *)
(* passes: one connection is modelled and every segment belongs to it.     *)
(***************************************************************************)
EXTENDS Naturals, Sequences, FiniteSets, FiniteSetsExt

CONSTANTS DataLen,   \* bytes of the peer's response
          SegMax,    \* largest data segment the peer sends
          Window,    \* window tcp_send_segment advertises (4096 in the code)
          RxCap,     \* capacity of the receive buffer (8192 in the code)
          ReqLen,    \* bytes of the request the application sends
          MaxDup,    \* bound on duplicated peer segments
          Reorder,   \* whether the network reorders the peer's segments
          Lossy,     \* whether the network loses the peer's segments
          PeerRst,   \* whether the peer may reset the connection
          RespLens   \* lengths the peer's response may have

ASSUME /\ DataLen \in Nat /\ SegMax \in Nat \ {0} /\ Window \in Nat \ {0}
       /\ RxCap \in Nat \ {0} /\ ReqLen \in Nat \ {0} /\ MaxDup \in Nat
       /\ {Reorder, Lossy, PeerRst} \subseteq BOOLEAN
       /\ RespLens \subseteq 0 .. DataLen /\ RespLens # {}

TcpStates == {"CLOSED", "SYN_SENT", "ESTABLISHED", "FIN_WAIT1", "FIN_WAIT2", "TIME_WAIT"}
Flags == {"FIN", "SYN", "RST", "PSH", "ACK"}
SeqNums == 0 .. DataLen + ReqLen + 3
Segment == [seq : SeqNums, ack : SeqNums, len : 0 .. Max({SegMax, ReqLen}), flags : SUBSET Flags]

VARIABLES in_use, state, snd_nxt, rcv_nxt, rx, \* fields of g_sock
          got,        \* bytes the application has taken with tcp_recv
          connected,  \* tcp_connect has been called
          requested,  \* tcp_send of the request has succeeded
          app_closed, \* the application has called tcp_close
          fin_rcvd,   \* tcp_on_rx has honoured a FIN of the peer
          sent,       \* segments tcp_send_segment gave to net_send_ip
          net,        \* the peer's segments in flight, oldest first
          psent, psyn, pfin, packed, prst, \* the peer's progress
          plen,       \* the length of the peer's response
          dups        \* duplicated segments so far

sockVars == <<in_use, state, snd_nxt, rcv_nxt, rx>>
peerVars == <<psent, psyn, pfin, packed, prst, plen>>
vars == <<sockVars, got, connected, requested, app_closed, fin_rcvd, sent, net, peerVars, dups>>

TypeOK ==
    /\ in_use \in BOOLEAN
    /\ state \in TcpStates
    /\ snd_nxt \in SeqNums /\ rcv_nxt \in SeqNums
    /\ rx \in Seq(0 .. DataLen - 1) /\ Len(rx) <= RxCap
    /\ got \in Seq(0 .. DataLen - 1)
    /\ {connected, requested, app_closed, fin_rcvd} \subseteq BOOLEAN
    /\ sent \subseteq Segment
    /\ net \in Seq(Segment)
    /\ psent \in 0 .. DataLen /\ {psyn, pfin, packed, prst} \subseteq BOOLEAN
    /\ plen \in RespLens
    /\ dups \in 0 .. MaxDup

Init ==
    /\ in_use = FALSE /\ state = "CLOSED"
    /\ snd_nxt = 0 /\ rcv_nxt = 0 /\ rx = <<>>
    /\ got = <<>> /\ connected = FALSE /\ requested = FALSE
    /\ app_closed = FALSE /\ fin_rcvd = FALSE /\ sent = {} /\ net = <<>>
    /\ psent = 0 /\ psyn = FALSE /\ pfin = FALSE /\ packed = FALSE /\ prst = FALSE
    /\ plen \in RespLens
    /\ dups = 0

-----------------------------------------------------------------------------
(* tcp.c                                                                   *)

\* tcp_send_segment: a header carrying snd_nxt and rcv_nxt, given to
\* net_send_ip.
Seg(flags, sq, ak, len) == [seq |-> sq, ack |-> ak, len |-> len, flags |-> flags]

\* Variant of rx_data_into_buf that copies from one byte past the start of
\* the payload (a plausible defect).
rx_data_into_buf_skew(buf, sq, len) ==
    LET can == Min({len, RxCap - Len(buf)})
    IN  buf \o [k \in 1 .. can |-> sq + k - 1]

\* rx_data_into_buf: append the bytes of a segment starting at sequence
\* number sq, truncated to the room left in the buffer.
rx_data_into_buf(buf, sq, len) ==
    LET can == Min({len, RxCap - Len(buf)})
    IN  buf \o [k \in 1 .. can |-> sq - 1 + k - 1]

\* tcp_connect(&g_sock, ...): refused while the socket is in use; else a
\* fresh socket in SYN_SENT sends its SYN and counts it in snd_nxt.
tcp_connect ==
    /\ ~in_use /\ ~connected
    /\ connected' = TRUE
    /\ in_use' = TRUE /\ state' = "SYN_SENT"
    /\ rcv_nxt' = 0 /\ rx' = <<>>
    /\ sent' = sent \cup {Seg({"SYN"}, 0, 0, 0)}
    /\ snd_nxt' = 1
    /\ UNCHANGED <<got, requested, app_closed, fin_rcvd, net, peerVars, dups>>

\* tcp_send: only in ESTABLISHED; a PSH+ACK segment with the data.
tcp_send ==
    /\ state = "ESTABLISHED" /\ ~requested
    /\ requested' = TRUE
    /\ sent' = sent \cup {Seg({"PSH", "ACK"}, snd_nxt, rcv_nxt, ReqLen)}
    /\ snd_nxt' = snd_nxt + ReqLen
    /\ UNCHANGED <<in_use, state, rcv_nxt, rx, got, connected, app_closed, fin_rcvd, net, peerVars, dups>>

\* tcp_recv(s, out, maxlen): take up to maxlen bytes from the front of the
\* buffer and shift the rest down.
tcp_recv(maxlen) ==
    /\ Len(rx) > 0
    /\ LET n == Min({maxlen, Len(rx)})
       IN  /\ got' = got \o SubSeq(rx, 1, n)
           /\ rx' = SubSeq(rx, n + 1, Len(rx))
    /\ UNCHANGED <<in_use, state, snd_nxt, rcv_nxt, connected, requested, app_closed, fin_rcvd, sent, net, peerVars, dups>>

\* tcp_close: a no-op on a free socket; from ESTABLISHED an active close
\* (FIN+ACK, FIN_WAIT1); from any other state the socket is freed at once.
tcp_close ==
    /\ in_use
    /\ IF state = "ESTABLISHED"
       THEN /\ sent' = sent \cup {Seg({"FIN", "ACK"}, snd_nxt, rcv_nxt, 0)}
            /\ snd_nxt' = snd_nxt + 1
            /\ state' = "FIN_WAIT1"
            /\ UNCHANGED in_use
       ELSE /\ in_use' = FALSE /\ state' = "CLOSED"
            /\ UNCHANGED <<sent, snd_nxt>>
    /\ app_closed' = TRUE
    /\ UNCHANGED <<rcv_nxt, rx, got, connected, requested, fin_rcvd, net, peerVars, dups>>

\* Variants of the tests of tcp_on_rx (plausible defects): data accepted
\* whatever its sequence number; in-order data taken without an ACK.
InOrder_anyseq(s) == s.len > 0
DataAck_none(s, rcv1) == {}

\* In ESTABLISHED, data is taken only when it starts at rcv_nxt.
InOrder(s) == s.len > 0 /\ s.seq = rcv_nxt

\* In SYN_SENT, (flags & 0x12) == 0x12.
IsSynAck(s) == {"SYN", "ACK"} \subseteq s.flags

\* The ACK tcp_send_segment sends after in-order data, acknowledging rcv1.
DataAck(s, rcv1) == IF InOrder(s) THEN {Seg({"ACK"}, snd_nxt, rcv1, 0)} ELSE {}

\* tcp_on_rx for a segment of the connection: RST frees the socket; then
\* one step of the state machine.  In ESTABLISHED the data part (accepted
\* only when seq == rcv_nxt) is handled before the FIN bit, which is
\* honoured whatever the sequence number.
tcp_on_rx(s) ==
    /\ in_use
    /\ fin_rcvd' = (fin_rcvd \/ ("RST" \notin s.flags /\ "FIN" \in s.flags
                                /\ state \in {"ESTABLISHED", "FIN_WAIT2"}))
    /\ IF "RST" \in s.flags
       THEN /\ state' = "CLOSED" /\ in_use' = FALSE
            /\ UNCHANGED <<snd_nxt, rcv_nxt, rx, sent>>
       ELSE /\ UNCHANGED in_use
            /\ CASE state = "SYN_SENT" ->
                    IF IsSynAck(s)
                    THEN /\ rcv_nxt' = s.seq + 1
                         /\ sent' = sent \cup {Seg({"ACK"}, snd_nxt, s.seq + 1, 0)}
                         /\ state' = "ESTABLISHED"
                         /\ UNCHANGED <<snd_nxt, rx>>
                    ELSE UNCHANGED <<state, snd_nxt, rcv_nxt, rx, sent>>
                 [] state = "ESTABLISHED" ->
                    LET inOrder == InOrder(s)
                        rcv1 == IF inOrder THEN rcv_nxt + s.len ELSE rcv_nxt
                        acks1 == DataAck(s, rcv1)
                        fin == "FIN" \in s.flags
                    IN  /\ rx' = IF inOrder THEN rx_data_into_buf(rx, s.seq, s.len) ELSE rx
                        /\ rcv_nxt' = IF fin THEN rcv1 + 1 ELSE rcv1
                        /\ sent' = sent \cup acks1 \cup
                                   (IF fin THEN {Seg({"ACK"}, snd_nxt, rcv1 + 1, 0),
                                                 Seg({"FIN", "ACK"}, snd_nxt, rcv1 + 1, 0)}
                                           ELSE {})
                        /\ snd_nxt' = IF fin THEN snd_nxt + 1 ELSE snd_nxt
                        /\ state' = IF fin THEN "FIN_WAIT1" ELSE state
                 [] state = "FIN_WAIT1" ->
                    /\ state' = IF "ACK" \in s.flags THEN "FIN_WAIT2" ELSE state
                    /\ UNCHANGED <<snd_nxt, rcv_nxt, rx, sent>>
                 [] state = "FIN_WAIT2" ->
                    IF "FIN" \in s.flags
                    THEN /\ rcv_nxt' = rcv_nxt + 1
                         /\ sent' = sent \cup {Seg({"ACK"}, snd_nxt, rcv_nxt + 1, 0)}
                         /\ state' = "TIME_WAIT"
                         /\ UNCHANGED <<snd_nxt, rx>>
                    ELSE UNCHANGED <<state, snd_nxt, rcv_nxt, rx, sent>>
                 [] OTHER -> UNCHANGED <<state, snd_nxt, rcv_nxt, rx, sent>>

\* The network delivers a segment of the peer to net_rx, which hands it to
\* tcp_on_rx; a segment arriving for a free socket is dropped there.
Deliver(i) ==
    /\ i \in DOMAIN net
    /\ Reorder \/ i = 1
    /\ net' = SubSeq(net, 1, i - 1) \o SubSeq(net, i + 1, Len(net))
    /\ IF in_use THEN tcp_on_rx(net[i])
                 ELSE UNCHANGED <<in_use, state, snd_nxt, rcv_nxt, rx, sent, fin_rcvd>>
    /\ UNCHANGED <<got, connected, requested, app_closed, peerVars, dups>>

-----------------------------------------------------------------------------
(* The peer: a server that answers the SYN, reads the request, sends its   *)
(* response of plen bytes within the window our ACKs open, then its FIN,  *)
(* and ACKs our FIN.  It is not part of the repository.                    *)

OurSyn == \E s \in sent : "SYN" \in s.flags
OurAcked == Max({s.ack : s \in sent})
Emit(s) == net' = Append(net, s)

PeerSynAck ==
    /\ OurSyn /\ ~psyn /\ ~prst
    /\ psyn' = TRUE
    /\ Emit(Seg({"SYN", "ACK"}, 0, 1, 0))
    /\ UNCHANGED <<sockVars, got, app_closed, fin_rcvd, connected, requested, sent, psent, pfin, packed, prst, plen, dups>>

PeerData(n) ==
    /\ psyn /\ ~prst /\ ~pfin
    /\ \E s \in sent : "PSH" \in s.flags
    /\ psent + n <= plen
    /\ psent + n <= (OurAcked - 1) + Window
    /\ psent' = psent + n
    /\ Emit(Seg({"PSH", "ACK"}, psent + 1, 0, n))
    /\ UNCHANGED <<sockVars, got, app_closed, fin_rcvd, connected, requested, sent, psyn, pfin, packed, prst, plen, dups>>

PeerFin ==
    /\ psyn /\ ~prst /\ ~pfin
    /\ \E s \in sent : "PSH" \in s.flags
    /\ psent = plen
    /\ pfin' = TRUE
    /\ Emit(Seg({"FIN", "ACK"}, plen + 1, 0, 0))
    /\ UNCHANGED <<sockVars, got, app_closed, fin_rcvd, connected, requested, sent, psent, psyn, packed, prst, plen, dups>>

PeerAckFin ==
    /\ \E s \in sent : "FIN" \in s.flags
    /\ ~packed /\ ~prst
    /\ packed' = TRUE
    /\ Emit(Seg({"ACK"}, psent + 1 + (IF pfin THEN 1 ELSE 0), 0, 0))
    /\ UNCHANGED <<sockVars, got, app_closed, fin_rcvd, connected, requested, sent, psent, psyn, pfin, prst, plen, dups>>

PeerReset ==
    /\ PeerRst /\ OurSyn /\ ~prst
    /\ prst' = TRUE
    /\ Emit(Seg({"RST"}, psent + 1, 0, 0))
    /\ UNCHANGED <<sockVars, got, app_closed, fin_rcvd, connected, requested, sent, psent, psyn, pfin, packed, plen, dups>>

\* The network loses a segment in flight.
Lose(i) ==
    /\ Lossy /\ i \in DOMAIN net
    /\ net' = SubSeq(net, 1, i - 1) \o SubSeq(net, i + 1, Len(net))
    /\ UNCHANGED <<sockVars, got, app_closed, fin_rcvd, connected, requested, sent, peerVars, dups>>

\* The network duplicates a segment in flight (or the peer retransmits it).
Duplicate(i) ==
    /\ dups < MaxDup /\ i \in DOMAIN net
    /\ dups' = dups + 1
    /\ Emit(net[i])
    /\ UNCHANGED <<sockVars, got, app_closed, fin_rcvd, connected, requested, sent, peerVars>>

Next ==
    \/ tcp_connect \/ tcp_send \/ tcp_close
    \/ \E m \in 1 .. RxCap : tcp_recv(m)
    \/ \E i \in 1 .. Len(net) : Deliver(i) \/ Lose(i) \/ Duplicate(i)
    \/ PeerSynAck \/ PeerFin \/ PeerAckFin \/ PeerReset
    \/ \E n \in 1 .. SegMax : PeerData(n)

Spec == Init /\ [][Next]_vars

-----------------------------------------------------------------------------
(* Properties                                                              *)

Received == got \o rx

\* The refinement mapping: the abstract stream is what the application has
\* read followed by what the socket still buffers.
Stream == INSTANCE ByteStream WITH delivered <- Received

\* The socket implements the abstract byte stream: every step of tcp_on_rx,
\* tcp_recv and the rest either leaves got \o rx alone or appends the next
\* bytes of the peer's stream to it; in-order acceptance (seq == rcv_nxt)
\* and the shift of tcp_recv never drop, repeat or reorder a byte.
StreamRefinement == Stream!Spec

\* The bytes the application has read followed by those still buffered are
\* the peer's stream from its first byte, in order and without gaps or
\* repeats: tcp_on_rx appends only the segment that starts at rcv_nxt and
\* advances rcv_nxt past what it appended.
StreamIntegrity ==
    Received = [k \in 1 .. Len(Received) |-> k - 1]

\* When the socket acts on the peer's FIN, rcv_nxt ends one past the FIN's
\* sequence number, that is one past the peer's last data byte: the FIN is
\* taken in order, after all the data, and only once.
FinAtItsSequence ==
    fin_rcvd => rcv_nxt = plen + 2

\* Once the request is sent, the whole response reaches the receive buffer
\* unless the application closes first or the peer resets: the ACKs of
\* tcp_on_rx open the server's window for the rest of the stream (checked
\* under the polling of http_get_by_ip_port, in Http).
ResponseArrives ==
    requested ~> (Len(Received) = plen \/ app_closed \/ prst)

=============================================================================
