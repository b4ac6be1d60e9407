-------------------------------- MODULE Rtl8139 --------------------------------
(***************************************************************************)
(* The receive path of the RTL8139 driver (src/rtl8139.c) against the NIC. *)
(*                                                                         *)
(* rtl8139_init gives the NIC an RX buffer of RL_RXBUF bytes plus 16+1500  *)
(* bytes of slack and sets the WRAP bit of RCR.  The NIC writes each frame *)
(* (a 4-byte header with the ROK status bit and the length, then the frame *)
(* and its CRC) at its write pointer; with WRAP a frame that runs past the *)
(* end of the ring is written on into the slack, and the write pointer     *)
(* then continues modulo the ring size.  It refuses a frame that does not  *)
(* fit between its write pointer and the read pointer the driver last      *)
(* wrote to CAPR (CAPR + 16, modulo the ring size).                        *)
(*                                                                         *)
(* rtl8139_poll reads and acknowledges ISR and, on ROK, walks the buffer   *)
(* from rx_off: a header with ROK set is a frame for net_rx, anything else *)
(* ends the walk; rx_off advances past the frame, dword-aligned, and CAPR  *)
(* is written.                                                             *)
(*                                                                         *)
(* Memory is abstracted to aligned cells: a header cell names the frame    *)
(* and its length in cells, a data cell is part of a frame.  A data cell,  *)
(* or memory past the slack (tx_bufs[0], the next kmalloc block, holding   *)
(* the last frame sent from TX slot 0), read as a header has an unknown    *)
(* status bit.  kmalloc is a bump allocator that never reuses memory and   *)
(* does not clear it, so the ring is RAM nothing has written: zero, as     *)
(* QEMU's RAM is at boot.                                                  *)
(***************************************************************************)
EXTENDS Naturals, Sequences, SequencesExt

CONSTANTS RingLen,   \* cells of the ring (RL_RXBUF)
          Slack,     \* cells after the ring (16 + 1500 bytes)
          Sizes,     \* cells of frame plus CRC that a frame may take
          MaxFrames, \* frames arriving at the NIC in a behaviour
          RxOffMax   \* bound on rx_off, which the code never wraps

ASSUME /\ RingLen \in Nat \ {0} /\ Slack \in Nat
       /\ Sizes \subseteq 1 .. Slack + 1 /\ Sizes # {}
       /\ MaxFrames \in Nat /\ RxOffMax \in Nat

MemLen == RingLen + Slack
Frames == 1 .. MaxFrames

\* What a cell of the RX buffer holds.
Zero == [kind |-> "zero"]
Hdr(f, k) == [kind |-> "hdr", frame |-> f, len |-> k]
Data == [kind |-> "data"]
Cells == {Zero, Data} \cup {Hdr(f, k) : f \in Frames, k \in Sizes}

VARIABLES initialized, \* rtl8139_initialized
          nic_on,      \* RX enabled in the NIC's command register
          mem,         \* the RX buffer and its slack
          wptr,        \* the NIC's write pointer (cells, modulo RingLen)
          rptr,        \* the NIC's read pointer: CAPR + 16, modulo RingLen
          rok,         \* the ROK bit of ISR
          rx_off,      \* the driver's read offset
          ppc,         \* where rtl8139_poll is: "idle" or in its RX loop
          arrived,     \* frames that have reached the NIC so far
          accepted,    \* the frames the NIC wrote into the buffer, in order
          delivered    \* what the driver handed to net_rx, in order

vars == <<initialized, nic_on, mem, wptr, rptr, rok, rx_off, ppc, arrived, accepted,
          delivered>>

\* A frame handed to net_rx that the NIC never received.
Garbage == 0

TypeOK ==
    /\ initialized \in BOOLEAN /\ nic_on \in BOOLEAN
    /\ mem \in [0 .. MemLen - 1 -> Cells]
    /\ wptr \in 0 .. RingLen - 1 /\ rptr \in 0 .. RingLen - 1 /\ rok \in BOOLEAN
    /\ rx_off \in 0 .. RxOffMax /\ ppc \in {"idle", "loop"}
    /\ arrived \in 0 .. MaxFrames
    /\ accepted \in Seq(Frames) /\ delivered \in Seq(Frames \cup {Garbage})

Init ==
    /\ initialized = FALSE /\ nic_on = FALSE
    /\ mem = [c \in 0 .. MemLen - 1 |-> Zero]
    /\ wptr = 0 /\ rptr = 0 /\ rok = FALSE
    /\ rx_off = 0 /\ ppc = "idle"
    /\ arrived = 0 /\ accepted = <<>> /\ delivered = <<>>

-----------------------------------------------------------------------------
(* The driver                                                              *)

\* rtl8139_init: the device is found and the buffers allocated (RX buffer
\* at RBSTART, rx_off = 0, WRAP set, RX and TX enabled, ready), or it
\* returns -1 before enabling anything.
rtl8139_init ==
    /\ ~initialized /\ ~nic_on
    /\ \/ initialized' = TRUE /\ nic_on' = TRUE
       \/ UNCHANGED <<initialized, nic_on>>
    /\ UNCHANGED <<mem, wptr, rptr, rok, rx_off, ppc, arrived, accepted, delivered>>

\* rtl8139_poll up to its RX loop: nothing before init; read ISR, return
\* if it is 0, else acknowledge the bits read and, on ROK, enter the loop.
PollIsr ==
    /\ initialized /\ ppc = "idle" /\ rok
    /\ rok' = FALSE /\ ppc' = "loop"
    /\ UNCHANGED <<initialized, nic_on, mem, wptr, rptr, rx_off, arrived, accepted,
                   delivered>>

\* The cell at offset off of the RX buffer; past the slack it is another
\* allocation.
Other == [kind |-> "other"]
CellAt(off) == IF off < MemLen THEN mem[off] ELSE Other

\* One frame of the RX loop: hand the frame to net_rx, advance rx_off past
\* header, frame and CRC (dword-aligned, never taken modulo the ring) and
\* write CAPR = rx_off - 16.
Consume(f, k) ==
    /\ rx_off + 1 + k <= RxOffMax
    /\ delivered' = Append(delivered, f)
    /\ rx_off' = rx_off + 1 + k
    /\ rptr' = (rx_off + 1 + k) % RingLen

\* One iteration of the RX loop: a header without ROK ends it.
PollRx ==
    /\ ppc = "loop"
    /\ LET c == CellAt(rx_off) IN
       \/ /\ c.kind = "hdr"
          /\ Consume(c.frame, c.len)
          /\ UNCHANGED ppc
       \/ /\ c = Zero
          /\ ppc' = "idle" /\ UNCHANGED <<rx_off, rptr, delivered>>
       \/ /\ c \in {Data, Other}
          /\ \/ ppc' = "idle" /\ UNCHANGED <<rx_off, rptr, delivered>>
             \/ \E k \in Sizes : Consume(Garbage, k) /\ UNCHANGED ppc
    /\ UNCHANGED <<initialized, nic_on, mem, wptr, rok, arrived, accepted>>

-----------------------------------------------------------------------------
(* The NIC                                                                 *)

\* Free room between the write and read pointers; 0 means empty.
Avail == (RingLen + rptr - wptr) % RingLen

\* A frame of k cells arrives: written at wptr, on into the slack if it
\* runs past the end of the ring, and ROK set; or dropped when it does not
\* fit.
NicReceive(k) ==
    /\ nic_on /\ arrived < MaxFrames
    /\ arrived' = arrived + 1
    /\ IF Avail = 0 \/ 1 + k < Avail
       THEN /\ mem' = [c \in 0 .. MemLen - 1 |->
                          IF c = wptr THEN Hdr(arrived + 1, k)
                          ELSE IF wptr < c /\ c <= wptr + k THEN Data
                          ELSE mem[c]]
            /\ wptr' = (wptr + 1 + k) % RingLen
            /\ accepted' = Append(accepted, arrived + 1)
            /\ rok' = TRUE
       ELSE UNCHANGED <<mem, wptr, accepted, rok>>
    /\ UNCHANGED <<initialized, nic_on, rptr, rx_off, ppc, delivered>>

-----------------------------------------------------------------------------

Next ==
    \/ rtl8139_init \/ PollIsr \/ PollRx
    \/ \E k \in Sizes : NicReceive(k)

Spec == Init /\ [][Next]_vars

\* The kernel's UI loops call rtl8139_poll whenever the driver is ready, and
\* the walk of the RX loop runs to its end.
Fairness == WF_vars(rtl8139_init) /\ WF_vars(PollIsr) /\ WF_vars(PollRx)

FairSpec == Spec /\ Fairness

-----------------------------------------------------------------------------
(* Properties                                                              *)

\* Every frame the NIC writes into the RX buffer is eventually handed to
\* net_rx by rtl8139_poll (the spec's deliver_received_frame, once per
\* received frame): the driver's walk from rx_off keeps up with the NIC's
\* write pointer as both go round the ring.
FramesDelivered ==
    \A f \in Frames : (f \in Range(accepted)) ~> (f \in Range(delivered))

=============================================================================
