# TLA+ models of the network stack

This directory holds TLA+ models of the network stack of the kernel in `src/`, together with the TLC configurations that check them. The stack is a single-threaded, polled design. The kernel's UI loops and the callers' wait loops call `rtl8139_poll()`, which hands each received frame to `net_rx()` (net.c). `net_rx` dispatches:

- ARP frames go to the ARP cache, and the packets queued for the sender are flushed.
- UDP from source port 53 goes to `dns_on_response()` (dns.c).
- TCP goes to `tcp_on_rx()` (tcp.c).

Sending goes down the same path. `tcp_send_segment`, `net_send_udp_ipv4` and the DNS query all call `net_send_ip()`. On an ARP hit it builds the frame and calls `nic_tx`. On a miss it queues the packet in `pending[8]` and broadcasts an ARP request for the next hop.

The concurrency is therefore not threads. It is the interleaving of our own calls with what the network and the peers do between two polls: loss, duplication, reordering, late answers. That is what the models explore.

## Inventory

| Part | Source | Module | Status |
|---|---|---|---|
| Ethernet/ARP, pending queue, IPv4 send | net.c | `Net` | modelled |
| IPv4 receive demux | net.c `net_rx` | `Tcp` (Deliver), `Dns` (PollStep) | partly |
| TCP client socket `g_sock` | tcp.c, tcp.h | `Tcp`, refining `ByteStream` | partly (one connection) |
| DNS stub resolver | dns.c | `Dns` | modelled |
| HTTP client loops and redirects | http.c | `Http` (over `Tcp`) | modelled |
| Browser fetch result and TLS fallback | kernel.c | `Http` (`KernelFallback`) | partly |
| TLS glue (socket copy, BIO callbacks) | tls_mbedtls.c | `Tls` (over `Tcp`) | partly (up to the handshake) |
| RTL8139 receive path | rtl8139.c | `Rtl8139` | partly (RX ring; TX not modelled) |
| PCI bus scan | pci.c, the scan of xhci.c `xhci_probe` | `Pci` | modelled |
| Device bring-up of `kmain` | kernel.c | `Boot` (over `Pci`) | partly |
| xHCI host controller | usb/xhci.c | `Boot` (the probe) | partly (rings not modelled) |
| e1000e, USB RNDIS stub, RTL8139 transmit | drivers/, usb/, rtl8139.c | — | not modelled |
| Kernel UI, graphics, mouse, ELF, syscalls, string/JSON | kernel.c etc. | — | not modelled (no protocol state) |

## Modules

### `Net` (net.c), instantiated by `MC_Net`

**Data abstraction.**
- Addresses are model values: `OnLink` inside the subnet, `Remote` outside it, and `Gateway`.
- `NoIp` is the address 0 that marks a free slot.
- Each payload is the payload of one `net_send_ip` call, so a payload names a call.

**State.** The state is `arp_cache` and `pending` (the two tables of net.c), plus these observation variables:
- `arp_req`: the ARP requests on the wire.
- `frames`: what was given to `nic_tx`.
- `nTx`, `asked` and `dropped`: per call, how often it was sent, where it was going, and whether it was dropped.

**Actions.**
- `net_send_ip(d, x)` is the whole function. `NextHop` is the subnet test. `arp_lookup` chooses between `TransmitNow` and `EnqueueAndArp`. The miss path puts the packet in the first free slot (or drops it) and always sends the ARP request.
- `net_rx_arp(spa)` is the ARP branch of `net_rx`: `arp_store` followed by `flush_pending_for_ip`.
- The link actions are `PeerReply` (the host asked answers), `PeerAnnounce` (any host broadcasts its own ARP) and `LoseArpRequest`.
- net.c never resends an ARP request. `LoseArpRequest` therefore records the packets queued for that next hop in the history variable `stranded`: no property may expect them to leave.

### `Tcp` (tcp.c)

This module models one connection of `g_sock` against a server. The network may lose (`Lossy`), reorder (`Reorder`) and duplicate (`MaxDup`) the peer's segments.

**Data abstraction.**
- Sequence numbers are relative: both initial sequence numbers are 0. The code only adds to sequence numbers and compares them for equality, so this keeps every decision.
- A byte is its stream offset, so `rx` (the receive buffer) and `got` (what `tcp_recv` returned) are sequences of offsets.

**Actions.** `tcp_connect`, `tcp_send`, `tcp_recv(maxlen)` and `tcp_close` are the application calls. `tcp_on_rx(s)` is every branch of the state machine:
- an RST frees the socket;
- in SYN_SENT, a SYN+ACK (`IsSynAck`) completes the handshake;
- in ESTABLISHED, in-order data (`InOrder`) goes through `rx_data_into_buf` and is ACKed (`DataAck`), and a FIN is answered with ACK and FIN+ACK;
- in FIN_WAIT1, any ACK moves to FIN_WAIT2;
- in FIN_WAIT2, a FIN moves to TIME_WAIT.

`Deliver(i)` is the TCP branch of `net_rx`, including the drop when the socket is free. The peer is an HTTP-like server that answers the SYN, sends a response of `plen` bytes (one of `RespLens`, at most `DataLen`) within the window our ACKs open, then its FIN, and ACKs our FIN. It may reset. Our own segments are assumed to reach it; `Net` models that path.

**Refinement.** `ByteStream` is what the socket promises its reader: the bytes handed over, read or still buffered, are a prefix of the peer's stream that only grows by its next bytes. `Tcp` defines `Received == got \o rx` and instantiates `ByteStream WITH delivered <- Received`; the run `tcp_safety` checks `StreamRefinement == Stream!Spec`. The buffer is large enough there that truncation (finding 2) cannot happen.

### `Http` (http.c), extends `Tcp`

`http_get_by_ip_port` as a program counter `hpc` over its loops:
- `Connect` is `tcp_init` plus `tcp_connect`: a fresh connection and a fresh server, which decides whether it answers with a redirect and how long its response is (`RespLens`).
- `WaitPoll` and `WaitDone` are the wait for ESTABLISHED, bounded by `WaitMax` polls, ending in the request or in `tcp_close` and -3.
- `Request` is `tcp_send`.
- `ReadPoll` and `Recv` are the read loop: one poll (`Poll` delivers at most one segment), then `tcp_recv` into the rest of `raw`; an empty read leaves the loop only in FIN_WAIT1, FIN_WAIT2 or TIME_WAIT.
- `CloseConn` is `tcp_close` and the empty-response return.
- `Status` and `FollowRedirect(k)` are the redirect branch: the Location header is abstracted to its kind (`LocKinds`), each kind with its return code, and a followable one starts the next round until `MAX_REDIRECTS` gives -15.
- `Connect` is `ConnectFresh`: `tcp_init` clears `g_sock`, so the `in_use` test of `tcp_connect` passes.
- `KernelFallback` is the browser window of kernel.c after the call returns. A body is shown. A result of 0 or less leads to `tls_http_get_by_ip`, whose `tcp_connect` returns -1 while `g_sock` is in use. The TLS exchange itself is `Tls`.

Status-line and header parsing, header stripping and `out_cap` are abstracted away. The network duplicates and the peer may reset; loss and reordering are left to `Tcp`.

### `Tls` (tls_mbedtls.c), extends `Tcp`

`tls_http_get_by_ip` allocates its own socket `s` and passes it to `tcp_connect`, which initialises it and copies it into `g_sock`. The model keeps both: `s` is the record of the caller's copy; `g_sock` is the `Tcp` state that `tcp_on_rx` updates. `TlsConnect`, `Setup` (the mbedTLS set-up succeeds or fails), `HsSend` (the ClientHello through `net_send`, i.e. `tcp_send(s)`) and `HsRecv` (`net_recv`, i.e. `tcp_recv(s)`), each WANT_WRITE/WANT_READ followed by a poll. The request and read loop after the handshake are not modelled: the handshake never completes.

### `Rtl8139` (rtl8139.c), instantiated by `MC_Rtl8139`

This module models the receive ring, shared by the driver and the NIC.
- Memory is abstracted to aligned cells. A header cell names its frame and length, and a data cell is part of a frame.
- `mem` is the RX buffer plus the slack `rtl8139_init` allocates after it. `wptr` and `rptr` are the NIC's pointers (`rptr` is CAPR + 16). `rx_off` is the driver's offset.
- `rtl8139_init` either succeeds or returns -1. `PollIsr` reads and acknowledges ISR. `PollRx` is one iteration of the RX loop: a header with ROK hands the frame to `net_rx` and advances `rx_off` and CAPR; anything else ends the loop.
- A data cell, or memory past the slack, read as a header has an unknown status bit, so it may be consumed as garbage.
- `NicReceive(k)` is the NIC: it writes a frame at `wptr` (on into the slack when WRAP is set) or refuses it when it does not fit.
- The ring starts zeroed. `kmalloc` (kmalloc_stub.c) is a bump allocator that never reuses memory, and QEMU's RAM is zero at boot.

### `Pci` (pci.c) and `Boot` (kernel.c), instantiated by `MC_Boot`

`Pci` is one iteration of the three nested loops of `pci_find_device`, which `xhci_probe` repeats with a class test:
- `ScanFrom(l, k)` returns the next location, `Found`, or `Done` at the end of the bus loop.
- `NextBus` increments a `uint8_t` modulo `2^BusBits` and tests it against `BusLimit`, exactly as the code does.
- `SkipRest` is the early exit for a single-function device.

`Boot` is `kmain` from `xhci_probe` to the desktop loop, with a program counter `pc`:
- `xhci_probe` is one scan step.
- `xhci_enumerate` covers `xhci_dump_ports` and `xhci_enumerate_once`; their waits are bounded.
- `rtl8139_init` is one step of its `pci_find_device`. Found leads to the desktop with `net_set_ipv4`. Done leads to the USB NIC stub and the second `xhci_probe`.

The devices are those of QEMU's default i440fx machine with an RTL8139 and no xHCI controller.

### `Dns` (dns.c), instantiated by `MC_Dns`

**State.** `dns_cache`, `qtracks` and `qid_counter` are the three statics of dns.c. The id is the exact 16-bit counter starting at 0x4000. `msgs` holds the queries and responses in flight. `rs` is the `dns_resolve` call in progress, with its poll count.

**Actions.**
- `dns_resolve(n)` covers the cache check plus `dns_query_async`. The id is taken even for names that `pack_name` rejects (`Unpackable`).
- `ResolvePoll` is one iteration of the poll loop. `rtl8139_poll` drains the RX ring before it returns, so `PollStep` hands every response that has arrived (`Arrivals`: any of those in flight, in any order) to `dns_on_response` in turn (`Drained`, a fold over them). Only then is the cache checked again.
- `ResolveGiveUp` is the loop running out.
- `IdlePoll` is the UI loops delivering late responses between resolves.
- `dns_on_response` splits into `OnResponseCache` (store the A answer under the name tracked for the id, unless the message is malformed or has no A answer) and `OnResponseTracks` (free the id's slots unless the message is malformed).
- The server may answer correctly, without an A record, or with a malformed message (`ServerFaults`). The path may lose and duplicate messages.

## Runs

| Run | Expect | What it shows |
|---|---|---|
| `net_safety` | pass | `PacketConservation`: every send is transmitted once, queued once or dropped. `PendingOnlyWhileUnresolved`: no packet for an on-link host waits for an address already in the cache. `OnLinkQueuedEventuallySent`: a packet queued for an on-link host is eventually sent, unless its ARP request was lost (`stranded`). Checked with a lossy ARP exchange, and with a remote destination sharing the queue and the cache. |
| `net_gateway_live` | violation | With a remote destination, a packet queued while the gateway is unresolved is never sent, although the gateway answers. |
| `tcp_safety` | pass | `StreamRefinement`: the socket implements `ByteStream` under loss, reordering and duplication: what was read plus what is buffered only grows by the next bytes of the peer's stream. |
| `tcp_truncate` | violation | A full receive buffer truncates a segment while `rcv_nxt` advances past it: bytes vanish from the middle of the stream. |
| `tcp_fin` | violation | A FIN that overtakes the last data is honoured at once; the socket leaves ESTABLISHED with `rcv_nxt` short of the FIN. |
| `dns_safety` | pass | `CacheCorrect`: the cache holds only the server's answer for each name. It holds under loss, duplication, late answers, answerless and malformed responses, slot eviction, and several responses handed over in one poll in any order. |
| `dns_zero` | violation | An answer of 0.0.0.0 is stored in a slot that reads as free, so `dns_resolve` fails although it was answered. |
| `http_fetch` | pass | The server answers each connection with 2 bytes, so the read loop leaves on the FIN, or with 3 bytes, which fill `raw` (`RAW_CAP - 1` = 3). `BodyComplete`: a returned body is the whole response, up to `RAW_CAP - 1`, through either exit, with duplicates, redirects and a slow server. `ReturnsUnlessReset`: the call returns unless the server resets. `ResponseArrives`: after the request, the socket's ACKs bring in the whole response, which can be larger than the server's window. `FallbackRefusedOnlyAfterFullRead`: the kernel's TLS fallback finds `g_sock` in use only after a response that filled `raw`. TLC reaches both that case and a fallback after a FIN exit, which finds `g_sock` free (see below). |
| `http_reset_hang` | violation | `HttpReturns`: after an RST in the read loop the socket is CLOSED and the loop polls forever. |
| `tls_alias` | violation | `HandshakeSends`: `g_sock` becomes ESTABLISHED but the caller's copy stays SYN_SENT, so `net_send` returns WANT_WRITE forever. |
| `rtl_rx_wrap` | violation | `FramesDelivered`: once a frame reaches the end of the ring, `rx_off` points past it while the NIC writes on at the start, so later frames never reach `net_rx`. |
| `boot_scan_hang` | violation | `BootReachesDesktop`: without an xHCI controller, the bus loop of `xhci_probe` never ends, and `kmain` never reaches the NIC or the desktop. |

Every property of a passing run has a mutant in `PROJECT.json`. A mutant is a variant of a mapped definition written as a plausible defect: a dropped guard, a missing flush, a missing ARP request or ACK, an off-by-one copy, a lookup that ignores the id. TLC finds the property violated under each one.

### Findings

1. **net.c:82.** Pending packets are matched against the ARP sender by their original destination. A packet for a host outside the subnet therefore never leaves, and its slot leaks. In the configured QEMU network (10.0.2.15/24) this is every packet sent to a host outside the subnet, such as the SYN to a web server, while the gateway 10.0.2.2 is unresolved. DNS is not affected, because the resolver 10.0.2.3 is on the subnet.
2. **tcp.c:152.** `rcv_nxt` advances by the segment length even when `rx_data_into_buf` truncates it. The spec says it advances by the accepted length.
3. **tcp.c:156 and 172.** A FIN is accepted without checking its sequence number.
4. **dns.c:42.** 0.0.0.0 is cached as a free slot.
5. **http.c:125.** The read loop has no iteration ceiling, and a reset socket (CLOSED) is not a state it leaves on, so a reset hangs the kernel's fetch command. The spec says the http-style loops are bounded.
6. **tls_mbedtls.c:60.** The BIO callbacks use the caller's socket copy, which `tcp_on_rx` never updates: every TLS fetch spins in the handshake loop.
7. **rtl8139.c:180.** `rx_off` is never reduced modulo `RL_RXBUF`. After the first frame that crosses the end of the ring, the driver reads past the buffer (the slack, then `tx_bufs[0]`), and no later frame is delivered.
8. **pci.c:42 and xhci.c:1288.** `for (uint8_t bus = 0; bus < 256; ++bus)` never ends, because the counter wraps to 0. A scan returns only by finding its device. With no xHCI controller, boot hangs before the NIC. With no RTL8139, the USB fallback is unreachable for the same reason.

### Observed by TLC outside the violation runs

9. **http.c:131 and kernel.c:509.** When the read loop stops because `raw` is full, the socket is still ESTABLISHED. `tcp_close` then only moves it to FIN_WAIT1, and `g_sock` stays in use. If the response was a redirect that cannot be followed, `http_get_by_ip_port` returns a negative code. The kernel then tries TLS, and `tls_http_get_by_ip`'s `tcp_connect` returns -1 at once. `http_fetch` reaches this state, and `FallbackRefusedOnlyAfterFullRead` shows it is the only way the fallback is refused. In the code this needs a 3xx response of at least 32767 bytes.
10. **dns.c:44 and dns.c:140.** `rtl8139_poll` hands every frame in the ring to `dns_on_response` before `dns_resolve` checks the cache. With the cache full, a resolver's own answer can be stored in slot 0 and then evicted from slot 0 by a late answer to an earlier, timed-out query in the same poll. `dns_resolve` then fails although it was answered. TLC finds this `FailsOnlyUnanswered` violation when `MC_Dns.cfg` allows a fourth resolve: n1 times out; n1 is resolved again and cached from the first query's late answer while the second query stays tracked; n2 fills the cache; then n3's answer and the late answer for n1 arrive in one poll. That instance takes more than five minutes to check exhaustively, so no run shows this trace. `dns_zero` checks the same property and stops at the shorter 0.0.0.0 counterexample, and `dns_safety` keeps three resolves.

## Bounds

| Module | Bounds |
|---|---|
| `Net` | 3 on-link hosts (one of them the gateway), 1 remote host, 3 sends, 2 ARP slots, 2 pending slots |
| `Tcp` | 3 response bytes in segments of up to 2, window 2, buffer 3, one duplicated segment |
| `Dns` | 3 names, 2 cache slots, 2 tracking slots, poll budget 2, 3 resolves |
| `Http` | responses of 2 or 3 bytes in segments of up to 2, window 2, buffer 3, one duplicate, `WaitMax` 2, `RAW_CAP` 4, 1 redirect, every Location kind |
| `Tls` | as `Tcp`, no faults: the aliasing needs none |
| `Rtl8139` | ring of 4 cells, slack 2, frames of 1 or 2 cells plus header, 3 frames |
| `Boot` | the code's own bounds: 8-bit bus counter, 256 buses, 32 slots, 8 functions; 6 devices |

Why these bounds are enough:
- In `Net`, the bounds make the ARP cache evict, make `pending` fill and drop, and let two packets wait for the same next hop.
- In `Tcp`, the bounds give two data segments that can be reordered around each other, around the FIN and around a duplicate. The truncation run uses 4 bytes and a buffer of 2, so a segment is cut in the middle of the stream.
- In `Dns`, the bounds let the cache and the tracking table both evict, let a resolve give up with its query still tracked, and let its late answer arrive during the next resolve, alone or in one poll with the next resolve's own answer. The eviction of a resolver's own answer inside one poll (item 10) needs a fourth resolve, beyond what `dns_safety` can check in time. `Unpackable` is empty in the runs: a name `pack_name` rejects only uses up an id, and with three names, reserving one for that would keep the cache from filling.

- In `Rtl8139`, the third frame reaches the end of the ring, which is the first point where the driver and the NIC disagree.
- `Boot` uses the real loop bounds. The wrap needs the real width, and 65 536 locations per scan is well within TLC's reach.
- In `Http`, a wait of 2 polls can expire or succeed, one redirect round reaches both the follow and the -15 return, and `RAW_CAP` 4 lets the read loop take both of its exits: a 2-byte response ends on the FIN, and a 3-byte one fills `raw`, before or after the FIN arrives.

Sequence numbers and the DNS id keep their arithmetic. The id's 16-bit wrap is modelled but not reached (see the hazards).

## Fairness

The code has no timers, and every wait loop polls the NIC. So the only fairness assumed is this:
- frames at the head of the network are eventually delivered (`WF Deliver(1)`, and `WF PeerReply` for ARP);
- the server keeps making progress (SYN+ACK, data, FIN).

In `Http` and `Tls` a segment is handed to `tcp_on_rx` only by a poll of the caller's loop. A read loop alternates a poll and a `tcp_recv`, so a delivery is enabled only intermittently: it gets strong fairness (`SF (ReadPoll /\ net' # net)`), the caller's own steps weak fairness.

`Boot` assumes weak fairness of `kmain`'s steps, because it runs alone from its first instruction. `Rtl8139` assumes weak fairness of `rtl8139_init` and the poll steps, because the UI loops call `rtl8139_poll` whenever the driver is ready.

Our own segments are never retransmitted by tcp.c. That is why the liveness runs use networks that lose nothing. Under loss the properties fail by construction, and the hazards list records it.

## Not modelled, and the plan

- **NetStack.** Compose `Net` with `Tcp` and `Dns`, so that the gateway finding is seen end to end as a lost SYN or query.
- **TLS after the handshake.** The write and read loops of `tls_http_get_by_ip` (lines 124–162) are unreachable while finding 6 stands. The leak of `g_sock` on a set-up failure (line 84) is masked: `http_get_by_ip_port` leaves `g_sock` free on every failing return, so no reachable state shows it.
- **xHCI rings.** The command, event and transfer rings of usb/xhci.c are not modelled. Their register offsets are guessed: the ERDP update writes 0x30/0x34, which is DCBAAP. The enable-slot TRB is written at index 0 without advancing `cmd_ring_head`. A completion code of 0 counts as success, although xHCI success is 1. `xhci_submit_command_ring` returns 0 even on a timeout. A model would only restate those guesses. The hazards list records them.
- **RTL8139 transmit.** The four TX slots of rtl8139.c are reused round-robin without a completion check. Under QEMU the transmit completes inside the TSD write, so no slot is reused in flight.
- **e1000e.** drivers/e1000e.c defines the same `rtl8139_init`, `rtl8139_poll` and `nic_tx` as rtl8139.c. It is an alternative build of the NIC interface, and no build file in the repository picks it. Its RX poll walks the descriptors from 0 rather than from the head, so frames come out of order after a wrap. Its `nic_tx` never checks that a descriptor is free. Both are listed as hazards.
- **USB host and NIC stubs, syscalls.** usb_host.c and the RNDIS/NIC stubs log and return. syscalls.c is an interrupt-table set-up and a `switch` over two calls. Neither has state that a model checker would explore.
- **Malformed IPv4 lengths (net.c:147).** `net_rx` trusts the total-length field. Frames are abstracted to their fields, so a length that disagrees with the bytes received cannot be represented. This is listed as a hazard.
- **`HandshakeCompletes`.** This TCP liveness property is no longer run. `ResponseArrives` in `http_fetch` covers the same handshake.
- **ARP lookup of 0.0.0.0 (net.c:62).** This is unreachable: `kmain` calls `net_set_ipv4` right after `rtl8139_init`.
- **Kernel fetch flow.** The step after `http_get_by_ip_port` is `KernelFallback`. The `dns_resolve` before it is modelled in `Dns` but not composed with `Http`. Both poll the same NIC, and within one fetch they run one after the other, so composing them would add no interleaving.
- **TLS stub.** tls_stub.c defines a `tls_http_get_by_ip` that returns -1 at once. No build file in the repository says which of it and tls_mbedtls.c is linked. `Tls` models tls_mbedtls.c, the only one with behaviour.
- **Checksums.** `csum16` and `ip_checksum` are pure functions of the header and payload bytes, which every model abstracts away; a check of them against RFC 1071 would be a model of its own.
- **Out of scope.** The kernel UI and the other non-network parts are hardware I/O or drawing, with no protocol state to check. Parsing of status lines, Location headers and IPv4 literals is string handling and is abstracted to the branch it selects.
