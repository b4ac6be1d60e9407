---------------------------------- MODULE Boot ---------------------------------
(***************************************************************************)
(* The device bring-up of kmain (src/kernel.c): xhci_probe, xhci_dump_ports*)
(* and xhci_enumerate_once, then rtl8139_init and net_set_ipv4, or, when   *)
(* rtl8139_init fails, the USB NIC stub with a second xHCI probe; then the *)
(* desktop loop.  Both xhci_probe (src/usb/xhci.c) and rtl8139_init, through *)
(* pci_find_device (src/pci.c), scan the PCI bus with the loops of Pci,    *)
(* one function per step.                                                  *)
(*                                                                         *)
(* What happens once a device is found (BAR and capability reads, the      *)
(* controller's rings, the NIC's buffers) is abstracted to the step that   *)
(* records it: those calls return on every path.                           *)
(***************************************************************************)
EXTENDS Pci

VARIABLES pc,          \* where kmain is
          at,          \* the location the running scan reads next
          xhci_found,  \* xhci.found
          rtl_ready,   \* rtl8139_initialized, with the IPv4 address set
          usb_nic_on   \* use_usb_nic

vars == <<pc, at, xhci_found, rtl_ready, usb_nic_on>>

Pcs == {"xhci_probe", "xhci_enum", "rtl_scan", "usb_xhci_probe", "usb_xhci_enum", "desktop"}

TypeOK ==
    /\ pc \in Pcs /\ at \in Loc
    /\ xhci_found \in BOOLEAN /\ rtl_ready \in BOOLEAN /\ usb_nic_on \in BOOLEAN

Init ==
    /\ pc = "xhci_probe" /\ at = First
    /\ xhci_found = FALSE /\ rtl_ready = FALSE /\ usb_nic_on = FALSE

-----------------------------------------------------------------------------

\* One iteration of the scan of xhci_probe, for a function of class 0x0C,
\* subclass 0x03: on a match the controller is recorded and 0 returned; at
\* the end of the bus loop "no controller found" and -1.  kmain goes on to
\* xhci_dump_ports either way.
xhci_probe ==
    /\ pc \in {"xhci_probe", "usb_xhci_probe"}
    /\ LET n == ScanFrom(at, "xhci") IN
       IF n \in {Found, Done}
       THEN /\ xhci_found' = (n = Found \/ xhci_found)
            /\ at' = First
            /\ pc' = IF pc = "xhci_probe" THEN "xhci_enum" ELSE "usb_xhci_enum"
       ELSE /\ at' = n
            /\ UNCHANGED <<pc, xhci_found>>
    /\ UNCHANGED <<rtl_ready, usb_nic_on>>

\* xhci_dump_ports and xhci_enumerate_once (whose waits are bounded) return;
\* in kmain the framebuffer and mouse are set up and rtl8139_init starts its
\* pci_find_device; on the USB path the test frame is injected.
xhci_enumerate ==
    /\ pc \in {"xhci_enum", "usb_xhci_enum"}
    /\ pc' = IF pc = "xhci_enum" THEN "rtl_scan" ELSE "desktop"
    /\ UNCHANGED <<at, xhci_found, rtl_ready, usb_nic_on>>

\* One iteration of pci_find_device(RTL8139_VENDOR, RTL8139_DEVICE) in
\* rtl8139_init.  Found: the rest of rtl8139_init succeeds (kmalloc never
\* returns NULL, the reset completes), and kmain sets 10.0.2.15/24.  The end
\* of the bus loop: rtl8139_init returns -1, and kmain enables the USB NIC
\* stub and probes xHCI again.
rtl8139_init ==
    /\ pc = "rtl_scan"
    /\ LET n == ScanFrom(at, "rtl8139") IN
       CASE n = Found ->
                rtl_ready' = TRUE /\ pc' = "desktop" /\ at' = First /\ UNCHANGED usb_nic_on
         [] n = Done ->
                usb_nic_on' = TRUE /\ pc' = "usb_xhci_probe" /\ at' = First
                /\ UNCHANGED rtl_ready
         [] OTHER ->
                at' = n /\ UNCHANGED <<pc, rtl_ready, usb_nic_on>>
    /\ UNCHANGED xhci_found

Next == xhci_probe \/ xhci_enumerate \/ rtl8139_init

\* kmain runs alone from its first instruction; nothing stops it between
\* two iterations.
Spec == Init /\ [][Next]_vars /\ WF_vars(Next)

-----------------------------------------------------------------------------
(* Properties                                                              *)

\* kmain reaches the desktop loop, with a NIC up (the RTL8139 or the USB
\* stub): each bus scan of xhci_probe and pci_find_device ends, by finding
\* its device or by running out of buses.
BootReachesDesktop == <>(pc = "desktop")

=============================================================================
