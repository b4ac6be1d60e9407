------------------------------- MODULE MC_Boot -------------------------------
(* Instantiation of Boot for TLC with the PCI bus of QEMU's default i440fx *)
(* machine started with an RTL8139 NIC and no xHCI controller: the host    *)
(* bridge at 00:00.0, the multi-function PIIX3 at 00:01 (ISA, IDE, ACPI),  *)
(* the VGA adapter at 00:02.0 and the NIC at 00:03.0.                      *)
EXTENDS Boot

Dev(b, s, f, k, m) == [loc |-> <<b, s, f>>, kind |-> k, multi |-> m]

MC_QemuRtlNoXhci ==
    { Dev(0, 0, 0, "other", FALSE),
      Dev(0, 1, 0, "other", TRUE), Dev(0, 1, 1, "other", TRUE), Dev(0, 1, 3, "other", TRUE),
      Dev(0, 2, 0, "other", FALSE),
      Dev(0, 3, 0, "rtl8139", FALSE) }
=============================================================================
