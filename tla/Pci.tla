---------------------------------- MODULE Pci ----------------------------------
(***************************************************************************)
(* The PCI bus scan of src/pci.c (pci_find_device), which xhci_probe in    *)
(* src/usb/xhci.c repeats with a class test in place of the vendor and     *)
(* device test.  Three nested loops walk bus, slot and function; the bus   *)
(* counter is a uint8_t compared with 256.                                 *)
(*                                                                         *)
(* Configuration space is abstracted to the devices of the platform: a     *)
(* function that is not in Devices reads vendor 0xFFFF.  A device is its   *)
(* kind (what the vendor, device and class registers identify) and the     *)
(* multi-function bit of the header type of function 0 of its slot.       *)
(***************************************************************************)
EXTENDS Naturals

CONSTANTS BusBits,   \* width of the bus counter (uint8_t: 8)
          BusLimit,  \* bound of the bus loop (256)
          SlotLimit, \* bound of the slot loop (32)
          FuncLimit, \* bound of the function loop (8)
          Devices    \* the devices of the platform

BusMod == 2^BusBits
Loc == (0 .. BusMod - 1) \X (0 .. SlotLimit - 1) \X (0 .. FuncLimit - 1)
Kinds == {"rtl8139", "xhci", "other"}

ASSUME /\ BusBits \in Nat /\ BusLimit \in Nat \ {0}
       /\ SlotLimit \in Nat \ {0} /\ FuncLimit \in Nat \ {0}
       /\ Devices \subseteq [loc : Loc, kind : Kinds, multi : BOOLEAN]
       /\ \A d, e \in Devices : d.loc = e.loc => d = e

\* Where a scan is: the location it reads next, Found once it has matched,
\* or Done once the bus loop has ended.
Done == <<>>
Found == <<"found">>
First == <<0, 0, 0>>

\* pci_config_read16(bus, slot, func, 0x00) # 0xFFFF: a device answers.
Present(l) == \E d \in Devices : d.loc = l
DevAt(l) == CHOOSE d \in Devices : d.loc = l

\* The loop heads: ++bus (a uint8_t, so modulo 2^8) and the test bus < 256;
\* ++slot and slot < 32; ++func and func < 8.
NextBus(b) == IF (b + 1) % BusMod < BusLimit THEN <<(b + 1) % BusMod, 0, 0>> ELSE Done
NextSlot(b, s) == IF s + 1 < SlotLimit THEN <<b, s + 1, 0>> ELSE NextBus(b)
NextFunc(b, s, f) == IF f + 1 < FuncLimit THEN <<b, s, f + 1>> ELSE NextSlot(b, s)

\* The early exit of the function loop: a device at function 0 whose header
\* type has bit 7 clear is single-function, so the rest of the slot is
\* skipped.
SkipRest(l) == l[3] = 0 /\ ~DevAt(l).multi

\* One iteration of the function loop looking for kind k: where the scan
\* goes next, or Found when the function read is of kind k.
ScanFrom(l, k) ==
    IF ~Present(l) THEN NextFunc(l[1], l[2], l[3])
    ELSE IF DevAt(l).kind = k THEN Found
    ELSE IF SkipRest(l) THEN NextSlot(l[1], l[2])
    ELSE NextFunc(l[1], l[2], l[3])

=============================================================================
