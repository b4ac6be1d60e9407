\* The loops with the code's own bounds: a uint8_t bus counter tested
\* against 256, 32 slots, 8 functions; the platform has no xHCI controller.
CONSTANTS
    BusBits = 8
    BusLimit = 256
    SlotLimit = 32
    FuncLimit = 8
    Devices <- MC_QemuRtlNoXhci
SPECIFICATION Spec
CHECK_DEADLOCK FALSE
PROPERTIES BootReachesDesktop
