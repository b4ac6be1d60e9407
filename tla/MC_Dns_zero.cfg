\* The server answers 0.0.0.0 for n1 over a reliable path.
CONSTANTS
    n1 = n1  n2 = n2  n3 = n3  a1 = a1  a2 = a2  a3 = a3
    Zero = Zero  NoName = NoName  NoAnswer = NoAnswer
    Names <- MC_Names
    Unpackable = {}
    Addresses <- MC_Addresses
    Addr <- MC_AddrZero
    CacheSize = 2
    TrackSize = 2
    PollBudget = 2
    MaxResolves = 3
    Lossy = FALSE
    Dup = FALSE
    ServerFaults = FALSE
SPECIFICATION Spec
CHECK_DEADLOCK FALSE
INVARIANTS FailsOnlyUnanswered
