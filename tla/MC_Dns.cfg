\* Lossy, duplicating path and a server that may answer without an A record
\* or with a malformed message.  Resolving stops after MaxResolves calls.
CONSTANTS
    n1 = n1  n2 = n2  n3 = n3  a1 = a1  a2 = a2  a3 = a3
    Zero = Zero  NoName = NoName  NoAnswer = NoAnswer
    Names <- MC_Names
    Unpackable = {}
    Addresses <- MC_Addresses
    Addr <- MC_Addr
    CacheSize = 2
    TrackSize = 2
    PollBudget = 2
    MaxResolves = 3
    Lossy = TRUE
    Dup = TRUE
    ServerFaults = TRUE
SPECIFICATION Spec
CHECK_DEADLOCK FALSE
INVARIANTS TypeOK CacheCorrect
