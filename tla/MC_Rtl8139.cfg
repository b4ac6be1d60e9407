\* A ring of 4 cells with 2 cells of slack, frames of 2 or 3 cells with
\* their header: the third frame reaches the end of the ring.
CONSTANTS
    RingLen = 4
    Slack = 2
    Sizes = {1, 2}
    MaxFrames = 3
    RxOffMax = 12
SPECIFICATION FairSpec
CHECK_DEADLOCK FALSE
PROPERTIES FramesDelivered
