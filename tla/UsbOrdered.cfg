\* An application that returns frames in order; three buffers, so that one can
\* be in flight, one waiting and one held at the same time.
CONSTANTS
    NumFrames = 3
    Discipline = "ordered"
    LaunchMayFail = FALSE
SPECIFICATION FairSpec
INVARIANTS
    EveryFrameNotified
    NextFrameReady
PROPERTIES
    ImplementsRing
    StopReturns
    ReadyFrameDelivered
