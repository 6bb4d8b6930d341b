\* An application that returns frames in order; three buffers, as for USB.
CONSTANTS
    NumFrames = 3
    Discipline = "ordered"
    MaxReserved = 2
SPECIFICATION FairSpec
INVARIANTS
    ReservedByCapture
PROPERTIES
    ImplementsRing
    DequeueReturns
