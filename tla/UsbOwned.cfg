\* An application that returns its frames in any order.
CONSTANTS
    NumFrames = 3
    Discipline = "owned"
    LaunchMayFail = TRUE
SPECIFICATION Spec
INVARIANTS
    TypeOK
    NoSharedBuffer
    NotifyBounded
    HelperHasResources
PROPERTIES
    HeldFramesStable
