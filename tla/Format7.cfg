CONSTANTS
    Kinds = {"v120", "v130_plain", "v130"}
    MaxSize <- Sensor
    Codings = {1, 2}
    Asks <- SomeAsks
SPECIFICATION FairSpec
INVARIANTS
    SuccessMeansSet
    PacketSizeTaken
    FrameHoldsImage
PROPERTIES
    NoImpossibleState
    CallReturns
