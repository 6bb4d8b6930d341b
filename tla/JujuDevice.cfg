\* Two resources, three tries, one bus reset, one failed read.
CONSTANTS
    Infos = {1, 2}
    Handles = {1, 2}
    MaxTries = 3
    MaxGeneration = 1
    MaxFailures = 1
SPECIFICATION FairSpec
INVARIANTS
    IsoClosuresValid
    AllocatedIsKnown
    DoneOnce
PROPERTIES
    CallsReturn
