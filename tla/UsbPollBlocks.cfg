\* An application that polls while it still holds every frame.
CONSTANTS
    NumFrames = 2
    Discipline = "ordered"
    LaunchMayFail = FALSE
SPECIFICATION FairSpec
PROPERTY PollReturns
