SPECIFICATION Spec
CONSTANTS
    prog1 = prog1
    prog2 = prog2
    Programs <- MCPrograms
    MaxCalls = 1
    Scenes <- MCScenes
    NoCall = NoCall
INVARIANT SuccessHeld NoTornSetting InfoAgrees GpdataComplete
PROPERTY OnlyAskedChanges
CHECK_DEADLOCK FALSE
