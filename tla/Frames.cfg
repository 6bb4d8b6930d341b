CONSTANTS
    TS = 8
    Captured <- Pictures
    Later <- After
    Fills = {170}
    MaxCalls <- Two
SPECIFICATION Spec
CHECK_DEADLOCK FALSE
INVARIANTS
    
    ImageComplete
    SamplesKept
    ColoursFromSamples
    FlatSceneKept
    DepthKept
    RoutesAgree
