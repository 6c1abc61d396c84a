CONSTANTS
    None = None
    Scenarios <- AllScenarios
    NeedAsset = {2}
    MaxSurfaces = 2
    MaxRev = 2
SPECIFICATION FairSpec
INVARIANTS FrameIsNamed NoGhost
PROPERTIES NeverBlank FrameArrives
CHECK_DEADLOCK FALSE
