CONSTANTS
    Pads = {p1}
    None = None
    Sent      <- MCSent
    NullWrite <- MCFault
SPECIFICATION Spec
INVARIANTS
    MainLoopSurvives
