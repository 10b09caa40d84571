CONSTANTS
    Pads = {p1}
    None = None
    Sent      <- MCSent
    NullWrite <- MCIgnored
SPECIFICATION Spec
PROPERTIES
    WakeOnPressEdge
