CONSTANTS
    Pads = {p1, p2}
    None = None
    Sent      <- MCSent
    NullWrite <- MCIgnored
SPECIFICATION FairSpec
INVARIANTS
    TypeOK
    NoTornReport
    NoGhostInput
    PcReadsPad
PROPERTIES
    OneWakePerPress
    PressWakes
    HostSeesRest
