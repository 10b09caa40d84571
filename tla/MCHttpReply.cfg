SPECIFICATION Spec
CONSTANTS
    Replies <- MCReplies
    HDR_SIZE = 15
    LOCATION_SIZE = 2
    body_cap = 4
INVARIANTS
    TypeOK
    NothingLost
    HeadSeen
PROPERTIES
    ImplementsStream
