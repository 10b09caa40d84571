CONSTANTS
    ClockMod = 6
    StableMs = 2
    MaxLag   = 1
    MaxGap   = 2
    PulseMs   <- MCPulseMs
    TimeoutMs <- MCTimeoutMs
    UsbQueueMax = 1
SPECIFICATION FairSpec
INVARIANTS
    TypeOK
    TimerMatchesState
    OnOnlyIfMounted
PROPERTIES
    NoPulseInHoldoff
    BootingEnds
