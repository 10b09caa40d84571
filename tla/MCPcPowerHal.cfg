CONSTANTS
    AlarmId   <- MCAlarmId
    PulseMs   <- MCPulseMs
    TimeoutMs <- MCTimeoutMs
SPECIFICATION FairSpec
INVARIANTS
    TypeOK
    ButtonNeverStuck
    TimerAsAsked
    NoAlarmLeft
PROPERTIES
    ImplementsSpec
    ButtonReleased
