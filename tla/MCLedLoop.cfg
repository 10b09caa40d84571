CONSTANTS
    ClockMod = 9
    StableMs = 3
    MaxLag   = 1
    MaxGap   = 2
SPECIFICATION Spec
INVARIANTS
    TypeOK
    EdgeIsTimely
PROPERTIES
    EdgeOnlyWhenStable
