SPECIFICATION FairSpec
CONSTANTS
    Attempts = 4
    WasmSize = 2
    PckSize = 2
INVARIANT TypeOK
INVARIANT GivenUpAfterAll
INVARIANT GameIsComplete
PROPERTY BarNeverGoesBack
PROPERTY LaunchEnds
CHECK_DEADLOCK FALSE
