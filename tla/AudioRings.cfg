SPECIFICATION FairSpec
CONSTANTS
    OutSize = 5
    OutChunk = 2
    InSize = 4
    InChunk = 3
    MaxSamples = 16
    NoSample = NoSample
INVARIANT TypeOK
INVARIANT CaptureIsWhole
PROPERTY ImplementsPlayout
PROPERTY Heard
CHECK_DEADLOCK FALSE
