SPECIFICATION FairSpec
CONSTANTS
    Attempts = 2
    PlayerIds = {1, 20}
    Healths = {75}
    MaxDown = 2
    MaxUp = 2
    NoId = NoId
INVARIANT TypeOK
INVARIANT ClientInStep
PROPERTY ServerInStep
CHECK_DEADLOCK FALSE
