SPECIFICATION FairSpec
CONSTANT MaxJoins = 3
INVARIANT TypeOK
INVARIANT BridgeServesCurrent
INVARIANT OneEntryEach
PROPERTY JoinIsAnswered
PROPERTY SilenceIsNoticed
CHECK_DEADLOCK FALSE
