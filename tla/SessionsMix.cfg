SPECIFICATION FairSpec
CONSTANTS
    c1 = c1
    c2 = c2
    c3 = c3
    a1 = a1
    a2 = a2
    NoConn = NoConn
    NoId = NoId
    Conn = {c1, c2, c3}
    WtConn = {c3}
    Addr = {a1, a2}
    UdpAddr <- OwnAddr
    IdSpace = 4
INVARIANT TypeOK
INVARIANT NoGhost
INVARIANT Routed
INVARIANT InputReachesOwner
INVARIANT RouteHasOwner
PROPERTY ImplementsRoster
PROPERTY CleanedUp
CHECK_DEADLOCK FALSE
