SPECIFICATION Spec
CONSTANTS
    a = a
    b = b
    a1 = a1
    a2 = a2
    b1 = b1
    NoPlayer = NoPlayer
    Nothing = Nothing
    Client = {a, b}
    Player = {a1, a2, b1}
    WtPlayer = {a1, a2}
    Owner <- Owners
    TickSpan = 100
    MaxSnapshots = 2
    Watched = {a}
    Restarts = TRUE
INVARIANT TypeOK
INVARIANT NodesAreRegistered
PROPERTY ViewNeverGoesBack
PROPERTY GoneStaysGone
SYMMETRY Symmetry
CHECK_DEADLOCK FALSE
