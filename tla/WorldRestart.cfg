SPECIFICATION Spec
CONSTANTS
    a = a
    b = b
    a1 = a1
    a2 = a2
    b1 = b1
    NoPlayer = NoPlayer
    Nothing = Nothing
    Client = {a, b}
    Player = {a1, a2, b1}
    WtPlayer = {a1, a2, b1}
    Owner <- Owners
    TickSpan = 100
    MaxSnapshots = 3
    Watched = {a}
    Restarts = TRUE
INVARIANT LastTickIsPast
CHECK_DEADLOCK FALSE
