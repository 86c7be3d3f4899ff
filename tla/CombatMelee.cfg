SPECIFICATION Spec
CONSTANTS
    p1 = p1
    p2 = p2
    p3 = p3
    NoPlayer = NoPlayer
    Player = {p1, p2, p3}
    WtPlayer = {p1, p2}
    Swinger = {p1, p2}
    Quitter = {}
    Silent = {p3}
    Cut = {}
    MaxHealth = 25
    Damage = 25
    IntSpan = 1000
    Place <- Here
    Spawn <- MCSpawn
    QueueCap = 1
INVARIANT AliveIffHealthy
INVARIANT OverkillBounded
INVARIANT DeathNotForgotten
INVARIANT DeathScreenIsTrue
CHECK_DEADLOCK FALSE
SYMMETRY Symmetry
