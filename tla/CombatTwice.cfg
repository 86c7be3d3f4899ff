SPECIFICATION Spec
CONSTANTS
    p1 = p1
    p2 = p2
    p3 = p3
    NoPlayer = NoPlayer
    Player = {p1, p2, p3}
    WtPlayer = {}
    Swinger = {p1, p2}
    Quitter = {}
    Silent = {}
    Cut = {}
    MaxHealth = 25
    Damage = 25
    IntSpan = 1000
    Place <- Here
    Spawn <- MCSpawn
    QueueCap = 2
INVARIANT DeadClientIsDead
CHECK_DEADLOCK FALSE
