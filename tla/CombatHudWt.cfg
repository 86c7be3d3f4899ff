SPECIFICATION Spec
CONSTANTS
    p1 = p1
    p2 = p2
    NoPlayer = NoPlayer
    Player = {p1, p2}
    WtPlayer = {p1, p2}
    Swinger = {p1, p2}
    Quitter = {}
    Silent = {}
    Cut = {}
    MaxHealth = 50
    Damage = 25
    IntSpan = 1000
    Place <- Here
    Spawn <- MCSpawn
    QueueCap = 2
INVARIANT HudAgrees
CHECK_DEADLOCK FALSE
