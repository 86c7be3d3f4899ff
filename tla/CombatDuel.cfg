SPECIFICATION FairSpec
CONSTANTS
    p1 = p1
    p2 = p2
    NoPlayer = NoPlayer
    Player = {p1, p2}
    WtPlayer = {}
    Swinger = {p1, p2}
    Quitter = {p2}
    Silent = {p2}
    Cut = {p2}
    MaxHealth = 50
    Damage = 25
    IntSpan = 1000
    Place <- TwoFar
    Spawn <- MCSpawn
    QueueCap = 1
INVARIANT TypeOK
 
 
 
 
PROPERTY SwingEnds
PROPERTY GoneLeaves
CHECK_DEADLOCK FALSE
