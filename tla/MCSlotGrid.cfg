SPECIFICATION Spec
CONSTANTS
    a = a
    b = b
    w = w
    s = s
    Hole = Hole
    Symbols = {a, b, w, s}
    Scale = 2
    MaxInt = 60
    Games <- SmallGames
INVARIANTS
    TypeOK
    PaysEveryPath
    SurvivorsFall
    RefillOrder
PROPERTIES
    ScattersStay
