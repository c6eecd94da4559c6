CONSTANTS
    RC = 2
    Pos <- Spread
    Rank = {0, 1}
    Me = 0
    Region <- CutInY
    MaxEls = 2
    MaxGhosts = 1
    MaxIter = 1

SPECIFICATION Spec

INVARIANTS
    NeighborsOfCell
