CONSTANTS
    RC = 2
    Pos <- Spread
    Rank = {0, 1}
    Me = 0
    Region <- CutInX
    MaxEls = 2
    MaxGhosts = 2
    MaxIter = 1

SPECIFICATION Spec

INVARIANTS
    GhostsInTheirCells
