CONSTANTS
    RC = 2
    Pos <- Spread
    Rank = {0, 1, 2}
    Me = 0
    Region <- Slices
    MaxEls = 2
    MaxGhosts = 2
    MaxIter = 2

SPECIFICATION Spec

INVARIANTS
    ListsPartition
    BordersAreShell
    CopiedOnce
    PairsOnce
