SPECIFICATION Spec
CONSTANTS
    Rank = {0, 1, 2}
    Particle = {p1, p2}
    MaxIter = 2
SYMMETRY Symmetry
INVARIANTS
    SameView
    OnePlace
    TopDataOnTop
    Placed
    GhostsReach
PROPERTIES
    MigratesAsPromised
