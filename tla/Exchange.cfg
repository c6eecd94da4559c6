SPECIFICATION Spec
CONSTANTS
    a = a
    b = b
    c = c
    NProc = 3
    Particle = {a, b}
    Pos <- Cell
    Cuts <- MCCuts
    Owner <- MCOwner
    Near <- MCNear
    MaxIter = 2
    SendBuffer = 3
SYMMETRY Interchangeable
INVARIANTS
    TypeOK
    DInv
    Conservation
    IntegratedOnce
    NothingLeftOver
    RoundIsolation
    GhostsCurrent
    BoundedSkew
PROPERTY
    ImplementsRedistribution
